------------------------------ MODULE Sensors ------------------------------
(***************************************************************************)
(* The sensors HAL: the poll loop and activate of libsensors/sensors.cpp   *)
(* over the drivers built on SamsungSensorBase.                            *)
(*                                                                         *)
(* One thread calls poll again and again; another enables and disables     *)
(* sensors.  They share each driver's mEnabled, its pending event and its  *)
(* ring, under the driver's lock, and the wake pipe.  The poll thread      *)
(* looks at the pending flag without the lock, and at the revents that the *)
(* last poll(2) left, which may be older than what a driver holds.         *)
(*                                                                         *)
(* External: the devices, which report values while they are on, and the   *)
(* motion processing library (MPL), whose code is elsewhere, seen through  *)
(* the revents of its descriptors and the number of events it hands out.   *)
(***************************************************************************)
EXTENDS InputEventReader, FiniteSets

CONSTANTS
  Sensors,     \* the drivers that are compiled in: BOARD_HAS_..._SENSOR
  Value,       \* what a device measures
  Counts,      \* room for events a caller of poll may offer
  MplEvents,   \* the most events the MPL hands out at once
  PipeSize,    \* bytes the wake pipe holds
  MaxReports   \* bound: reports of each device

SensorsAssumption ==
  /\ Sensors \subseteq {"light", "proximity"}
  /\ Value \subseteq Nat
  /\ Counts \subseteq Nat \ {0}
  /\ MplEvents \in Nat
  /\ PipeSize \in Nat \ {0}
  /\ MaxReports \in Nat
ASSUME SensorsAssumption

\* mSensors, in the order of the enum.
Drivers ==
  <<"mpl", "mpl_timer">>
    \o (IF "light" \in Sensors THEN <<"light">> ELSE <<>>)
    \o (IF "proximity" \in Sensors THEN <<"proximity">> ELSE <<>>)
Mpl == {"mpl", "mpl_timer"}

NoReading == -2       \* a float converted from a value has no such value
Other == -3           \* an event that is not EV_ABS with the sensor's code
Reading(s) == Value \cup (IF s = "light" THEN {-1} ELSE {})
Event == Value \cup {-1, Other}

VARIABLES
  \* of each driver
  enabled,   \* mEnabled
  pending,   \* mHasPendingEvent
  distance,  \* mPendingEvent.distance
  ring,      \* mInputReader
  event,     \* what readEvent returned last
  lock,      \* mLock: "free", "poller" or "control"
  \* of each device
  on,        \* the device reports: its attribute "enable"
  now,       \* the value the input core holds for the device
  kernel,    \* events to be read from the device
  reports,   \* history: reports made
  \* of the context
  revents,   \* the drivers whose revents have POLLIN
  wake,      \* bytes in the wake pipe
  poller,    \* where the poll thread is, the driver it is at, and room
  control,   \* where the other thread is, and with which sensor
  told,      \* history: the value delivered last, of each sensor
  unread     \* history: sensors whose value handleEnable could not read and
             \* that delivered nothing since

driver == <<enabled, pending, distance, ring, event, lock>>
device == <<on, now, kernel, reports>>
context == <<revents, wake>>
history == <<told, unread>>
vars == <<driver, device, context, poller, control, history>>

TypeOK ==
  /\ enabled \in [Sensors -> BOOLEAN]
  /\ pending \in [Sensors -> BOOLEAN]
  /\ distance \in [Sensors -> Value \cup {-1, NoReading}]
  /\ ring \in [Sensors -> RingOf(Event)]
  /\ \A s \in Sensors : HeadIsEnd(ring[s])
  /\ event \in [Sensors -> Event \cup {NoEvent}]
  /\ lock \in [Sensors -> {"free", "poller", "control"}]
  /\ on \in [Sensors -> BOOLEAN]
  /\ now \in [Sensors -> Value \cup {-1}]
  /\ kernel \in [Sensors -> Seq(Event)]
  /\ reports \in [Sensors -> 0..MaxReports]
  /\ revents \subseteq Sensors \cup Mpl
  /\ wake \in 0..PipeSize
  /\ poller \in [at : {"idle", "scan", "read", "poll"},
                 i : 1..Len(Drivers) + 1, count : Nat, asked : Nat]
  /\ poller.count <= poller.asked
  /\ control \in [at : {"idle", "enabling", "waking"}, s : Sensors, en : BOOLEAN]
  /\ told \in [Sensors -> Value \cup {NoReading}]
  /\ unread \subseteq Sensors

\* Each driver's constructor sets mEnabled and then calls enable(0, 0), which
\* leaves it set if the attribute cannot be written.
Init ==
  /\ enabled \in [Sensors -> BOOLEAN]
  /\ pending = [s \in Sensors |-> FALSE]
  /\ distance = [s \in Sensors |-> NoReading]
  /\ ring = [s \in Sensors |-> NewRing]
  /\ event = [s \in Sensors |-> NoEvent]
  /\ lock = [s \in Sensors |-> "free"]
  /\ on = [s \in Sensors |-> FALSE]
  /\ now \in [Sensors -> Value]
  /\ kernel = [s \in Sensors |-> <<>>]
  /\ reports = [s \in Sensors |-> 0]
  /\ revents = {}
  /\ wake = 0
  /\ poller = [at |-> "idle", i |-> 1, count |-> 0, asked |-> 0]
  /\ \E s \in Sensors : control = [at |-> "idle", s |-> s, en |-> FALSE]
  /\ told = [s \in Sensors |-> NoReading]
  /\ unread = {}

-----------------------------------------------------------------------------
(* The devices.  The input core passes on a value only when it changed, and *)
(* ends a report with a synchronization event.                              *)

Report(s) ==
  /\ on[s] /\ reports[s] < MaxReports
  /\ \E v \in Reading(s) \ {now[s]} :
       /\ now' = [now EXCEPT ![s] = v]
       /\ kernel' = [kernel EXCEPT ![s] = @ \o <<v, Other>>]
  /\ reports' = [reports EXCEPT ![s] = @ + 1]
  /\ UNCHANGED <<driver, on, context, poller, control, history>>

-----------------------------------------------------------------------------
(* activate: the driver's enable under its lock, then a byte in the pipe.   *)

\* The overrides of ProximitySensor and LightSensor.
hasPendingEvents(s) == s = "proximity" /\ pending[s]
handleEvent(s, v) == s = "proximity" \/ v # -1

\* (mutant) Enabling does not store the distance it read.
handleEnable_no_distance(s, en, works) ==
  IF s = "proximity" /\ en /\ works
  THEN pending' = [pending EXCEPT ![s] = TRUE] /\ UNCHANGED distance
  ELSE UNCHANGED <<pending, distance>>

\* handleEnable(en) reads the current value (or not: ioctl fails).
handleEnable(s, en, works) ==
  IF s = "proximity" /\ en /\ works
  THEN /\ pending' = [pending EXCEPT ![s] = TRUE]
       /\ distance' = [distance EXCEPT ![s] = now[s]]
  ELSE UNCHANGED <<pending, distance>>

\* enable() takes the lock; nothing to do, or the attribute is not written.
EnableEarly(s, en) ==
  /\ control.at = "idle" /\ lock[s] = "free"
  /\ \/ en = enabled[s] /\ control' = [at |-> "waking", s |-> s, en |-> en]
     \/ en # enabled[s] /\ UNCHANGED control
  /\ UNCHANGED <<driver, device, context, poller, history>>

EnableWrite(s, en) ==
  /\ control.at = "idle" /\ lock[s] = "free" /\ en # enabled[s]
  /\ lock' = [lock EXCEPT ![s] = "control"]
  /\ on' = [on EXCEPT ![s] = en]
  /\ enabled' = [enabled EXCEPT ![s] = en]
  /\ control' = [at |-> "enabling", s |-> s, en |-> en]
  /\ UNCHANGED <<pending, distance, ring, event, now, kernel, reports, context,
                 poller, history>>

EnableHandle ==
  LET s == control.s IN
  /\ control.at = "enabling"
  /\ \E works \in {TRUE} \cup {~(s = "proximity" /\ control.en)} :
       /\ handleEnable(s, control.en, works)
       /\ control' = [control EXCEPT !.at = IF works THEN "waking" ELSE "idle"]
       /\ unread' = CASE ~works -> unread \cup {s}
                      [] works /\ control.en -> unread \ {s}
                      [] OTHER -> unread
  /\ lock' = [lock EXCEPT ![s] = "free"]
  /\ UNCHANGED <<enabled, ring, event, device, context, poller, told>>

\* (mutant) The wake byte is written only if the poll thread sleeps.
WakeWrite_if_asleep ==
  /\ control.at = "waking"
  /\ wake' = IF wake < PipeSize /\ poller.at = "poll" THEN wake + 1 ELSE wake
  /\ control' = [control EXCEPT !.at = "idle"]
  /\ UNCHANGED <<driver, device, revents, poller, history>>

\* The pipe does not block; a byte that does not fit is dropped.
WakeWrite ==
  /\ control.at = "waking"
  /\ wake' = IF wake < PipeSize THEN wake + 1 ELSE wake
  /\ control' = [control EXCEPT !.at = "idle"]
  /\ UNCHANGED <<driver, device, revents, poller, history>>

-----------------------------------------------------------------------------
(* pollEvents.  readEvents returns fewer events than there was room for     *)
(* exactly when room is left.                                               *)

PollEvents ==
  /\ poller.at = "idle"
  /\ \E n \in Counts :
       poller' = [at |-> "scan", i |-> 1, count |-> n, asked |-> n]
  /\ UNCHANGED <<driver, device, context, control, history>>

Scanning == poller.at = "scan" /\ poller.count > 0 /\ poller.i <= Len(Drivers)
here == Drivers[poller.i]

\* (mutant) Pending events are not looked for.
Attended_revents_only == here \in revents

\* The pending flag is read without the lock.
Attended == here \in revents \/ (here \in Sensors /\ hasPendingEvents(here))

ScanSkip ==
  /\ Scanning /\ ~Attended
  /\ poller' = [poller EXCEPT !.i = @ + 1]
  /\ UNCHANGED <<driver, device, context, control, history>>

\* One readEvents of the MPL serves both of its descriptors.
ReadMpl ==
  /\ Scanning /\ Attended /\ here \in Mpl
  /\ \E nb \in 0..MplEvents :
       /\ nb <= poller.count
       /\ poller' = [poller EXCEPT !.count = @ - nb,
                                   !.i = IF here = "mpl" THEN @ + 2 ELSE @ + 1]
       /\ revents' = revents \ ((IF nb < poller.count THEN {here} ELSE {})
                                  \cup (IF here = "mpl" THEN {"mpl_timer"} ELSE {}))
  /\ UNCHANGED <<driver, device, wake, control, history>>

\* What follows readEvents in the scan, with the room that is left.
Return(s, room) ==
  /\ revents' = IF room > 0 THEN revents \ {s} ELSE revents
  /\ poller' = [poller EXCEPT !.at = "scan", !.i = @ + 1, !.count = room]

\* readEvents hands out the pending event and leaves the ring alone.
ReadPending ==
  LET s == here IN
  /\ Scanning /\ Attended /\ s \in Sensors /\ lock[s] = "free" /\ pending[s]
  /\ pending' = [pending EXCEPT ![s] = FALSE]
  /\ told' = IF enabled[s] THEN [told EXCEPT ![s] = distance[s]] ELSE told
  /\ Return(s, IF enabled[s] THEN poller.count - 1 ELSE poller.count)
  /\ UNCHANGED <<enabled, distance, ring, event, lock, device, wake, control, unread>>

ReadBegin ==
  LET s == here IN
  /\ Scanning /\ Attended /\ s \in Sensors /\ lock[s] = "free" /\ ~pending[s]
  /\ lock' = [lock EXCEPT ![s] = "poller"]
  /\ poller' = [poller EXCEPT !.at = "read"]
  /\ UNCHANGED <<enabled, pending, distance, ring, event, device, context, control, history>>

\* readEvent finds an event, in the ring or at the device.
HasEvent(s) == ~MustFill(ring[s]) \/ kernel[s] # <<>>

\* The events readv reads: as many as fit.
Fetched(s) ==
  SubSeq(kernel[s], 1, IF Len(kernel[s]) < ring[s].free THEN Len(kernel[s])
                       ELSE ring[s].free)

\* The ring after readEvent.
RingRead(s) == IF MustFill(ring[s]) THEN fill(ring[s], Fetched(s)) ELSE ring[s]

\* One turn of readEvents' loop.
ReadOne ==
  LET s == here
      e == current(RingRead(s))
      deliver == e # Other /\ enabled[s] /\ handleEvent(s, e) IN
  /\ poller.at = "read" /\ poller.count > 0 /\ HasEvent(s)
  /\ event' = [event EXCEPT ![s] = e]
  /\ kernel' = IF MustFill(ring[s])
               THEN [kernel EXCEPT ![s] = SubSeq(@, Len(Fetched(s)) + 1, Len(@))]
               ELSE kernel
  /\ ring' = [ring EXCEPT ![s] = next(RingRead(s))]
  /\ IF deliver
     THEN /\ distance' = [distance EXCEPT ![s] = e]
          /\ told' = [told EXCEPT ![s] = e]
          /\ unread' = unread \ {s}
          /\ poller' = [poller EXCEPT !.count = @ - 1]
     ELSE UNCHANGED <<distance, history, poller>>
  /\ UNCHANGED <<enabled, pending, lock, on, now, reports, context, control>>

ReadEnd ==
  LET s == here IN
  /\ poller.at = "read" /\ (poller.count = 0 \/ ~HasEvent(s))
  /\ lock' = [lock EXCEPT ![s] = "free"]
  /\ Return(s, poller.count)
  /\ UNCHANGED <<enabled, pending, distance, ring, event, device, wake, control, history>>

\* The scan is over: the caller's room is used up, or poll(2) is asked.
ScanEnd ==
  /\ poller.at = "scan" /\ ~Scanning
  /\ poller' = [poller EXCEPT !.at = IF poller.count > 0 THEN "poll" ELSE "idle"]
  /\ UNCHANGED <<driver, device, context, control, history>>

Readable == {s \in Sensors : kernel[s] # <<>>}
Waits == poller.count = poller.asked      \* nbEvents is 0: no timeout

\* poll(2) returns and replaces every revents; m are the descriptors of the
\* MPL that are readable, and power says whether its power event is, which
\* is handled at once.  With nothing to announce the call of pollEvents ends.
PollReturns(m, power) ==
  LET n == Readable # {} \/ wake > 0 \/ m # {} \/ power IN
  /\ revents' = Readable \cup m
  /\ wake' = IF wake > 0 THEN wake - 1 ELSE 0
  /\ poller' = [poller EXCEPT !.at = IF n THEN "scan" ELSE "idle", !.i = 1]
  /\ UNCHANGED <<driver, device, control, history>>

Poll ==
  /\ poller.at = "poll" /\ (Readable # {} \/ wake > 0 \/ ~Waits)
  /\ \E m \in SUBSET Mpl, power \in BOOLEAN : PollReturns(m, power)

\* Only the MPL wakes the thread.
PollMpl ==
  /\ poller.at = "poll" /\ Readable = {} /\ wake = 0 /\ Waits
  /\ \E m \in SUBSET Mpl, power \in BOOLEAN :
       (m # {} \/ power) /\ PollReturns(m, power)

-----------------------------------------------------------------------------
PollThread ==
  \/ PollEvents \/ ScanSkip \/ ReadMpl \/ ReadPending \/ ReadBegin \/ ReadOne
  \/ ReadEnd \/ ScanEnd \/ Poll

Activate ==
  \/ \E s \in Sensors, en \in BOOLEAN : EnableEarly(s, en) \/ EnableWrite(s, en)
  \/ EnableHandle
  \/ WakeWrite

Next ==
  \/ PollThread
  \/ PollMpl
  \/ Activate
  \/ \E s \in Sensors : Report(s)

\* The caller polls in a loop and every call goes on; a lock that is let go
\* again and again is got in the end.  Nobody has to activate a sensor, and
\* nothing has to be reported, by a device or by the MPL.
Fairness ==
  /\ WF_vars(PollThread)
  /\ SF_vars(ReadPending)
  /\ SF_vars(ReadBegin)
  /\ WF_vars(EnableHandle)
  /\ WF_vars(WakeWrite)

Spec == Init /\ [][Next]_vars /\ Fairness

-----------------------------------------------------------------------------
(* Properties. *)

Queues == INSTANCE Fifo WITH
  Device <- Sensors, Item <- Event, NoItem <- NoEvent,
  queue <- [s \in Sensors |-> Contents(ring[s]) \o kernel[s]], last <- event

\* Reading through the ring hands readEvents every event of the device, once
\* and in the order of the reports, wherever in the buffer a read ended and
\* however many events a call left behind (InputEventReader.cpp, and
\* readEvents of SamsungSensorBase.cpp).
RefinesFifo == Queues!Spec

\* The poll thread, about to sleep in poll(2) or asleep in it.
Asleep == poller.at = "poll" /\ Waits

\* The poll thread does not sleep over a pending event that the other thread
\* set after the scan looked for one: there is a byte in the wake pipe, or
\* the byte is about to be written (activate and pollEvents, sensors.cpp).
NoLostWakeup ==
  Asleep => \A s \in Sensors :
    hasPendingEvents(s) =>
      wake > 0 \/ (control.at = "waking" /\ control.s = s)

\* When everything a proximity sensor reported was read and the poll thread
\* sleeps, the value delivered last is the one the device has now, whatever
\* was enabled, disabled, left in the ring or dropped before, unless
\* handleEnable could not read it (enable and readEvents of
\* SamsungSensorBase.cpp, handleEnable of ProximitySensor.cpp).
SleepKnowsValue ==
  \A s \in Sensors \ ({"light"} \cup unread) :
    Asleep /\ on[s] /\ ~pending[s] /\ kernel[s] = <<>>
           /\ ~(control.at = "enabling" /\ control.s = s)
      => told[s] = now[s]

\* A pending event is taken: no other driver's events and no activation of a
\* sensor keep the poll thread from it forever (pollEvents).  The MPL, which is
\* read first, is taken to hand out fewer events than the caller has room for: one
\* that filled it every time would keep the loop from ever reaching the others.
PendingIsTaken ==
  \A s \in Sensors : pending[s] ~> ~pending[s]

\* sensors.cpp:288 on clearing a driver's revents: "no more data for this
\* sensor".  So no driver holds an unread value when poll(2) is asked.
NoMoreData ==
  poller.at = "poll" =>
    \A s \in Sensors : \A i \in DOMAIN Contents(ring[s]) :
      Contents(ring[s])[i] = Other

=============================================================================
