------------------------------- MODULE Mc1n2 -------------------------------
(***************************************************************************)
(* The Yamaha MC1N2 codec library, libaudio/yamaha-mc1n2-audio.            *)
(*                                                                         *)
(* One static platform record (smdk4210_pdata) holds the state flags and   *)
(* devices of the codec; no lock protects it.  A call changes the record   *)
(* and then, in yamaha_mc1n2_audio_route_start, reads it back, merges the  *)
(* routes of the directions that are on, and programs three registers of   *)
(* the codec with one ioctl each.                                          *)
(*                                                                         *)
(* The callers are three: the playback stream (audio_out.c, under its      *)
(* stream lock, except when it is closed), the capture stream (audio_in.c, *)
(* likewise), and the device (audio_hw.c, under the device lock, and under *)
(* a stream lock as well when it routes a stream).  They exclude each      *)
(* other only as far as these locks do, so calls interleave here at the    *)
(* reads of the record and at the ioctls.                                  *)
(***************************************************************************)
EXTENDS Naturals, FiniteSets

CONSTANTS
  OutDevices,   \* devices for which audio_is_output_device holds
  InDevices,    \* devices for which audio_is_input_device holds
  NoDevice,     \* the zero a device field starts with
  NoRoute,      \* a direction that contributes nothing to the merge
  OutRoutes,    \* devices the platform table has an output route for
  InRoutes,     \* ... an input route for
  ModemRoutes,  \* ... a modem route for
  MaxCalls      \* bound: calls in a behaviour

Caller == {"player", "recorder", "control"}
Direction == {"output", "input", "modem"}
Register == {"ae", "path", "dac"}

ASSUME DeviceAssumption ==
  /\ NoDevice \notin OutDevices \cup InDevices
  /\ OutDevices \cap InDevices = {}
  /\ OutRoutes \subseteq OutDevices
  /\ ModemRoutes \subseteq OutDevices
  /\ InRoutes \subseteq InDevices
  /\ NoRoute \notin OutDevices \cup InDevices

ASSUME BoundAssumption == MaxCalls \in Nat

VARIABLES
  state,    \* output_state, input_state, modem_state
  device,   \* output_device, input_device
  regs,     \* what was last programmed into each register
  pc,       \* where each caller is in its call
  seen,     \* the routes the caller has found so far
  holds,    \* the stream locks the caller holds during its call
  hw_fd,    \* ops->hw_fd is a descriptor
  opening,  \* the caller has opened the node and not stored the descriptor
  fds,      \* descriptors of the node the process has open
  missed,   \* history: yamaha_mc1n2_audio_init could not open the node, or an
            \* audio_hw_open that failed after it left the node open
  solo,     \* history: no other call has run during the caller's call
  clean,    \* history: the last call that programmed the codec ran alone to
            \* its end, and no other was begun since
  calls     \* calls made, for MaxCalls

vars == <<state, device, regs, pc, seen, holds, hw_fd, opening, fds, missed,
          solo, clean, calls>>

Reads == {"read_output", "read_input", "read_modem"}
Ioctls == {"ae", "path", "dac", "notify"}

\* The routes merged over the init parameters, by the direction they come from.
Device == OutDevices \cup InDevices
Route == [Direction -> OutRoutes \cup InRoutes \cup ModemRoutes \cup {NoRoute}]
InitRoute == [dir \in Direction |-> NoRoute]

TypeOK ==
  /\ state \in [Direction -> BOOLEAN]
  /\ device \in [{"output", "input"} -> Device \cup {NoDevice}]
  /\ regs \in [Register -> Route]
  /\ pc \in [Caller -> {"idle"} \cup Reads \cup Ioctls]
  /\ seen \in [Caller -> Route]
  /\ holds \in [Caller -> SUBSET {"stream_out", "stream_in"}]
  /\ hw_fd \in BOOLEAN
  /\ opening \in [Caller -> BOOLEAN]
  /\ fds \in Nat
  /\ missed \in BOOLEAN
  /\ solo \in [Caller -> BOOLEAN]
  /\ clean \in BOOLEAN
  /\ calls \in Nat

-----------------------------------------------------------------------------
\* (mutant) The platform table is not searched for the device.
found_unsearched(dir) ==
  IF ~state[dir] THEN NoRoute
  ELSE IF dir = "input" THEN device["input"] ELSE device["output"]

\* yamaha_mc1n2_audio_params_route_find for the direction, when it is on.  The
\* modem takes the route of the output device.
found(dir) ==
  CASE dir = "output" -> IF state["output"] /\ device["output"] \in OutRoutes
                         THEN device["output"] ELSE NoRoute
    [] dir = "input"  -> IF state["input"] /\ device["input"] \in InRoutes
                         THEN device["input"] ELSE NoRoute
    [] dir = "modem"  -> IF state["modem"] /\ device["output"] \in ModemRoutes
                         THEN device["output"] ELSE NoRoute

\* What the record asks the codec for.
Wanted == [dir \in Direction |-> found(dir)]

Idle(t) == pc[t] = "idle"
AllIdle == \A t \in Caller : Idle(t)

\* The caller enters route_start holding the locks; the others that are in a
\* call no longer run alone.
Begin(t, locks) ==
  /\ Idle(t)
  /\ \A u \in Caller : holds[u] \cap locks = {}
  /\ calls < MaxCalls
  /\ calls' = calls + 1
  /\ pc' = [pc EXCEPT ![t] = "read_output"]
  /\ seen' = [seen EXCEPT ![t] = InitRoute]
  /\ holds' = [holds EXCEPT ![t] = locks]
  /\ solo' = [u \in Caller |-> u = t /\ \A v \in Caller \ {t} : Idle(v)]
  /\ clean' = FALSE
  /\ UNCHANGED <<regs, hw_fd, opening, fds, missed>>

\* yamaha_mc1n2_audio_output_start and _stop; _stop runs without the stream
\* lock in audio_hw_close_output_stream.
Output(on) ==
  \E locks \in IF on THEN {{"stream_out"}} ELSE {{"stream_out"}, {}} :
    /\ Begin("player", locks)
    /\ state' = [state EXCEPT !["output"] = on]
    /\ UNCHANGED device

\* yamaha_mc1n2_audio_input_start and _stop.
Input(on) ==
  \E locks \in IF on THEN {{"stream_in"}} ELSE {{"stream_in"}, {}} :
    /\ Begin("recorder", locks)
    /\ state' = [state EXCEPT !["input"] = on]
    /\ UNCHANGED device

\* yamaha_mc1n2_audio_modem_start and _stop.
Modem(on) ==
  /\ Begin("control", {})
  /\ state' = [state EXCEPT !["modem"] = on]
  /\ UNCHANGED device

AnyOn == \E dir \in Direction : state[dir]

\* (mutant) Only the direction the device belongs to makes a change matter.
SetRoute_own_direction_only(kind, lock, d) ==
  /\ d # device[kind]
  /\ device' = [device EXCEPT ![kind] = d]
  /\ IF state[kind]
     THEN Begin("control", {lock}) /\ UNCHANGED state
     ELSE /\ Idle("control")
          /\ UNCHANGED <<state, regs, pc, seen, holds, hw_fd, opening, fds,
                         missed, solo, clean, calls>>

\* (mutant) The route is changed without the lock of the stream.
SetRoute_unlocked(kind, lock, d) ==
  /\ d # device[kind]
  /\ device' = [device EXCEPT ![kind] = d]
  /\ Begin("control", {})
  /\ UNCHANGED state

\* yamaha_mc1n2_audio_set_route of a device of the kind, called with the lock
\* of the stream it routes: the codec is only touched if the device changed
\* and some direction is on.
SetRoute(kind, lock, d) ==
  /\ d # device[kind]
  /\ device' = [device EXCEPT ![kind] = d]
  /\ IF AnyOn
     THEN Begin("control", {lock}) /\ UNCHANGED state
     ELSE /\ Idle("control")
          /\ \A u \in Caller : lock \notin holds[u]
          /\ UNCHANGED <<state, regs, pc, seen, holds, hw_fd, opening, fds,
                         missed, solo, clean, calls>>

\* route_start looks at the three directions one after the other.
Read(t, here, dir, next) ==
  /\ pc[t] = here
  /\ seen' = [seen EXCEPT ![t][dir] = found(dir)]
  /\ pc' = [pc EXCEPT ![t] = next]
  /\ UNCHANGED <<state, device, regs, holds, hw_fd, opening, fds, missed, solo,
                 clean, calls>>

ReadOutput(t) == Read(t, "read_output", "output", "read_input")
ReadInput(t) == Read(t, "read_input", "input", "read_modem")
ReadModem(t) == Read(t, "read_modem", "modem", "ae")

\* The call returns, releasing its locks.
Leave(t, ok) ==
  /\ pc' = [pc EXCEPT ![t] = "idle"]
  /\ holds' = [holds EXCEPT ![t] = {}]
  /\ solo' = [solo EXCEPT ![t] = FALSE]
  /\ clean' = (ok /\ solo[t])

\* The ioctl the caller is about to make.  set_route ends where the start and
\* stop calls notify the codec.
IsSetRoute(t) == t = "control" /\ holds[t] # {}
IoctlDue(t) == pc[t] \in IF IsSetRoute(t) THEN Register ELSE Ioctls

\* yamaha_mc1n2_audio_ioctl finds no descriptor and opens the node ...
OpenNode(t) ==
  /\ IoctlDue(t) /\ ~hw_fd /\ ~opening[t]
  /\ \/ /\ opening' = [opening EXCEPT ![t] = TRUE]
        /\ fds' = fds + 1
        /\ UNCHANGED <<pc, holds, solo, clean>>
     \/ /\ Leave(t, FALSE)
        /\ UNCHANGED <<opening, fds>>
  /\ UNCHANGED <<state, device, regs, seen, hw_fd, missed, calls>>

\* ... and stores the descriptor over whatever hw_fd is by then.
StoreNode(t) ==
  /\ opening[t]
  /\ opening' = [opening EXCEPT ![t] = FALSE]
  /\ hw_fd' = TRUE
  /\ UNCHANGED <<state, device, regs, pc, seen, holds, fds, missed, solo, clean,
                 calls>>

CanIoctl(t) == IoctlDue(t) /\ hw_fd /\ ~opening[t]

After(p) == CASE p = "ae" -> "path" [] p = "path" -> "dac" [] p = "dac" -> "notify"

\* MCDRV_SET_AUDIOENGINE, MCDRV_SET_PATH and MCDRV_SET_DAC.
Program(t) ==
  /\ CanIoctl(t)
  /\ pc[t] \in Register
  /\ regs' = [regs EXCEPT ![pc[t]] = seen[t]]
  /\ pc' = [pc EXCEPT ![t] = After(pc[t])]
  /\ UNCHANGED <<state, device, seen, holds, hw_fd, opening, fds, missed, solo,
                 clean, calls>>

\* The MCDRV_NOTIFY_ ioctl of the call, or the return of set_route.
Notify(t) ==
  /\ pc[t] = "notify"
  /\ IsSetRoute(t) \/ CanIoctl(t)
  /\ Leave(t, TRUE)
  /\ UNCHANGED <<state, device, regs, seen, hw_fd, opening, fds, missed, calls>>

\* An ioctl fails and the call gives up; the flags keep what it set.
IoctlFails(t) ==
  /\ CanIoctl(t)
  /\ Leave(t, FALSE)
  /\ UNCHANGED <<state, device, regs, seen, hw_fd, opening, fds, missed, calls>>

\* (mutant) The descriptor is forgotten without being closed.
Reopen_no_close ==
  /\ AllIdle
  /\ calls < MaxCalls
  /\ calls' = calls + 1
  /\ fds' = fds + 1
  /\ hw_fd' = TRUE
  /\ clean' = FALSE
  /\ UNCHANGED <<state, device, regs, pc, seen, holds, opening, missed, solo>>

\* Descriptors left open by audio_hw_open when it finds no mixer: it frees the
\* device without stopping the library, whose next start forgets the
\* descriptor.  Bound: once between two opens that succeed.
Abandoned == 0..1

\* audio_hw_close and the next audio_hw_open: _stop closes the descriptor,
\* _start forgets it, _init opens the node and programs the DAC.  The record
\* keeps its flags and devices.  If the node cannot be opened the HAL goes on
\* without it; a later ioctl of _init failing leaves the DAC programmed.
Reopen ==
  /\ AllIdle
  /\ calls < MaxCalls
  /\ calls' = calls + 1
  /\ \E got \in BOOLEAN, programmed \in BOOLEAN, left \in Abandoned :
       /\ programmed => got \/ left > 0
       /\ fds' = (fds - (IF hw_fd THEN 1 ELSE 0)) + (IF got THEN 1 ELSE 0) + left
       /\ hw_fd' = got
       /\ missed' = (missed \/ ~got \/ left > 0)
       /\ regs' = IF programmed THEN [regs EXCEPT !["dac"] = InitRoute] ELSE regs
  /\ clean' = (clean /\ ~AnyOn)
  /\ UNCHANGED <<state, device, pc, seen, holds, opening, solo>>

Init ==
  /\ state = [dir \in Direction |-> FALSE]
  /\ device = [kind \in {"output", "input"} |-> NoDevice]
  /\ regs = [r \in Register |-> InitRoute]
  /\ pc = [t \in Caller |-> "idle"]
  /\ seen = [t \in Caller |-> InitRoute]
  /\ holds = [t \in Caller |-> {}]
  /\ hw_fd \in BOOLEAN
  /\ opening = [t \in Caller |-> FALSE]
  /\ fds = IF hw_fd THEN 1 ELSE 0
  /\ missed = ~hw_fd
  /\ solo = [t \in Caller |-> FALSE]
  /\ clean = TRUE
  /\ calls = 0

Step(t) ==
  \/ ReadOutput(t) \/ ReadInput(t) \/ ReadModem(t)
  \/ OpenNode(t) \/ StoreNode(t)
  \/ Program(t) \/ Notify(t) \/ IoctlFails(t)

Next ==
  \/ \E on \in BOOLEAN : Output(on) \/ Input(on) \/ Modem(on)
  \/ \E d \in OutDevices : SetRoute("output", "stream_out", d)
  \/ \E d \in InDevices : SetRoute("input", "stream_in", d)
  \/ \E t \in Caller : Step(t)
  \/ Reopen

Spec == Init /\ [][Next]_vars

-----------------------------------------------------------------------------
(* Properties.                                                             *)

\* The codec plays what the record says: when no call is running and the last
\* one ran alone to its end, all three registers hold the merge of the routes
\* of the directions that are on and their current devices, even though a
\* device may have changed while everything was off and the record outlives
\* the HAL.
CodecFollowsRecord ==
  AllIdle /\ clean => \A r \in Register : regs[r] = Wanted

\* The node is opened once: the unguarded lazy open of
\* yamaha_mc1n2_audio_ioctl (line 62) can only run twice, and leave a
\* descriptor behind, if yamaha_mc1n2_audio_init failed to open the node.  The
\* other way to leave one behind is audio_hw_open (audio_hw.c:482).
OneDescriptor == ~missed => fds = 1

\* However calls overlap, a caller programs its own direction right: between
\* its reads and its last ioctl neither the flag nor the device it read for
\* that direction changes.  For a stream this is what holding its lock across
\* yamaha_mc1n2_audio_output_start, _stop and _set_route is for.
OwnRouteIsFresh ==
  \A t \in Caller :
    pc[t] \in Ioctls =>
      LET own == CASE t = "player" -> "output"
                   [] t = "recorder" -> "input"
                   [] t = "control" -> "modem"
      IN  seen[t][own] = found(own)
=============================================================================
