------------------------------- MODULE Mixer -------------------------------
(***************************************************************************)
(* The route and state engine of libaudio/tinyalsa_audio/mixer.c.          *)
(*                                                                         *)
(* A mixer has three directions (output, input, modem).  A direction is    *)
(* off or on, and when on it may have one current device.  The config file *)
(* gives every device of a direction an "enable" and a "disable" list of   *)
(* control writes.  The controls themselves belong to the sound card: hw   *)
(* is what the card holds.                                                 *)
(*                                                                         *)
(* Every entry point of mixer.c is one action: all callers in audio_hw.c,  *)
(* audio_out.c and audio_in.c hold device->lock around it, and the handle  *)
(* mixer->mixer is opened and closed inside it.  Opening the card may fail *)
(* and so may each control write; a list that fails has already written    *)
(* some prefix of its entries.                                             *)
(***************************************************************************)
EXTENDS Naturals, Sequences

CONSTANTS
  Ctl,         \* names of the sound card's controls
  OutDevices,  \* device types for which audio_is_output_device holds
  InDevices,   \* device types for which audio_is_input_device holds
  OutDefault,  \* AUDIO_DEVICE_OUT_DEFAULT
  InDefault,   \* AUDIO_DEVICE_IN_DEFAULT
  NoDevice,    \* a NULL device_current
  Enable,      \* Enable[dir][d]: the enable list of device d in direction dir
  Disable,     \* Disable[dir][d]: its disable list
  VolumeSteps, \* the volumes 0.0 .. 1.0 are n / VolumeSteps
  PowerOn      \* what the controls hold before the first route is set

Direction == {"output", "input", "modem"}
Device == OutDevices \cup InDevices

\* The attr="..." names mixer.c looks for.
NoAttr == "none"
Attr == {"output-volume", "master-volume", "input-gain", "voice-volume", "mic-mute"}

\* One <ctrl> or <write> element: [kind, ctl, val, max, attr].  val is what
\* atoi (or strcmp "on") makes of the value string; a "min-max" string has
\* val = min and max > min, a plain one has max = val.
Entry == [kind : {"ctrl", "write"}, ctl : Ctl, val : Nat, max : Nat,
          attr : Attr \cup {NoAttr}]

Configured(dir) == DOMAIN Enable[dir]

ASSUME DeviceAssumption ==
  /\ NoDevice \notin Device
  /\ OutDefault \in OutDevices
  /\ InDefault \in InDevices
  /\ OutDevices \cap InDevices = {}

ASSUME ConfigAssumption ==
  /\ PowerOn \in [Ctl -> Nat]
  /\ VolumeSteps \in Nat \ {0}
  /\ \A dir \in Direction :
       /\ Configured(dir) \subseteq Device
       /\ DOMAIN Disable[dir] = Configured(dir)
       /\ \A d \in Configured(dir) : /\ Enable[dir][d] \in Seq(Entry)
                                     /\ Disable[dir][d] \in Seq(Entry)

VARIABLES
  opened, \* a struct tinyalsa_mixer exists
  io,     \* io[dir]: .state and .current (device_current) of the direction
  hw,     \* the values the card's controls hold
  ret,    \* the last set_device and what it returned, if the last call was one
  fault   \* history: the control writes of the direction that failed, below

vars == <<opened, io, hw, ret, fault>>

(***************************************************************************)
(* fault[dir] is "none" when no control write of the direction ever        *)
(* failed, "last" when the last call that wrote its controls failed, and   *)
(* "past" when it succeeded but an earlier one failed.                     *)
(***************************************************************************)
Fault == {"none", "last", "past"}

\* (mutant) A mixer that is allocated but not zeroed.
FreshIo_malloc == [dir \in Direction |-> [state |-> FALSE, current |-> "garbage"]]

\* What calloc leaves in a new mixer.
FreshIo == [dir \in Direction |-> [state |-> FALSE, current |-> NoDevice]]

IoState == [state : BOOLEAN, current : Device \cup {NoDevice}]

TypeOK ==
  /\ opened \in BOOLEAN
  /\ io \in [Direction -> IoState]
  /\ hw \in [Ctl -> Nat]
  /\ ret \in [dev : Device \cup {NoDevice}, ok : BOOLEAN]
  /\ fault \in [Direction -> Fault]

-----------------------------------------------------------------------------
(* Control lists.                                                          *)

\* The entries of a list that a route change writes.
Routed(e) == e.kind = "ctrl" /\ e.attr # "voice-volume"

WritesTo(list, n, c) == {i \in 1..n : Routed(list[i]) /\ list[i].ctl = c}

LastOf(S) == CHOOSE i \in S : \A j \in S : j <= i

\* The controls after the first n entries of the list took effect on h.
After(list, n, h) ==
  [c \in Ctl |-> LET w == WritesTo(list, n, c)
                 IN  IF w = {} THEN h[c] ELSE list[LastOf(w)].val]

\* Entries that took effect in a list that failed: the failing write is the
\* last of them (it had set some of its values) or the one that follows.
FailPoints(list) ==
  {n \in 0..Len(list) : \E i \in {n, n + 1} \cap DOMAIN list : Routed(list[i])}

\* The outcomes of tinyalsa_mixer_set_route_list.
set_route_list(list, h) ==
  {[hw |-> After(list, Len(list), h), ok |-> TRUE]}
    \cup {[hw |-> After(list, n, h), ok |-> FALSE] : n \in FailPoints(list)}

\* Nothing to write: the call is skipped.
Skip(h) == {[hw |-> h, ok |-> TRUE]}

-----------------------------------------------------------------------------
(* Directions.  An outcome is the direction's new record, the controls,    *)
(* the return value, and whether control lists were run at all.            *)

Outcome(i, h, ok, ran) == [io |-> i, hw |-> h, ok |-> ok, ran |-> ran]

\* (mutant) The new device is enabled before the current one is disabled.
set_route_enable_first(dir, d, i, h) ==
  {Outcome(i, h, FALSE, FALSE)}
    \cup
  IF d \notin Configured(dir) THEN {}
  ELSE IF d = i.current THEN {Outcome(i, h, TRUE, FALSE)}
  ELSE UNION {
    IF ~x.ok THEN {Outcome(i, x.hw, FALSE, TRUE)}
    ELSE {Outcome([i EXCEPT !.current = d], y.hw, y.ok, TRUE) :
            y \in IF i.current = NoDevice THEN Skip(x.hw)
                  ELSE set_route_list(Disable[dir][i.current], x.hw)} :
    x \in set_route_list(Enable[dir][d], h)}

\* tinyalsa_mixer_set_route: disable the current device, enable the new one.
set_route(dir, d, i, h) ==
  {Outcome(i, h, FALSE, FALSE)}   \* mixer_open failed, or no such device
    \cup
  IF d \notin Configured(dir) THEN {}
  ELSE IF d = i.current THEN {Outcome(i, h, TRUE, FALSE)}
  ELSE UNION {
    IF ~x.ok THEN {Outcome(i, x.hw, FALSE, TRUE)}
    ELSE {Outcome(IF y.ok THEN [i EXCEPT !.current = d] ELSE i, y.hw, y.ok, TRUE) :
            y \in set_route_list(Enable[dir][d], x.hw)} :
    x \in IF i.current = NoDevice THEN Skip(h)
          ELSE set_route_list(Disable[dir][i.current], h)}

DefaultDevice(dir) == IF dir = "input" THEN InDefault ELSE OutDefault

\* (mutant) Switching off disables the default device only.
set_state_forgets_current(dir, on, i, h) ==
  IF i.state = on THEN {Outcome(i, h, TRUE, FALSE)}
  ELSE {Outcome([state |-> on, current |-> NoDevice], y.hw, y.ok, TRUE) :
          y \in IF DefaultDevice(dir) \notin Configured(dir) THEN Skip(h)
                ELSE IF on THEN set_route_list(Enable[dir][DefaultDevice(dir)], h)
                ELSE set_route_list(Disable[dir][DefaultDevice(dir)], h)}

\* tinyalsa_mixer_set_state: switching off disables the current device, then
\* the default one; switching on enables the default one.
set_state(dir, on, i, h) ==
  IF i.state = on THEN {Outcome(i, h, TRUE, FALSE)}
  ELSE {Outcome(i, h, FALSE, FALSE)} \cup UNION {
    IF ~x.ok THEN {Outcome(i, x.hw, FALSE, TRUE)}
    ELSE {Outcome(IF y.ok THEN [state |-> on, current |-> NoDevice] ELSE i,
                  y.hw, y.ok, TRUE) :
            y \in IF DefaultDevice(dir) \notin Configured(dir) THEN Skip(x.hw)
                  ELSE IF on THEN set_route_list(Enable[dir][DefaultDevice(dir)], x.hw)
                  ELSE set_route_list(Disable[dir][DefaultDevice(dir)], x.hw)} :
    x \in IF on \/ i.current = NoDevice THEN Skip(h)
          ELSE set_route_list(Disable[dir][i.current], h)}

FaultAfter(f, o) ==
  CASE ~o.ran -> f
    [] o.ran /\ ~o.ok -> "last"
    [] o.ran /\ o.ok -> IF f = "none" THEN "none" ELSE "past"

-----------------------------------------------------------------------------
(* Entry points.                                                           *)

NoReturn == [dev |-> NoDevice, ok |-> TRUE]
NotSetDevice == ret' = NoReturn

\* tinyalsa_mixer_open: the config has been parsed, the card is untouched.
Open ==
  /\ ~opened
  /\ opened' = TRUE
  /\ io' = FreshIo
  /\ NotSetDevice
  /\ UNCHANGED <<hw, fault>>

\* tinyalsa_mixer_set_output_state, _input_state and _modem_state.
SetState(dir, on) ==
  /\ opened
  /\ \E o \in set_state(dir, on, io[dir], hw) :
       /\ io' = [io EXCEPT ![dir] = o.io]
       /\ hw' = o.hw
       /\ fault' = [fault EXCEPT ![dir] = FaultAfter(@, o)]
       /\ NotSetDevice
  /\ UNCHANGED opened

\* A direction that is off is left alone.
route_if_on(dir, d, i, h) ==
  IF i.state THEN set_route(dir, d, i, h) ELSE {Outcome(i, h, TRUE, FALSE)}

\* (mutant) The modem's result is not looked at.
SetOutDevice_ignores_modem(d) ==
  /\ opened
  /\ \E o \in route_if_on("output", d, io["output"], hw) :
     \E m \in route_if_on("modem", d, io["modem"], o.hw) :
       /\ io' = [io EXCEPT !["output"] = o.io, !["modem"] = m.io]
       /\ hw' = m.hw
       /\ fault' = [fault EXCEPT !["output"] = FaultAfter(@, o),
                                 !["modem"] = FaultAfter(@, m)]
       /\ ret' = [dev |-> d, ok |-> o.ok]
  /\ UNCHANGED opened

\* tinyalsa_mixer_set_device of an output device: the output, then, unless
\* that failed, the modem.
SetOutDevice(d) ==
  /\ opened
  /\ \E o \in route_if_on("output", d, io["output"], hw) :
     \E m \in IF o.ok THEN route_if_on("modem", d, io["modem"], o.hw)
              ELSE {Outcome(io["modem"], o.hw, FALSE, FALSE)} :
       /\ io' = [io EXCEPT !["output"] = o.io, !["modem"] = m.io]
       /\ hw' = m.hw
       /\ fault' = [fault EXCEPT !["output"] = FaultAfter(@, o),
                                 !["modem"] = FaultAfter(@, m)]
       /\ ret' = [dev |-> d, ok |-> m.ok]
  /\ UNCHANGED opened

\* tinyalsa_mixer_set_device of an input device.
SetInDevice(d) ==
  /\ opened
  /\ \E o \in route_if_on("input", d, io["input"], hw) :
       /\ io' = [io EXCEPT !["input"] = o.io]
       /\ hw' = o.hw
       /\ fault' = [fault EXCEPT !["input"] = FaultAfter(@, o)]
       /\ ret' = [dev |-> d, ok |-> o.ok]
  /\ UNCHANGED opened

\* tinyalsa_mixer_get_data_with_attr: the first entry that carries attr.
WithAttr(list, attr) == {i \in DOMAIN list : list[i].attr = attr}
FirstOf(S) == CHOOSE i \in S : \A j \in S : i <= j
get_data_with_attr(list, attr) == list[FirstOf(WithAttr(list, attr))]

\* One control write that the call may or may not get through, when the
\* direction is on, the device is known and the entry is there.
WriteAttr(dir, d, list, attr, writable, value) ==
  LET e == get_data_with_attr(list, attr)
      found == io[dir].state /\ WithAttr(list, attr) # {} /\ e.kind = "ctrl" /\ writable
  IN  /\ opened
      /\ \E ok \in BOOLEAN : \E reached \in BOOLEAN :
           /\ ok => found
           /\ reached => found
           /\ ok => reached
           /\ hw' = IF reached THEN [hw EXCEPT ![e.ctl] = value] ELSE hw
           /\ NotSetDevice
      /\ UNCHANGED <<opened, io, fault>>

ListOf(lists, dir, d) == IF d \in Configured(dir) THEN lists[dir][d] ELSE <<>>

\* tinyalsa_mixer_set_device_volume_with_attr: the value is scaled into the
\* entry's range; a value that is not a range is refused.
SetVolume(dir, d, attr, n) ==
  LET list == ListOf(Enable, dir, d)
      e == get_data_with_attr(list, attr)
      value == ((e.max - e.val) * n) \div VolumeSteps + e.val
  IN  WriteAttr(dir, d, list, attr, e.max > e.val, value)

\* tinyalsa_mixer_set_device_state_with_attr: the enable or the disable entry.
SetSwitch(dir, d, attr, on) ==
  LET list == ListOf(IF on THEN Enable ELSE Disable, dir, d)
  IN  WriteAttr(dir, d, list, attr, TRUE, get_data_with_attr(list, attr).val)

SetOutputVolume(d, n) == SetVolume("output", d, "output-volume", n)
SetMasterVolume(n) == SetVolume("output", OutDefault, "master-volume", n)
SetInputGain(d, n) == SetVolume("input", d, "input-gain", n)
SetVoiceVolume(d, n) == SetVolume("modem", d, "voice-volume", n)

\* tinyalsa_mixer_set_mic_mute: the direction follows from the kind of device.
SetMicMute(d, mute) ==
  SetSwitch(IF d \in InDevices THEN "input" ELSE "modem", d, "mic-mute", mute)

\* The mixer is freed even if a direction could not be switched off.
FaultAtClose(f, o) == IF ~o.ok THEN "last" ELSE FaultAfter(f, o)

\* tinyalsa_mixer_close: the three directions are switched off, whatever each
\* returns, and the mixer is freed.
Close ==
  /\ opened
  /\ \E o \in set_state("output", FALSE, io["output"], hw) :
     \E i \in set_state("input", FALSE, io["input"], o.hw) :
     \E m \in set_state("modem", FALSE, io["modem"], i.hw) :
       /\ hw' = m.hw
       /\ fault' = [output |-> FaultAtClose(fault["output"], o),
                    input |-> FaultAtClose(fault["input"], i),
                    modem |-> FaultAtClose(fault["modem"], m)]
  /\ opened' = FALSE
  /\ io' = FreshIo
  /\ NotSetDevice

Init ==
  /\ opened = FALSE
  /\ io = FreshIo
  /\ hw = PowerOn
  /\ ret = NoReturn
  /\ fault = [dir \in Direction |-> "none"]

Next ==
  \/ Open
  \/ Close
  \/ \E dir \in Direction, on \in BOOLEAN : SetState(dir, on)
  \/ \E d \in OutDevices : SetOutDevice(d)
  \/ \E d \in InDevices : SetInDevice(d)
  \/ \E n \in 0..VolumeSteps : SetMasterVolume(n)
  \/ \E d \in OutDevices, n \in 0..VolumeSteps : SetOutputVolume(d, n)
  \/ \E d \in InDevices, n \in 0..VolumeSteps : SetInputGain(d, n)
  \/ \E d \in OutDevices, n \in 0..VolumeSteps : SetVoiceVolume(d, n)
  \/ \E d \in Device, mute \in BOOLEAN : SetMicMute(d, mute)

Spec == Init /\ [][Next]_vars

-----------------------------------------------------------------------------
(* Properties.                                                             *)

EntriesOf(dir) ==
  UNION {{lists[dir][d][i] : i \in DOMAIN lists[dir][d]} :
           d \in Configured(dir), lists \in {Enable, Disable}}
CtlsOf(dir) == {e.ctl : e \in EntriesOf(dir)}
AttrCtls == {e.ctl : e \in {f \in UNION {EntriesOf(dir) : dir \in Direction} :
                               f.attr # NoAttr}}

\* Controls that only the routes of one direction write: no other direction
\* names them, and no volume, gain or mute entry does.
Fixed(dir) ==
  {c \in CtlsOf(dir) \ AttrCtls :
     \A other \in Direction \ {dir} : c \notin CtlsOf(other)}

\* The controls hold what list writes, as far as they are the direction's own.
InForce(dir, list) ==
  \A c \in Fixed(dir) :
    LET w == WritesTo(list, Len(list), c)
    IN  w # {} => hw[c] = list[LastOf(w)].val

\* device_current tells the truth about the card: unless the last call that
\* wrote controls of the direction failed, the enable list of the current
\* device is in force on the controls that belong to the direction, whatever
\* routes, states, volumes and mutes were set in the other directions.
RouteInForce ==
  \A dir \in Direction :
    fault[dir] # "last" /\ io[dir].current # NoDevice =>
      InForce(dir, Enable[dir][io[dir].current])

\* The config's disable lists undo its enable lists.
Tidy ==
  \A dir \in Direction : \A d \in Configured(dir) : \A c \in Fixed(dir) :
    LET on == Enable[dir][d]
        off == Disable[dir][d]
        w == WritesTo(off, Len(off), c)
    IN  /\ WritesTo(on, Len(on), c) # {} => w # {}
        /\ w # {} => off[LastOf(w)].val = PowerOn[c]

\* Whatever devices it went through while it was on, a direction that is off
\* has left every control of its own as it found it, as long as no control
\* write ever failed: set_route disables the device it leaves, set_state the
\* device and the default (mixer.c:770, 1036, 1056), and tinyalsa_mixer_close
\* all three directions.  Failures or not, it has forgotten its route: the
\* next set_device cannot take the early exit of set_route (766).
OffIsSilent ==
  \A dir \in Direction : ~io[dir].state =>
    /\ io[dir].current = NoDevice
    /\ fault[dir] = "none" => \A c \in Fixed(dir) : hw[c] = PowerOn[c]

Routes(d, dir) == IF d \in OutDevices THEN dir # "input" ELSE dir = "input"

\* A set_device that returns 0 has put every direction of the device's kind
\* that is on to that device: an output route never reports success with the
\* modem left behind on another device.
SuccessMovesAll ==
  ret.dev # NoDevice /\ ret.ok =>
    \A dir \in Direction :
      Routes(ret.dev, dir) /\ io[dir].state => io[dir].current = ret.dev

\* mixer.c:765 "No need to disable and enable the same route": a set_device
\* that returns 0 leaves the controls of that device in force.
SameRouteIsInForce ==
  ret.dev # NoDevice /\ ret.ok =>
    \A dir \in Direction :
      Routes(ret.dev, dir) /\ io[dir].state => InForce(dir, Enable[dir][ret.dev])
=============================================================================
