---------------------------- MODULE AudioDevice ----------------------------
(***************************************************************************)
(* The audio device, libaudio/tinyalsa_audio/audio_hw.c, with its RIL      *)
(* interface, audio_ril_interface.c: the mode, the voice volume, the route *)
(* of a call and the client of the modem that lives while a call does.     *)
(*                                                                         *)
(* Every setter compares the field it sets before it takes device->lock.   *)
(* Inside the lock a call tells the mixer and the codec, and then makes    *)
(* its requests of the RIL, one after the other; each takes the RIL's own  *)
(* lock and returns with it held when the RIL daemon cannot be reached     *)
(* (audio_ril_interface.c:100, 162, 227).                                  *)
(*                                                                         *)
(* Two binder threads set the mode of the device; the first also sets the  *)
(* voice volume and the route, the second the microphone's mute.  The      *)
(* player opens, closes and routes the playback stream, of which this      *)
(* module keeps the device only (module AudioOut has the rest).  Every     *)
(* call of the mixer may fail and leave the mixer as it was, which         *)
(* audio_hw.c never looks at; how it fails is in Mixer.  The codec's       *)
(* modem_state is set whether or not its driver obeys (module Mc1n2).      *)
(***************************************************************************)
EXTENDS Integers, FiniteSets, Sequences

CONSTANTS
  OutDevices,  \* devices for which audio_is_output_device holds
  Earpiece, Speaker, WiredHeadset, WiredHeadphone,  \* AUDIO_DEVICE_OUT_...
  Bluetooth,   \* the devices AUDIO_DEVICE_OUT_BLUETOOTH_...
  Zero,        \* the device 0: no routing
  Modes,       \* audio modes
  Normal,      \* the mode of a new device
  InCall,      \* AUDIO_MODE_IN_CALL
  Volumes,     \* voice volumes, 0 among them
  Asked,       \* bound: devices the player asks for
  NoStream,    \* a NULL device->stream_out
  Freed,       \* a device->stream_out that points to a freed stream
  NoOne,       \* the owner of a free lock
  MaxClients,  \* bound: RIL clients open at once
  MaxLost,     \* bound: RIL clients the device has forgotten
  MaxMissed    \* bound: parts that missed what was asked for, at once

ASSUME ParameterAssumption ==
  /\ Earpiece \in OutDevices \ (Bluetooth \cup {Speaker, WiredHeadset, WiredHeadphone})
  /\ Zero \notin OutDevices
  /\ NoStream \notin OutDevices \cup {Zero}
  /\ Freed \notin OutDevices \cup {Zero, NoStream}
  /\ {Normal, InCall} \subseteq Modes /\ Normal # InCall
  /\ 0 \in Volumes /\ Volumes \subseteq Nat
  /\ Asked \subseteq OutDevices \cup {Zero}
  /\ MaxClients \in Nat /\ MaxLost \in Nat /\ MaxMissed \in Nat
  /\ NoOne \notin {"binder1", "binder2", "player"}

Binder == {"binder1", "binder2"}
Caller == Binder \cup {"player"}
SomeDevice == OutDevices \cup {Zero}
Unset == -1         \* a volume, or a mute, that was not told in this call
Mutes == {0, 1}

AudioPath == {"HANDSET", "SPEAKER", "HEADSET", "HEADPHONE", "BLUETOOTH_NO_NR"}
SoundType == {"VOICE", "SPEAKER", "HEADSET", "BTVOICE"}

\* The path audio_ril_interface_set_route asks for.  The case of the SCO devices
\* does not break and ends in that of the A2DP devices.
PathOf(d) ==
  CASE d = Speaker -> "SPEAKER"
    [] d = WiredHeadset -> "HEADSET"
    [] d = WiredHeadphone -> "HEADPHONE"
    [] d \in Bluetooth -> "BLUETOOTH_NO_NR"
    [] OTHER -> "HANDSET"

\* The sound type audio_ril_interface_set_voice_volume sets the volume of.
TypeOf(d) ==
  CASE d = Speaker -> "SPEAKER"
    [] d \in {WiredHeadset, WiredHeadphone} -> "HEADSET"
    [] d \in Bluetooth -> "BTVOICE"
    [] OTHER -> "VOICE"

\* What may differ from what was asked for last: the state and the device of the
\* mixer's modem side, the RIL's route, its volume, the sound type that has it,
\* and the mute.
Part == {"modem", "device", "route", "volume", "type", "mute"}
NoVolume == <<Unset, "VOICE">>

VARIABLES
  mode, voice_volume, mic_mute,  \* fields of the device
  stream_out,            \* the stream's device_current, NoStream or Freed
  ril,                   \* device->ril_interface is not NULL
  ril_device,            \* ril_interface->device_current
  ril_held,              \* ril_interface->lock was left held
  clients,               \* RIL clients of the process that are open
  mixer,                 \* the mixer's modem state and device
  codec,                 \* the codec's modem_state
  path, volume, twomic,  \* what the modem was last told in this call; volume
                         \*   is a pair: a volume and the sound type it is for
  muted,                 \* the last mute of this call that the mixer took
  dlock,                 \* owner of device->lock
  call,                  \* the call each caller is in
  todo,                  \* the requests the owner of the lock has to make yet
  asked,                 \* history: the device last asked for in this call, or
                         \* Zero when the call or the stream changed since
  missed,                \* history: the parts of which what was asked for last
                         \* was refused, or failed, or is asked for no more
  lost,                  \* history: RIL clients the device has forgotten
  raced,                 \* history: a set_mode found the mode set already
  unclosed,              \* history: a RIL client could not be closed
  uaf                    \* history: a call used the stream that a close freed

field == <<mode, voice_volume, mic_mute>>
rilstate == <<ril, ril_device, ril_held, clients>>
modem == <<path, volume, twomic, muted>>
told == <<mixer, codec, modem>>
proc == <<dlock, call, todo>>
history == <<asked, missed, lost, raced, unclosed, uaf>>
vars == <<field, stream_out, rilstate, told, proc, history>>

\* A call and a request are a name and an argument.
NoCall == <<"none", Zero>>
Calls ==
  ({"none", "close"} \X {Zero}) \cup ({"mode"} \X Modes) \cup ({"volume"} \X Volumes) \cup ({"mute"} \X Mutes)
    \cup ({"route", "open"} \X SomeDevice)
Requests ==
  ({"route"} \X SomeDevice) \cup ({"volume"} \X Volumes) \cup ({"twomic"} \X BOOLEAN)
    \cup ({"codec_stop", "ril_close"} \X {Zero})

TypeOK ==
  /\ mode \in Modes
  /\ voice_volume \in Volumes /\ mic_mute \in Mutes
  /\ stream_out \in SomeDevice \cup {NoStream, Freed}
  /\ ril \in BOOLEAN
  /\ ril_device \in SomeDevice
  /\ ril_held \in BOOLEAN
  /\ clients \in 0..MaxClients
  /\ mixer \in [on : BOOLEAN, device : SomeDevice]
  /\ codec \in BOOLEAN
  /\ path \in AudioPath \cup {Zero}
  /\ volume \in (Volumes \cup {Unset}) \X SoundType
  /\ twomic \in BOOLEAN
  /\ muted \in Mutes \cup {Unset}
  /\ dlock \in Caller \cup {NoOne}
  /\ call \in [Caller -> Calls]
  /\ todo \in Seq(Requests) /\ Len(todo) <= 3
  /\ asked \in SomeDevice
  /\ missed \subseteq Part /\ lost \in 0..MaxClients
  /\ raced \in BOOLEAN /\ unclosed \in BOOLEAN /\ uaf \in BOOLEAN

-----------------------------------------------------------------------------
(* A call: what it does before the lock, then the lock and all it does up   *)
(* to its requests, then the requests, then the return.                    *)

\* Bound: nothing begins once a freed stream was used, a RIL client could not be
\* closed, the RIL's lock was left held, more than MaxLost clients are forgotten or
\* more than MaxMissed parts missed what they were asked for; the calls under way
\* go on.
Begin(t, c) ==
  /\ ~uaf /\ ~unclosed /\ ~ril_held
  /\ lost <= MaxLost /\ Cardinality(missed) <= MaxMissed
  /\ call[t] = NoCall
  /\ call' = [call EXCEPT ![t] = c]

\* audio_hw_set_mode, _set_voice_volume and _set_mic_mute look at the field first.
SetMode(t, m) ==
  /\ m # mode
  /\ Begin(t, <<"mode", m>>)
  /\ UNCHANGED <<field, stream_out, rilstate, told, dlock, todo, history>>

SetVoiceVolume(t, v) ==
  /\ v # voice_volume
  /\ Begin(t, <<"volume", v>>)
  /\ UNCHANGED <<field, stream_out, rilstate, told, dlock, todo, history>>

SetMicMute(t, x) ==
  /\ x # mic_mute
  /\ Begin(t, <<"mute", x>>)
  /\ UNCHANGED <<field, stream_out, rilstate, told, dlock, todo, history>>

\* audio_hw_open_output_stream points device->stream_out to the zeroed object
\* before anything else, without the lock.
OpenStream(d) ==
  /\ stream_out = NoStream
  /\ Begin("player", <<"open", d>>)
  /\ stream_out' = Zero
  /\ asked' = Zero
  /\ UNCHANGED <<field, rilstate, told, dlock, todo, missed, lost, raced, unclosed, uaf>>

\* It fails: the object is freed and the pointer reset, without the lock.
OpenStreamFails ==
  /\ call["player"][1] = "open" /\ dlock # "player"
  /\ call' = [call EXCEPT !["player"] = NoCall]
  /\ stream_out' = NoStream
  /\ UNCHANGED <<field, rilstate, told, dlock, todo, history>>

\* audio_hw_close_output_stream frees the object before it takes the lock.
CloseStream ==
  /\ stream_out \in SomeDevice
  /\ Begin("player", <<"close", Zero>>)
  /\ stream_out' = Freed
  /\ UNCHANGED <<field, rilstate, told, dlock, todo, history>>

\* t takes the lock for the call it is in, and makes requests rs.
Locked(t, name, rs) ==
  /\ call[t][1] = name
  /\ dlock = NoOne
  /\ dlock' = t
  /\ todo' = rs
  /\ UNCHANGED call

\* The fields are set last.
Done(t) ==
  /\ dlock = t /\ call[t] # NoCall /\ todo = <<>>
  /\ mode' = IF call[t][1] = "mode" THEN call[t][2] ELSE mode
  /\ voice_volume' = IF call[t][1] = "volume" THEN call[t][2] ELSE voice_volume
  /\ mic_mute' = IF call[t][1] = "mute" THEN call[t][2] ELSE mic_mute
  /\ call' = [call EXCEPT ![t] = NoCall]
  /\ UNCHANGED <<stream_out, rilstate, told, todo, history>>

\* (mutant) A volume that nobody was told of returns with the lock.
Return_locked(t) ==
  Done(t) /\ dlock' = IF call[t][1] = "volume" /\ ~ril THEN t ELSE NoOne

Return(t) == Done(t) /\ dlock' = NoOne

\* What reading stream_out->device_current may give.
StreamDevice ==
  IF stream_out = Freed THEN SomeDevice
  ELSE IF stream_out = NoStream THEN {Earpiece} ELSE {stream_out}

\* tinyalsa_mixer_set_modem_state: what it may leave.
modem_state(on) ==
  IF mixer.on = on THEN {mixer} ELSE {mixer, [on |-> on, device |-> Zero]}

\* tinyalsa_mixer_set_device of an output device, as far as the modem goes, with
\* the mixer m and the parts known to have missed: nobody asks again, since the
\* stream has its device already.
mixer_device(m, known, d) ==
  LET asks == m.on /\ d # Zero
  IN /\ mixer' \in IF asks THEN {m, [m EXCEPT !.device = d]} ELSE {m}
     /\ missed' = IF asks /\ mixer'.device # d THEN known \cup {"device"}
                  ELSE known \ {"device"}

-----------------------------------------------------------------------------
(* audio_hw_set_mode.                                                      *)

\* audio_ril_interface_open publishes a new interface over the old pointer; a
\* route is only requested of a device that is not 0.
ril_open(t, d) ==
  /\ clients < MaxClients
  /\ clients' = clients + 1
  /\ ril' = TRUE
  /\ ril_device' = d
  /\ ril_held' = FALSE
  /\ Locked(t, "mode",
       (IF d # Zero THEN <<<<"route", d>>>> ELSE <<>>)
         \o (IF d = Earpiece THEN <<<<"twomic", TRUE>>>> ELSE <<>>)
         \o (IF voice_volume # 0 THEN <<<<"volume", voice_volume>>>> ELSE <<>>))

ril_open_fails(t) ==
  /\ ril' = FALSE
  /\ Locked(t, "mode", <<>>)
  /\ UNCHANGED <<ril_device, ril_held, clients>>

EnterCall(t) ==
  /\ call[t] = <<"mode", InCall>>
  /\ raced' = (raced \/ mode = InCall)
  /\ uaf' = (uaf \/ stream_out = Freed)
  /\ asked' = Zero
  /\ codec' = TRUE
  /\ lost' = IF ril THEN lost + 1 ELSE lost
  /\ path' = Zero /\ volume' = NoVolume /\ twomic' = FALSE /\ muted' = Unset
  /\ \E d \in StreamDevice, m \in modem_state(TRUE) :
       /\ mixer_device(m, IF m.on THEN {} ELSE {"modem"}, d)
       /\ ril_open(t, d) \/ ril_open_fails(t)
  /\ UNCHANGED <<field, stream_out, unclosed>>

\* Leaving a call, with requests rs, or changing between other modes.
Leave(t, rs) ==
  /\ call[t][1] = "mode" /\ call[t][2] # InCall
  /\ Locked(t, "mode", IF mode = InCall THEN rs ELSE <<>>)
  /\ IF mode = InCall
     THEN /\ mixer' \in modem_state(FALSE)
          /\ missed' = IF mixer'.on THEN (missed \cup {"modem"}) \ {"mute"}
                       ELSE missed \ {"modem", "device", "mute"}
          /\ muted' = Unset
     ELSE UNCHANGED <<mixer, missed, muted>>
  /\ asked' = Zero
  /\ UNCHANGED <<field, stream_out, rilstate, codec, path, volume, twomic, lost, raced,
                 unclosed, uaf>>

Stop == <<<<"codec_stop", Zero>>>>
TwoMicOff == <<<<"twomic", FALSE>>>>
Close == <<<<"ril_close", Zero>>>>

\* (mutant) The codec's modem is left on.
LeaveCall_no_stop(t) == Leave(t, IF ril THEN TwoMicOff \o Close ELSE <<>>)

\* (mutant) The interface is closed whether there is one or not.
LeaveCall_always_closes(t) == Leave(t, (IF ril THEN TwoMicOff ELSE <<>>) \o Stop \o Close)

LeaveCall(t) == Leave(t, IF ril THEN TwoMicOff \o Stop \o Close ELSE Stop)

-----------------------------------------------------------------------------
(* The other calls.                                                        *)

\* (mutant) The RIL is told of a changed volume only.
VoiceVolume_if_told(t) ==
  /\ Locked(t, "volume", IF mode = InCall /\ ril /\ volume # NoVolume
                         THEN <<call[t]>> ELSE <<>>)
  /\ UNCHANGED <<field, stream_out, rilstate, told, history>>

\* The mixer is told too; its volumes are in module Mixer.
VoiceVolume(t) ==
  /\ Locked(t, "volume", IF mode = InCall /\ ril THEN <<call[t]>> ELSE <<>>)
  /\ UNCHANGED <<field, stream_out, rilstate, told, history>>

\* The mixer is told of a mute in a call, for the device of the RIL or, without
\* one, of the stream; it refuses the device 0, and with the modem side off.  The
\* request of the RIL does nothing.  Outside a call the capture stream's device
\* is told (module Mixer).
MicMute(t) ==
  LET devices == IF ril THEN {ril_device} ELSE StreamDevice
  IN /\ Locked(t, "mute", <<>>)
     /\ uaf' = (uaf \/ (mode = InCall /\ ~ril /\ stream_out = Freed))
     /\ IF mode = InCall
        THEN \/ /\ mixer.on /\ \E d \in devices : d # Zero
                /\ muted' = call[t][2]
                /\ missed' = missed \ {"mute"}
             \/ missed' = missed \cup {"mute"} /\ UNCHANGED muted
        ELSE UNCHANGED <<muted, missed>>
     /\ UNCHANGED <<field, stream_out, rilstate, mixer, codec, path, volume, twomic,
                    asked, lost, raced, unclosed>>

\* Nothing a route does comes before the lock.
Routing(t, d, rs) ==
  /\ Begin(t, <<"route", d>>)
  /\ dlock = NoOne
  /\ dlock' = t
  /\ todo' = rs
  /\ asked' = IF mode = InCall THEN d ELSE Zero
  /\ uaf' = (stream_out = Freed)
  /\ IF stream_out \in SomeDevice \ {d}
     THEN stream_out' = d /\ mixer_device(mixer, missed, d)
     ELSE UNCHANGED <<stream_out, mixer, missed>>
  /\ UNCHANGED <<field, rilstate, codec, modem, lost, raced, unclosed>>

\* (mutant) The RIL is routed only if the stream was.
Route_ril_with_stream(t, d) ==
  Routing(t, d, IF ril /\ ril_device # d /\ stream_out # d THEN <<<<"route", d>>>> ELSE <<>>)

\* The stream is routed if there is one on another device, the RIL if there is
\* one on another device.
Route(t, d) ==
  Routing(t, d, IF ril /\ ril_device # d THEN <<<<"route", d>>>> ELSE <<>>)

\* audio_hw_set_parameters: this is what it does of output devices.
SetParameters(t, d) == d \in OutDevices /\ Route(t, d)

\* audio_out_set_parameters: of any device.
StreamSetParameters(d) == stream_out \in SomeDevice /\ Route("player", d)

\* audio_hw_open_output_stream routes the new stream; the RIL is not told.
RouteOpened(t) ==
  /\ Locked(t, "open", <<>>)
  /\ stream_out' = call[t][2]
  /\ mixer_device(mixer, missed, call[t][2])
  /\ asked' = Zero
  /\ UNCHANGED <<field, rilstate, codec, modem, lost, raced, unclosed, uaf>>

Forget(t) ==
  /\ Locked(t, "close", <<>>)
  /\ stream_out' = NoStream
  /\ UNCHANGED <<field, rilstate, told, history>>

-----------------------------------------------------------------------------
(* Requests.                                                               *)

\* t makes the first of its requests.
Request(t, name) ==
  /\ dlock = t /\ todo # <<>> /\ Head(todo)[1] = name
  /\ todo' = Tail(todo)
  /\ UNCHANGED <<dlock, call>>

\* audio_ril_interface_set_route, _set_twomic and _set_voice_volume: the daemon
\* does as it is asked, or fails.  The route is remembered either way, and the
\* volume of its sound type is not asked for with it.
RilRoute(t) ==
  LET d == Head(todo)[2]
      other == {x \in {"type"} : TypeOf(d) # TypeOf(ril_device)}
  IN /\ Request(t, "route") /\ ~ril_held
     /\ ril_device' = d
     /\ \/ path' = PathOf(d) /\ missed' = (missed \ {"route"}) \cup other
        \/ UNCHANGED path /\ missed' = missed \cup {"route"} \cup other
     /\ UNCHANGED <<field, stream_out, ril, ril_held, clients, mixer, codec, volume, twomic,
                    muted, asked, lost, raced, unclosed, uaf>>

\* The device that is passed with a volume is the interface's own.
RilVolume(t) ==
  /\ Request(t, "volume") /\ ~ril_held
  /\ \/ /\ volume' = <<Head(todo)[2], TypeOf(ril_device)>>
        /\ missed' = missed \ {"volume", "type"}
     \/ UNCHANGED volume /\ missed' = missed \cup {"volume"}
  /\ UNCHANGED <<field, stream_out, rilstate, mixer, codec, path, twomic, muted, asked,
                 lost, raced, unclosed, uaf>>

RilTwoMic(t) ==
  /\ Request(t, "twomic") /\ ~ril_held
  /\ twomic' \in {Head(todo)[2], twomic}
  /\ UNCHANGED <<field, stream_out, rilstate, mixer, codec, path, volume, muted, history>>

\* audio_ril_interface_connect_if_required fails: 0 is returned and the lock of
\* the interface stays held.
RilUnreachable(t, name) ==
  /\ Request(t, name) /\ ~ril_held
  /\ ril_held' = TRUE
  /\ missed' = missed \cup ({name} \cap Part)
  /\ UNCHANGED <<field, stream_out, ril, ril_device, clients, told, asked, lost, raced,
                 unclosed, uaf>>

CodecStop(t) ==
  /\ Request(t, "codec_stop")
  /\ codec' = FALSE
  /\ UNCHANGED <<field, stream_out, rilstate, mixer, modem, history>>

\* audio_ril_interface_close fails to disconnect or to close the client: the
\* interface stays.
RilCloseFails(t) ==
  /\ Request(t, "ril_close")
  /\ unclosed' = TRUE
  /\ UNCHANGED <<field, stream_out, rilstate, told, asked, missed, lost, raced, uaf>>

\* It succeeds; the client is gone, and keep says whether the pointer stays.
Closed(t, keep) ==
  /\ Request(t, "ril_close")
  /\ clients' = clients - 1
  /\ ril' = keep
  /\ ril_device' = Zero /\ ril_held' = FALSE
  /\ path' = Zero /\ volume' = NoVolume /\ twomic' = FALSE
  /\ missed' = missed \ {"route", "volume", "type"}
  /\ UNCHANGED <<field, stream_out, mixer, codec, muted, asked, lost, raced, unclosed, uaf>>

\* (mutant) The interface is freed but not forgotten.
RilClose_keeps_pointer(t) == Closed(t, TRUE)

RilClose(t) == Closed(t, FALSE)

Init ==
  /\ mode = Normal /\ voice_volume = 0 /\ mic_mute = 0
  /\ stream_out = NoStream
  /\ ril = FALSE /\ ril_device = Zero /\ ril_held = FALSE
  /\ clients = 0
  /\ mixer = [on |-> FALSE, device |-> Zero]
  /\ codec = FALSE
  /\ path = Zero /\ volume = NoVolume /\ twomic = FALSE /\ muted = Unset
  /\ dlock = NoOne
  /\ call = [t \in Caller |-> NoCall]
  /\ todo = <<>>
  /\ asked = Zero
  /\ missed = {} /\ lost = 0
  /\ raced = FALSE /\ unclosed = FALSE /\ uaf = FALSE

\* A step of a call that has begun.
Step(t) ==
  \/ Return(t)
  \/ EnterCall(t) \/ LeaveCall(t) \/ VoiceVolume(t) \/ MicMute(t)
  \/ RouteOpened(t) \/ Forget(t)
  \/ RilRoute(t) \/ RilVolume(t) \/ RilTwoMic(t)
  \/ \E name \in {"route", "twomic", "volume"} : RilUnreachable(t, name)
  \/ CodecStop(t) \/ RilClose(t) \/ RilCloseFails(t)

Next ==
  \/ \E t \in Caller : Step(t)
  \/ \E t \in Binder, m \in Modes : SetMode(t, m)
  \/ \E d \in OutDevices : SetParameters("binder1", d)
  \/ \E v \in Volumes : SetVoiceVolume("binder1", v)
  \/ \E x \in Mutes : SetMicMute("binder2", x)
  \/ \E d \in Asked : StreamSetParameters(d) \/ OpenStream(d)
  \/ OpenStreamFails \/ CloseStream

\* A thread in a call is scheduled.
Spec == Init /\ [][Next]_vars /\ \A t \in Caller : WF_vars(Step(t))

-----------------------------------------------------------------------------
(* Properties.                                                             *)

\* The modem side of the codec is on exactly during a call, and so is that of
\* the mixer unless the mixer failed to be switched the last time, whichever
\* threads set the mode, and whatever becomes of the RIL.  A failure is not
\* noticed (audio_hw.c:144, 175): the mixer then stays as it was until the mode
\* changes again, and is switched then whatever it missed.
ModemFollowsMode ==
  dlock = NoOne =>
    /\ codec <=> mode = InCall
    /\ "modem" \notin missed => (mixer.on <=> mode = InCall)

\* Every RIL client of the process that is open is the one the device knows or
\* one it has forgotten.  A client is only forgotten when two set_mode of a call
\* overlap, since audio_hw.c:140 compares before it takes the lock, or after
\* audio_ril_interface_close could not close it (audio_ril_interface.c:262); a
\* forgotten one stays open for ever.  The one the device knows is there in a
\* call only, unless it could not be closed.
OneClient ==
  dlock = NoOne =>
    /\ clients = lost + (IF ril THEN 1 ELSE 0)
    /\ ~raced /\ ~unclosed => lost = 0
    /\ ril /\ ~unclosed => mode = InCall

\* During a call the modem has the volume the device has, whether it was set
\* before the call or during it, unless the last request of a volume failed, and
\* whatever the other threads do meanwhile.  It has it for the sound type of its
\* device, unless the call was routed to a device of another type since, which
\* no volume is asked for (audio_hw.c:309, and an equal one is not passed on,
\* audio_hw.c:75).  A volume of 0 is not sent when the call begins
\* (audio_hw.c:171).  The mute the mixer took last in the call is the device's,
\* unless it refused or failed to do the last one, as it does for the device 0
\* (mixer.c:1183); a mute set before the call is not sent.
VolumeInForce ==
  dlock = NoOne /\ mode = InCall =>
    /\ ril /\ "volume" \notin missed =>
         \/ volume = NoVolume /\ voice_volume = 0
         \/ /\ volume[1] = voice_volume
            /\ "type" \notin missed => volume[2] = TypeOf(ril_device)
    /\ "mute" \notin missed => muted \in {Unset, mic_mute}

\* During a call, once a device has been asked for, and until the stream is
\* opened anew or the call ends, the stream is on it, the modem's path is the
\* device's unless the last request of a route failed, and so is the modem side of
\* the mixer if it is on and took the last device it was told, although each is
\* only told when it is on another device (audio_hw.c:304, 309).
RoutesAgree ==
  dlock = NoOne /\ mode = InCall /\ asked # Zero /\ ~uaf =>
    /\ ril /\ "route" \notin missed => path = PathOf(asked)
    /\ stream_out \in SomeDevice =>
         /\ stream_out = asked
         /\ mixer.on /\ "device" \notin missed => mixer.device = asked

\* device->lock is released, unless a request left the RIL's lock held: then
\* the next one waits for it for ever.
DeviceLockReleased == dlock # NoOne ~> dlock = NoOne \/ ril_held

\* audio_hw.c:167 "Only enable dualmic for earpiece.": between calls of the
\* device, dual mic is on only while the modem's route is the earpiece.
TwoMicOnlyForEarpiece ==
  dlock = NoOne /\ mode = InCall /\ ril /\ twomic => ril_device = Earpiece
=============================================================================
