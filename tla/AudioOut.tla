------------------------------ MODULE AudioOut ------------------------------
(***************************************************************************)
(* The playback stream, libaudio/tinyalsa_audio/audio_out.c, and the part  *)
(* of audio_hw.c that routes it.                                           *)
(*                                                                         *)
(* Two mutexes: device->lock and stream_out->lock, zeroed by calloc and    *)
(* therefore bionic's normal kind, whose unlock does not look at who holds *)
(* the lock.  Routing takes device->lock and inside it the stream's lock;  *)
(* write, standby and the setters take the stream's lock only; opening and *)
(* closing publish and free the stream without any lock.                   *)
(*                                                                         *)
(* The player owns the stream: it opens it and closes it.  The control     *)
(* thread uses the stream's handle only while the stream is open, but may  *)
(* reach it through device->stream_out, to route it, at any time.          *)
(***************************************************************************)
EXTENDS Naturals

CONSTANTS
  OutDevices,   \* devices for which audio_is_output_device holds
  Zero,         \* the device 0: no routing
  Rates,        \* sample rates the stream may be set to
  Native,       \* mixer_props->rate
  NoResampler,  \* a NULL resampler
  NoOne,        \* the owner of a free lock
  MaxPcm        \* bound: pcm handles open at once

Caller == {"player", "control"}
Format == {"native", "foreign"}   \* mixer_props->format, or another one

ASSUME ParameterAssumption ==
  /\ Zero \notin OutDevices
  /\ Native \in Rates
  /\ NoResampler \notin Rates
  /\ NoOne \notin Caller
  /\ MaxPcm \in Nat

VARIABLES
  life,         \* the stream object: closed, opening, open, or freed
  device,       \* stream_out->device_current
  rate,         \* stream_out->rate
  format,       \* stream_out->format
  resampler,    \* the rate stream_out->resampler converts from
  pcm,          \* stream_out->pcm is not NULL
  standby,      \* stream_out->standby
  pcms,         \* pcm handles of the process that are open
  mixer,        \* output_state of the mixer, and the device it was last told
                \* since it was switched on: whether its controls took the
                \* device, which nobody here asks, is a matter of Mixer
  codec,        \* output_state of the codec and the device it was set to
  slock,        \* owner of stream_out->lock
  dlock,        \* owner of device->lock
  pc, op, arg,  \* where each caller is, in which call, with which argument
  robbed,       \* history: an unlock released a lock that another caller held
  uaf,          \* history: a call through device->stream_out met a freed stream
  cut,          \* history: a stream with an open pcm was put in standby by a
                \* setter, or closed
  abrupt,       \* history: since the codec was last stopped, standby was set,
                \* or the start given up, without stopping it
  failed        \* history: the last open_output_stream failed, or the mixer's
                \* output could not be switched off in the last close

stream == <<device, rate, format, resampler, pcm, standby, pcms>>
routes == <<mixer, codec>>
locks == <<slock, dlock>>
history == <<robbed, uaf, cut, abrupt, failed>>
vars == <<life, stream, routes, locks, pc, op, arg, history>>

SomeDevice == OutDevices \cup {Zero}
HandleOps == {"write", "standby", "rate", "format", "stream_route"}
Ops == HandleOps \cup {"none", "device_route", "open", "close"}
Places == {"idle", "dlock", "check", "state", "slock", "body", "process",
           "zero_slock", "zero_body", "zero_unlock", "pcm", "unlock", "dunlock"}
Side == [on : BOOLEAN, device : SomeDevice]

TypeOK ==
  /\ life \in {"closed", "opening", "open", "freed"}
  /\ device \in SomeDevice
  /\ rate \in Rates
  /\ format \in Format
  /\ resampler \in Rates \cup {NoResampler}
  /\ pcm \in BOOLEAN
  /\ standby \in BOOLEAN
  /\ pcms \in 0..MaxPcm
  /\ mixer \in Side
  /\ codec \in Side
  /\ slock \in Caller \cup {NoOne}
  /\ dlock \in Caller \cup {NoOne}
  /\ pc \in [Caller -> Places]
  /\ op \in [Caller -> Ops]
  /\ arg \in [Caller -> SomeDevice \cup Rates \cup Format]
  /\ robbed \in BOOLEAN /\ uaf \in BOOLEAN /\ cut \in BOOLEAN
  /\ abrupt \in BOOLEAN /\ failed \in BOOLEAN

-----------------------------------------------------------------------------
(* Calls and locks.                                                        *)

\* A caller that returns forgets its call.
GoTo(t, place) ==
  /\ pc' = [pc EXCEPT ![t] = place]
  /\ op' = IF place = "idle" THEN [op EXCEPT ![t] = "none"] ELSE op
  /\ arg' = IF place = "idle" THEN [arg EXCEPT ![t] = Zero] ELSE arg

Call(t, o, a, place) ==
  /\ pc[t] = "idle"
  /\ pc' = [pc EXCEPT ![t] = place]
  /\ op' = [op EXCEPT ![t] = o]
  /\ arg' = [arg EXCEPT ![t] = a]

\* A caller in a call made through the handle; the stream is not closed then.
UsesHandle(t) == op[t] \in HandleOps

\* A caller that has found the stream in device->stream_out and is using it.
InStream(t) ==
  op[t] = "device_route"
    /\ pc[t] \in {"slock", "body", "unlock", "zero_slock", "zero_body", "zero_unlock"}

LockStream(t, from, to) ==
  /\ pc[t] = from
  /\ slock = NoOne
  /\ slock' = t
  /\ GoTo(t, to)
  /\ UNCHANGED <<life, stream, routes, dlock, history>>

\* pthread_mutex_unlock: the lock is free, whoever held it.
ReleaseStream(t) ==
  /\ slock' = NoOne
  /\ robbed' = (robbed \/ slock \notin {t, NoOne})

UnlockStream(t, from, to) ==
  /\ pc[t] = from
  /\ ReleaseStream(t)
  /\ GoTo(t, to)
  /\ UNCHANGED <<life, stream, routes, dlock, uaf, cut, abrupt, failed>>

LockDevice(t) ==
  /\ pc[t] = "dlock"
  /\ dlock = NoOne
  /\ dlock' = t
  /\ GoTo(t, IF op[t] \in {"open", "close"} THEN "state" ELSE "check")
  /\ UNCHANGED <<life, stream, routes, slock, history>>

\* audio_hw_open_output_stream goes on under the stream's lock; the others
\* return.
UnlockDevice(t) ==
  /\ pc[t] = "dunlock"
  /\ dlock' = NoOne
  /\ GoTo(t, IF op[t] = "open" /\ life = "opening" THEN "pcm" ELSE "idle")
  /\ UNCHANGED <<life, stream, routes, slock, history>>

AfterUnlock(t) == IF op[t] \in {"stream_route", "device_route"} THEN "dunlock" ELSE "idle"

Lock(t) ==
  \/ LockStream(t, "slock", "body")
  \/ LockStream(t, "zero_slock", "zero_body")
  \/ LockDevice(t)

Unlock(t) ==
  \/ UnlockStream(t, "zero_unlock",
                  IF op[t] = "open" THEN "dunlock" ELSE "unlock")
  \/ op[t] # "open" /\ UnlockStream(t, "unlock", AfterUnlock(t))
  \/ UnlockDevice(t)

-----------------------------------------------------------------------------
(* audio_out_write.                                                        *)

Write(t) ==
  /\ life = "open"
  /\ Call(t, "write", Zero, "slock")
  /\ UNCHANGED <<life, stream, routes, locks, history>>

\* audio_out_pcm_open succeeds; a pcm that was there is overwritten.
PcmOpen ==
  /\ pcms < MaxPcm
  /\ pcms' = pcms + 1
  /\ pcm' = TRUE

\* Out of standby: the codec is started, whatever that returns, and then the
\* pcm device opened.
WriteBody(t) ==
  /\ pc[t] = "body" /\ op[t] = "write"
  /\ IF ~standby
     THEN /\ GoTo(t, "process")
          /\ UNCHANGED <<pcm, pcms, standby, codec, abrupt>>
     ELSE /\ codec' = [codec EXCEPT !.on = TRUE]
          /\ \/ /\ PcmOpen
                /\ standby' = FALSE
                /\ abrupt' = FALSE
                /\ GoTo(t, "process")
             \/ /\ abrupt' = TRUE
                /\ GoTo(t, "unlock")
                /\ UNCHANGED <<pcm, pcms, standby>>
  /\ UNCHANGED <<life, device, rate, format, resampler, mixer, locks,
                 robbed, uaf, cut, failed>>

\* (mutant) A write that fails is tried again from the beginning.
WriteProcess_retries(t) ==
  /\ pc[t] = "process"
  /\ \/ GoTo(t, "unlock") /\ UNCHANGED <<slock, robbed>>
     \/ GoTo(t, "slock") /\ ReleaseStream(t)
  /\ UNCHANGED <<life, stream, routes, dlock, uaf, cut, abrupt, failed>>

\* audio_out_write_process converts the buffer and blocks in pcm_write.
WriteProcess(t) ==
  /\ pc[t] = "process"
  /\ GoTo(t, "unlock")
  /\ UNCHANGED <<life, stream, routes, locks, history>>

-----------------------------------------------------------------------------
(* audio_out_standby, called alone or by audio_out_set_route.              *)

\* (mutant) The stream's lock is not taken.
Standby_unlocked(t) ==
  /\ life = "open"
  /\ Call(t, "standby", Zero, "body")
  /\ UNCHANGED <<life, stream, routes, locks, history>>

Standby(t) ==
  /\ life = "open"
  /\ Call(t, "standby", Zero, "slock")
  /\ UNCHANGED <<life, stream, routes, locks, history>>

\* (mutant) The pcm is closed without looking whether there is one.
standby_effect_close_twice ==
  /\ pcms' = pcms - 1
  /\ pcm' = FALSE
  /\ codec' = IF standby THEN codec ELSE [codec EXCEPT !.on = FALSE]
  /\ standby' = TRUE

\* (mutant) The pcm is dropped, not closed.
standby_effect_no_close ==
  /\ pcm' = FALSE
  /\ codec' = IF standby THEN codec ELSE [codec EXCEPT !.on = FALSE]
  /\ standby' = TRUE
  /\ UNCHANGED pcms

standby_effect ==
  /\ pcms' = IF pcm THEN pcms - 1 ELSE pcms
  /\ pcm' = FALSE
  /\ codec' = IF standby THEN codec ELSE [codec EXCEPT !.on = FALSE]
  /\ standby' = TRUE

StandbyBody(t) ==
  /\ \/ pc[t] = "body" /\ op[t] = "standby" /\ GoTo(t, "unlock")
     \/ pc[t] = "zero_body" /\ GoTo(t, "zero_unlock")
  /\ standby_effect
  /\ UNCHANGED <<life, device, rate, format, resampler, mixer, locks, history>>

-----------------------------------------------------------------------------
(* audio_out_set_sample_rate and audio_out_set_format: compared before the *)
(* lock is taken.  standby is set, and nothing else is stopped.            *)

SetSampleRate(t, r) ==
  /\ life = "open"
  /\ r # rate
  /\ Call(t, "rate", r, "slock")
  /\ UNCHANGED <<life, stream, routes, locks, history>>

force_standby ==
  /\ standby' = TRUE
  /\ cut' = (cut \/ pcm)
  /\ abrupt' = (abrupt \/ ~standby)

\* The resampler is replaced, or lost if it cannot be created, unless the new
\* rate needs none.
resampler_for(r) == IF r = Native THEN {resampler} ELSE {r, NoResampler}

RateBody(t) ==
  /\ pc[t] = "body" /\ op[t] = "rate"
  /\ rate' = arg[t]
  /\ resampler' \in resampler_for(arg[t])
  /\ IF arg[t] # Native THEN force_standby ELSE UNCHANGED <<standby, cut, abrupt>>
  /\ GoTo(t, "unlock")
  /\ UNCHANGED <<life, device, format, pcm, pcms, routes, locks,
                 robbed, uaf, failed>>

SetFormat(t, f) ==
  /\ life = "open"
  /\ f # format
  /\ Call(t, "format", f, "slock")
  /\ UNCHANGED <<life, stream, routes, locks, history>>

FormatBody(t) ==
  /\ pc[t] = "body" /\ op[t] = "format"
  /\ format' = arg[t]
  /\ IF arg[t] # "native" THEN force_standby ELSE UNCHANGED <<standby, cut, abrupt>>
  /\ GoTo(t, "unlock")
  /\ UNCHANGED <<life, device, rate, resampler, pcm, pcms, routes, locks, robbed, uaf, failed>>

-----------------------------------------------------------------------------
(* Routing: audio_out_set_parameters through the handle, and               *)
(* audio_hw_set_parameters through device->stream_out.                     *)

StreamSetParameters(t, d) ==
  /\ life = "open"
  /\ Call(t, "stream_route", d, "dlock")
  /\ UNCHANGED <<life, stream, routes, locks, history>>

DeviceSetParameters(d) ==
  /\ Call("control", "device_route", d, "dlock")
  /\ UNCHANGED <<life, stream, routes, locks, history>>

\* Under device->lock: is there a stream, and is its device another one?
RouteCheck(t) ==
  /\ pc[t] = "check"
  /\ uaf' = (uaf \/ life = "freed")
  /\ GoTo(t, IF life \in {"opening", "open"} /\ device # arg[t] THEN "slock" ELSE "dunlock")
  /\ UNCHANGED <<life, stream, routes, locks, robbed, cut, abrupt, failed>>

\* (mutant) The codec is only told when the mixer's output is on.
set_route_codec_if_on(d) ==
  /\ mixer' = IF mixer.on THEN [mixer EXCEPT !.device = d] ELSE mixer
  /\ codec' = IF codec.on THEN [codec EXCEPT !.device = d] ELSE codec

\* tinyalsa_mixer_set_device, which leaves an output that is off alone, and
\* yamaha_mc1n2_audio_set_route.
set_route(d) ==
  /\ mixer' = IF mixer.on THEN [mixer EXCEPT !.device = d] ELSE mixer
  /\ codec' = [codec EXCEPT !.device = d]

\* audio_out_set_route: the device 0 gives the lock up and calls standby,
\* which takes it again; the caller then unlocks once more.
RouteBody(t) ==
  /\ pc[t] = "body" /\ op[t] \in {"stream_route", "device_route", "open"}
  /\ device' = arg[t]
  /\ IF arg[t] = Zero
     THEN /\ ReleaseStream(t)
          /\ GoTo(t, "zero_slock")
          /\ UNCHANGED routes
     ELSE /\ set_route(arg[t])
          /\ GoTo(t, IF op[t] = "open" THEN "dunlock" ELSE "unlock")
          /\ UNCHANGED <<slock, robbed>>
  /\ UNCHANGED <<life, rate, format, resampler, pcm, standby, pcms, dlock, uaf, cut, abrupt, failed>>

-----------------------------------------------------------------------------
(* audio_hw_open_output_stream.                                            *)

\* The object is zeroed, and device->stream_out points to it at once.
Open(d, r) ==
  /\ life = "closed"
  /\ Call("player", "open", d, "dlock")
  /\ life' = "opening"
  /\ device' = Zero
  /\ rate' = r
  /\ format' \in Format
  /\ resampler' = IF r = Native THEN NoResampler ELSE r
  /\ pcm' = FALSE
  /\ standby' = FALSE
  /\ slock' = NoOne
  /\ UNCHANGED <<pcms, routes, dlock, history>>

\* error_stream: the object is freed and device->stream_out reset, unlocked.
\* The two are one step: a route that looks at the pointer between them, and so
\* meets a freed stream like one that is in the stream already, is left out.
OpenError ==
  /\ life' = "closed"
  /\ failed' = TRUE
  /\ uaf' = (uaf \/ InStream("control"))

\* The resampler cannot be created.
OpenResamplerFails(t) ==
  /\ pc[t] = "dlock" /\ op[t] = "open"
  /\ rate # Native
  /\ OpenError
  /\ GoTo(t, "idle")
  /\ UNCHANGED <<stream, routes, locks, robbed, cut, abrupt>>

\* (mutant) The mixer's output is left as the last stream had it.
OpenState_no_state(t) ==
  /\ pc[t] = "state" /\ op[t] = "open"
  /\ GoTo(t, "slock")
  /\ UNCHANGED <<life, stream, routes, locks, history>>

\* tinyalsa_mixer_set_output_state(1), under device->lock.  It has nothing to do,
\* and cannot fail, if a close could not switch the output off.
OpenState(t) ==
  /\ pc[t] = "state" /\ op[t] = "open"
  /\ \/ /\ mixer' = IF mixer.on THEN mixer ELSE [on |-> TRUE, device |-> Zero]
        /\ GoTo(t, "slock")
        /\ UNCHANGED <<life, dlock, uaf, failed>>
     \/ /\ ~mixer.on
        /\ dlock' = NoOne
        /\ OpenError
        /\ GoTo(t, "idle")
        /\ UNCHANGED mixer
  /\ UNCHANGED <<stream, codec, slock, robbed, cut, abrupt>>

\* The pcm device is tried, opened and closed, after device->lock is released.
OpenPcm(t) ==
  /\ pc[t] = "pcm"
  /\ \/ /\ life' = "open"
        /\ standby' = TRUE
        /\ failed' = FALSE
        /\ pcm' = FALSE
        /\ UNCHANGED uaf
     \/ /\ OpenError
        /\ UNCHANGED <<standby, pcm>>
  /\ ReleaseStream(t)
  /\ GoTo(t, "idle")
  /\ UNCHANGED <<device, rate, format, resampler, pcms, routes, dlock,
                 cut, abrupt>>

-----------------------------------------------------------------------------
(* audio_hw_close_output_stream.                                           *)

\* (mutant) The codec is left running.
CloseFree_no_stop ==
  /\ life = "open"
  /\ ~UsesHandle("control")
  /\ Call("player", "close", Zero, "dlock")
  /\ life' = "freed"
  /\ cut' = (cut \/ pcm)
  /\ uaf' = (uaf \/ InStream("control"))
  /\ UNCHANGED <<stream, routes, locks, robbed, abrupt, failed>>

\* Unlocked: the codec is stopped if it plays and the object is freed.  Its
\* pcm is not closed, and device->stream_out still points to it.
CloseFree ==
  /\ life = "open"
  /\ ~UsesHandle("control")
  /\ Call("player", "close", Zero, "dlock")
  /\ codec' = IF standby THEN codec ELSE [codec EXCEPT !.on = FALSE]
  /\ life' = "freed"
  /\ cut' = (cut \/ pcm)
  /\ uaf' = (uaf \/ InStream("control"))
  /\ UNCHANGED <<stream, mixer, locks, robbed, abrupt, failed>>

\* Under device->lock: tinyalsa_mixer_set_output_state(0), whose failure leaves
\* the output on and is ignored, and stream_out = NULL.
CloseState(t) ==
  /\ pc[t] = "state" /\ op[t] = "close"
  /\ \/ mixer' = [on |-> FALSE, device |-> Zero] /\ UNCHANGED failed
     \/ mixer.on /\ failed' = TRUE /\ UNCHANGED mixer
  /\ life' = "closed"
  /\ GoTo(t, "dunlock")
  /\ UNCHANGED <<stream, codec, locks, robbed, uaf, cut, abrupt>>

Init ==
  /\ life = "closed"
  /\ device = Zero
  /\ rate = Native
  /\ format = "native"
  /\ resampler = NoResampler
  /\ pcm = FALSE
  /\ standby = FALSE
  /\ pcms = 0
  /\ mixer = [on |-> FALSE, device |-> Zero]
  /\ codec = [on |-> FALSE, device |-> Zero]
  /\ slock = NoOne
  /\ dlock = NoOne
  /\ pc = [t \in Caller |-> "idle"]
  /\ op = [t \in Caller |-> "none"]
  /\ arg = [t \in Caller |-> Zero]
  /\ robbed = FALSE /\ uaf = FALSE /\ cut = FALSE /\ abrupt = FALSE
  /\ failed = FALSE

Sound == ~robbed /\ ~uaf

\* A step of a call that has begun.
Step(t) ==
  \/ Lock(t) \/ Unlock(t)
  \/ WriteBody(t) \/ WriteProcess(t)
  \/ StandbyBody(t)
  \/ RateBody(t) \/ FormatBody(t)
  \/ RouteCheck(t) \/ RouteBody(t)
  \/ OpenResamplerFails(t) \/ OpenState(t) \/ OpenPcm(t)
  \/ CloseState(t)

Begin(t) ==
  \/ Write(t) \/ Standby(t)
  \/ \E r \in Rates : SetSampleRate(t, r)
  \/ \E f \in Format : SetFormat(t, f)
  \/ \E d \in SomeDevice : StreamSetParameters(t, d)

\* Bound: once a lock was robbed or a freed stream met, the calls in progress
\* are followed to their end, and no other is begun on the stream.
Next ==
  \/ \E t \in Caller : Step(t)
  \/ \E t \in Caller : Sound /\ Begin(t)
  \/ \E d \in OutDevices : Sound /\ DeviceSetParameters(d)
  \/ \E d \in SomeDevice, r \in Rates : Open(d, r)
  \/ CloseFree

\* A thread in a call is scheduled, and one that waits for a mutex that is
\* released again and again gets it.
Fairness ==
  \A t \in Caller :
    /\ WF_vars(Step(t))
    /\ SF_vars(Lock(t))

Spec == Init /\ [][Next]_vars /\ Fairness

-----------------------------------------------------------------------------
(* Properties.                                                             *)

\* The stream's fields are changed by the holder of its lock.  The exceptions
\* are the caller that opened a stream on device 0, which goes on after giving
\* the lock up, and what happens once an unlock has robbed another caller.
Unguarded(t) == op[t] = "open" /\ arg[t] = Zero /\ pc[t] = "pcm"
InSection(t) == pc[t] \in {"body", "process", "zero_body", "pcm"}
LockHeldInSection ==
  Sound =>
    \A t \in Caller : InSection(t) /\ ~Unguarded(t) => slock = t

Quiet == slock = NoOne /\ dlock = NoOne /\ life \in {"open", "closed"}
           /\ \A t \in Caller : op[t] # "open"

\* Standby, the pcm and the codec tell one story whatever setters, routes and
\* standbys came between: a stream that is not in standby has an open pcm and
\* the codec's output on, and the output is on for nothing else, unless standby
\* was set behind the codec's back (audio_out.c:291, 359, or a pcm_open that
\* failed after the start at 528), which the next full start makes good.  A
\* rate that is not the hardware's has its own resampler, or could get none.
PlayingIsReady ==
  Sound /\ Quiet =>
    LET playing == life = "open" /\ ~standby
    IN  /\ playing =>
             pcm /\ codec.on /\ (rate # Native => resampler \in {rate, NoResampler})
        /\ codec.on => playing \/ abrupt

\* Pcm handles are closed: every open one belongs to the stream, unless a
\* setter (audio_out.c:291, 359) or a close has cut a playing stream off.
PcmsAreClosed ==
  Sound /\ Quiet /\ ~cut =>
    pcms = IF life = "open" /\ pcm THEN 1 ELSE 0

\* While there is a stream the mixer's output is on, also a stream opened after
\* a close or an open that failed.  When there is none the output is off, unless
\* the last open failed after it had switched it on (audio_out.c:728, 743), or
\* the last close could not switch it off and did not look (audio_out.c:613).
MixerFollowsStream ==
  Sound /\ Quiet =>
    /\ life = "open" => mixer.on
    /\ life = "closed" /\ ~failed => ~mixer.on

\* The mixer and the codec were told the device the stream believes it is on.
RouteIsTold ==
  Sound /\ Quiet /\ life = "open" /\ device # Zero =>
    mixer.device = device /\ codec.device = device

\* Every call returns: no caller waits for ever for a lock, be it in the route
\* to device 0, which takes the stream's lock a second time under device->lock
\* and releases it twice.
CallsReturn == \A t \in Caller : pc[t] # "idle" ~> pc[t] = "idle"
=============================================================================
