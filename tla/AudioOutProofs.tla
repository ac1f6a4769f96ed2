--------------------------- MODULE AudioOutProofs ---------------------------
(***************************************************************************)
(* The safety properties of AudioOut for every set of devices and rates    *)
(* and every number of pcm handles.  The invariant says where in a call    *)
(* each lock is held, what the stream's life allows each caller to be      *)
(* doing, and what the stream, the mixer and the codec agree on even while *)
(* somebody holds a lock.                                                  *)
(***************************************************************************)
EXTENDS AudioOut, TLAPS

Routing == {"stream_route", "device_route"}
OnStream == {"slock", "body", "unlock", "zero_slock", "zero_body", "zero_unlock"}

\* Where each call may be, and what its argument is.
CallsAreInPlace == \A t \in Caller :
  /\ op[t] = "none" <=> pc[t] = "idle"
  /\ op[t] = "write" => pc[t] \in {"slock", "body", "process", "unlock"}
  /\ op[t] \in {"standby", "rate", "format"} => pc[t] \in {"slock", "body", "unlock"}
  /\ op[t] \in Routing => pc[t] \in {"dlock", "check", "dunlock"} \cup OnStream
  /\ op[t] = "open" =>
       pc[t] \in {"dlock", "state", "dunlock", "pcm"} \cup (OnStream \ {"unlock"})
  /\ op[t] = "close" => pc[t] \in {"dlock", "state", "dunlock"}
  /\ op[t] \in {"open", "close"} => t = "player"
  /\ op[t] = "device_route" => t = "control"
  /\ op[t] \in Routing \cup {"open"} => arg[t] \in SomeDevice
  /\ pc[t] \in {"zero_slock", "zero_body", "zero_unlock"} => arg[t] = Zero
  /\ op[t] = "rate" => arg[t] \in Rates
  /\ op[t] = "format" => arg[t] \in Format

\* device->lock is held from its acquisition to the end of a routing call, and
\* to the point where audio_hw_open_output_stream goes on to the pcm device.
HoldsDevice(t) ==
  \/ pc[t] \in {"check", "state", "dunlock"}
  \/ op[t] \in Routing \cup {"open"} /\ pc[t] \in OnStream

DeviceLockIsHeld == \A t \in Caller : dlock = t <=> HoldsDevice(t)

\* The stream's lock is held to the last unlock, except that a route to device
\* 0 has given it up already when it comes to that unlock.  After a double
\* unlock somebody who should hold it may not.
HoldsStream(t) ==
  \/ pc[t] \in {"body", "process", "zero_body", "zero_unlock"}
  \/ pc[t] = "unlock" /\ ~(op[t] \in Routing /\ arg[t] = Zero)
  \/ op[t] = "open" /\ pc[t] \in {"dunlock", "pcm"} /\ arg[t] # Zero

StreamLockIsHeld == \A t \in Caller :
  /\ slock = t => HoldsStream(t)
  /\ Sound /\ HoldsStream(t) => slock = t

\* What the stream's life allows: only the player opens and closes, the handle
\* is used while the stream is open, and a call through device->stream_out has
\* a stream as long as nothing unsound was seen.
LifeOfCalls ==
  /\ life = "opening" <=> op["player"] = "open"
  /\ life = "freed" <=> op["player"] = "close" /\ pc["player"] \in {"dlock", "state"}
  /\ \A t \in Caller : UsesHandle(t) => life = "open"
  /\ Sound /\ InStream("control") => life \in {"opening", "open"}

Playing == life = "open" /\ ~standby

\* The stream, its pcm and the codec, whoever holds a lock.
PlayingIsSetUp ==
  /\ Playing => pcm /\ codec.on
  /\ codec.on => Playing \/ abrupt
  /\ rate # Native => resampler \in {rate, NoResampler}

PcmsAreCounted ==
  /\ pcm => pcms >= 1
  /\ ~cut => /\ pcms = IF pcm THEN 1 ELSE 0
             /\ pcm => life = "open" /\ ~standby

\* audio_hw_open_output_stream has turned the mixer's output on, and has told
\* the route it was asked for.
MixerIsOn == life = "opening" /\ pc["player"] \notin {"dlock", "state"}
HasRoute == life = "opening" /\ pc["player"] \notin {"dlock", "state", "slock", "body"}

MixerIsSet ==
  /\ life \in {"open", "freed"} \/ MixerIsOn => mixer.on
  /\ life = "closed" /\ ~failed => ~mixer.on

RouteIsSet ==
  (life = "open" \/ HasRoute) /\ device # Zero =>
    mixer.device = device /\ codec.device = device

StreamInv ==
  /\ CallsAreInPlace /\ DeviceLockIsHeld /\ StreamLockIsHeld /\ LifeOfCalls
  /\ PlayingIsSetUp /\ PcmsAreCounted /\ MixerIsSet /\ RouteIsSet

-----------------------------------------------------------------------------
(* Each step keeps the invariant.  The typing of the Boolean variables is   *)
(* proved apart from that of the others.                                    *)

Flags ==
  /\ pcm \in BOOLEAN /\ standby \in BOOLEAN /\ mixer \in Side /\ codec \in Side
  /\ robbed \in BOOLEAN /\ uaf \in BOOLEAN /\ cut \in BOOLEAN
  /\ abrupt \in BOOLEAN /\ failed \in BOOLEAN

Values ==
  /\ life \in {"closed", "opening", "open", "freed"}
  /\ device \in SomeDevice
  /\ rate \in Rates
  /\ format \in Format
  /\ resampler \in Rates \cup {NoResampler}
  /\ pcms \in 0..MaxPcm
  /\ slock \in Caller \cup {NoOne}
  /\ dlock \in Caller \cup {NoOne}
  /\ pc \in [Caller -> Places]
  /\ op \in [Caller -> Ops]
  /\ arg \in [Caller -> SomeDevice \cup Rates \cup Format]
StreamIInv == TypeOK /\ StreamInv

USE ParameterAssumption
USE DEF stream, routes, locks, history, vars, Caller, Format, SomeDevice, HandleOps, Ops,
        Places, Side, GoTo, Call, UsesHandle, InStream, ReleaseStream, Sound,
        Routing, OnStream, CallsAreInPlace, MixerIsOn, HasRoute, Playing,
        TypeOK, StreamInv, StreamIInv

LEMMA LockStreamKeeps ==
  ASSUME StreamIInv, NEW t \in Caller, NEW from \in {"slock", "zero_slock"}, NEW to,
         to = (IF from = "slock" THEN "body" ELSE "zero_body"), LockStream(t, from,
         to)
  PROVE  StreamIInv'
<1>1. Flags'
  BY DEF LockStream, Flags
<1>2. Values'
  BY DEF LockStream, Values, PcmsAreCounted
<1>3. StreamInv'
  BY DEF LockStream, DeviceLockIsHeld, HoldsDevice, StreamLockIsHeld, HoldsStream,
         LifeOfCalls, PlayingIsSetUp, PcmsAreCounted, MixerIsSet, RouteIsSet
<1> QED BY <1>1, <1>2, <1>3 DEF Flags, Values

LEMMA LockDeviceKeeps ==
  ASSUME StreamIInv, NEW t \in Caller, LockDevice(t)
  PROVE  StreamIInv'
<1>1. Flags'
  BY DEF LockDevice, Flags
<1>2. Values'
  BY DEF LockDevice, Values, PcmsAreCounted
<1>3. StreamInv'
  BY DEF LockDevice, DeviceLockIsHeld, HoldsDevice, StreamLockIsHeld, HoldsStream,
         LifeOfCalls, PlayingIsSetUp, PcmsAreCounted, MixerIsSet, RouteIsSet
<1> QED BY <1>1, <1>2, <1>3 DEF Flags, Values

LEMMA UnlockZeroOfOpenKeeps ==
  ASSUME StreamIInv, NEW t \in Caller, op[t] = "open", UnlockStream(t, "zero_unlock",
         "dunlock")
  PROVE  StreamIInv'
<1>1. Flags'
  BY DEF UnlockStream, Flags
<1>2. Values'
  BY DEF UnlockStream, Values, PcmsAreCounted
<1>3. StreamInv'
  BY DEF UnlockStream, DeviceLockIsHeld, HoldsDevice, StreamLockIsHeld, HoldsStream,
         LifeOfCalls, PlayingIsSetUp, PcmsAreCounted, MixerIsSet, RouteIsSet
<1> QED BY <1>1, <1>2, <1>3 DEF Flags, Values

LEMMA UnlockZeroKeeps ==
  ASSUME StreamIInv, NEW t \in Caller, op[t] # "open", UnlockStream(t, "zero_unlock",
         "unlock")
  PROVE  StreamIInv'
<1>1. Flags'
  BY DEF UnlockStream, Flags
<1>2. Values'
  BY DEF UnlockStream, Values, PcmsAreCounted
<1>3. StreamInv'
  BY DEF UnlockStream, DeviceLockIsHeld, HoldsDevice, StreamLockIsHeld, HoldsStream,
         LifeOfCalls, PlayingIsSetUp, PcmsAreCounted, MixerIsSet, RouteIsSet
<1> QED BY <1>1, <1>2, <1>3 DEF Flags, Values

LEMMA UnlockStreamKeeps ==
  ASSUME StreamIInv, NEW t \in Caller, op[t] # "open", UnlockStream(t, "unlock",
         AfterUnlock(t))
  PROVE  StreamIInv'
<1>1. Flags'
  BY DEF UnlockStream, AfterUnlock, Flags
<1>2. Values'
  BY DEF UnlockStream, AfterUnlock, Values, PcmsAreCounted
<1>3. StreamInv'
  BY DEF UnlockStream, AfterUnlock, DeviceLockIsHeld, HoldsDevice, StreamLockIsHeld,
         HoldsStream, LifeOfCalls, PlayingIsSetUp, PcmsAreCounted, MixerIsSet,
         RouteIsSet
<1> QED BY <1>1, <1>2, <1>3 DEF Flags, Values

LEMMA UnlockDeviceKeeps ==
  ASSUME StreamIInv, NEW t \in Caller, UnlockDevice(t)
  PROVE  StreamIInv'
<1>1. Flags'
  BY DEF UnlockDevice, Flags
<1>2. Values'
  BY DEF UnlockDevice, Values, PcmsAreCounted
<1>3. StreamInv'
  BY DEF UnlockDevice, DeviceLockIsHeld, HoldsDevice, StreamLockIsHeld, HoldsStream,
         LifeOfCalls, PlayingIsSetUp, PcmsAreCounted, MixerIsSet, RouteIsSet
<1> QED BY <1>1, <1>2, <1>3 DEF Flags, Values

LEMMA WriteBodyKeeps ==
  ASSUME StreamIInv, NEW t \in Caller, WriteBody(t)
  PROVE  StreamIInv'
<1>1. Flags'
  BY DEF WriteBody, PcmOpen, Flags
<1>2. Values'
  BY DEF WriteBody, PcmOpen, Values, PcmsAreCounted
<1>3. StreamInv'
  BY DEF WriteBody, PcmOpen, DeviceLockIsHeld, HoldsDevice, StreamLockIsHeld,
         HoldsStream, LifeOfCalls, PlayingIsSetUp, PcmsAreCounted, MixerIsSet,
         RouteIsSet
<1> QED BY <1>1, <1>2, <1>3 DEF Flags, Values

LEMMA WriteProcessKeeps ==
  ASSUME StreamIInv, NEW t \in Caller, WriteProcess(t)
  PROVE  StreamIInv'
<1>1. Flags'
  BY DEF WriteProcess, Flags
<1>2. Values'
  BY DEF WriteProcess, Values, PcmsAreCounted
<1>3. StreamInv'
  BY DEF WriteProcess, DeviceLockIsHeld, HoldsDevice, StreamLockIsHeld, HoldsStream,
         LifeOfCalls, PlayingIsSetUp, PcmsAreCounted, MixerIsSet, RouteIsSet
<1> QED BY <1>1, <1>2, <1>3 DEF Flags, Values

LEMMA StandbyBodyKeeps ==
  ASSUME StreamIInv, NEW t \in Caller, StandbyBody(t)
  PROVE  StreamIInv'
<1>1. Flags'
  BY DEF StandbyBody, standby_effect, Flags
<1>2. Values'
  BY DEF StandbyBody, standby_effect, Values, PcmsAreCounted
<1>3. StreamInv'
  BY DEF StandbyBody, standby_effect, DeviceLockIsHeld, HoldsDevice, StreamLockIsHeld,
         HoldsStream, LifeOfCalls, PlayingIsSetUp, PcmsAreCounted, MixerIsSet,
         RouteIsSet
<1> QED BY <1>1, <1>2, <1>3 DEF Flags, Values

LEMMA RateBodyKeeps ==
  ASSUME StreamIInv, NEW t \in Caller, RateBody(t)
  PROVE  StreamIInv'
<1>1. Flags'
  BY DEF RateBody, resampler_for, force_standby, Flags
<1>2. Values'
  BY DEF RateBody, resampler_for, force_standby, Values, PcmsAreCounted
<1>3. StreamInv'
  BY DEF RateBody, resampler_for, force_standby, DeviceLockIsHeld, HoldsDevice,
         StreamLockIsHeld, HoldsStream, LifeOfCalls, PlayingIsSetUp, PcmsAreCounted,
         MixerIsSet, RouteIsSet
<1> QED BY <1>1, <1>2, <1>3 DEF Flags, Values

LEMMA FormatBodyKeeps ==
  ASSUME StreamIInv, NEW t \in Caller, FormatBody(t)
  PROVE  StreamIInv'
<1>1. Flags'
  BY DEF FormatBody, force_standby, Flags
<1>2. Values'
  BY DEF FormatBody, force_standby, Values, PcmsAreCounted
<1>3. StreamInv'
  BY DEF FormatBody, force_standby, DeviceLockIsHeld, HoldsDevice, StreamLockIsHeld,
         HoldsStream, LifeOfCalls, PlayingIsSetUp, PcmsAreCounted, MixerIsSet,
         RouteIsSet
<1> QED BY <1>1, <1>2, <1>3 DEF Flags, Values

LEMMA RouteCheckKeeps ==
  ASSUME StreamIInv, NEW t \in Caller, RouteCheck(t)
  PROVE  StreamIInv'
<1>1. Flags'
  BY DEF RouteCheck, Flags
<1>2. Values'
  BY DEF RouteCheck, Values, PcmsAreCounted
<1>3. StreamInv'
  BY DEF RouteCheck, DeviceLockIsHeld, HoldsDevice, StreamLockIsHeld, HoldsStream,
         LifeOfCalls, PlayingIsSetUp, PcmsAreCounted, MixerIsSet, RouteIsSet
<1> QED BY <1>1, <1>2, <1>3 DEF Flags, Values

LEMMA RouteBodyKeeps ==
  ASSUME StreamIInv, NEW t \in Caller, RouteBody(t)
  PROVE  StreamIInv'
<1>1. Flags'
  BY DEF RouteBody, set_route, Flags
<1>2. Values'
  BY DEF RouteBody, set_route, Values, PcmsAreCounted
<1>3. StreamInv'
  BY DEF RouteBody, set_route, DeviceLockIsHeld, HoldsDevice, StreamLockIsHeld,
         HoldsStream, LifeOfCalls, PlayingIsSetUp, PcmsAreCounted, MixerIsSet,
         RouteIsSet
<1> QED BY <1>1, <1>2, <1>3 DEF Flags, Values

LEMMA OpenResamplerFailsKeeps ==
  ASSUME StreamIInv, NEW t \in Caller, OpenResamplerFails(t)
  PROVE  StreamIInv'
<1>1. Flags'
  BY DEF OpenResamplerFails, OpenError, Flags
<1>2. Values'
  BY DEF OpenResamplerFails, OpenError, Values, PcmsAreCounted
<1>3. CallsAreInPlace' /\ DeviceLockIsHeld'
  BY DEF OpenResamplerFails, OpenError, DeviceLockIsHeld, HoldsDevice
<1>4. StreamLockIsHeld'
  BY DEF OpenResamplerFails, OpenError, StreamLockIsHeld, HoldsStream
<1>5. LifeOfCalls'
  BY DEF OpenResamplerFails, OpenError, LifeOfCalls
<1>6. PlayingIsSetUp' /\ PcmsAreCounted' /\ MixerIsSet' /\ RouteIsSet'
  BY DEF OpenResamplerFails, OpenError, PlayingIsSetUp, LifeOfCalls, PcmsAreCounted,
         MixerIsSet, DeviceLockIsHeld, HoldsDevice, RouteIsSet
<1> QED BY <1>1, <1>2, <1>3, <1>4, <1>5, <1>6 DEF Flags, Values

LEMMA OpenStateKeeps ==
  ASSUME StreamIInv, NEW t \in Caller, OpenState(t)
  PROVE  StreamIInv'
<1>1. mixer' \in {mixer, [on |-> TRUE, device |-> Zero]}
  BY DEF OpenState
<1>2. [on |-> TRUE, device |-> Zero] \in Side
  OBVIOUS
<1>3. Flags'
  BY <1>1, <1>2 DEF OpenState, OpenError, Flags
<1>4. Values'
  BY <1>1, <1>2 DEF OpenState, OpenError, Values, PcmsAreCounted
<1>5. StreamInv'
  BY <1>1, <1>2
  DEF OpenState, OpenError, DeviceLockIsHeld, HoldsDevice, StreamLockIsHeld,
      HoldsStream, LifeOfCalls, PlayingIsSetUp, PcmsAreCounted, MixerIsSet, RouteIsSet
<1> QED BY <1>1, <1>2, <1>3, <1>4, <1>5 DEF Flags, Values

LEMMA OpenPcmKeeps ==
  ASSUME StreamIInv, NEW t \in Caller, OpenPcm(t)
  PROVE  StreamIInv'
<1>1. Flags'
  BY DEF OpenPcm, OpenError, Flags
<1>2. Values'
  BY DEF OpenPcm, OpenError, Values, PcmsAreCounted
<1>3. StreamInv'
  BY DEF OpenPcm, OpenError, DeviceLockIsHeld, HoldsDevice, StreamLockIsHeld,
         HoldsStream, LifeOfCalls, PlayingIsSetUp, PcmsAreCounted, MixerIsSet,
         RouteIsSet
<1> QED BY <1>1, <1>2, <1>3 DEF Flags, Values

LEMMA CloseStateKeeps ==
  ASSUME StreamIInv, NEW t \in Caller, CloseState(t)
  PROVE  StreamIInv'
<1>1. \/ mixer' = [on |-> FALSE, device |-> Zero] /\ failed' = failed
      \/ mixer' = mixer /\ failed' = TRUE
  BY DEF CloseState
<1>2. [on |-> FALSE, device |-> Zero] \in Side
  OBVIOUS
<1>3. Flags'
  BY <1>1, <1>2 DEF CloseState, Flags
<1>4. Values'
  BY DEF CloseState, Values, PcmsAreCounted
<1>5. StreamInv'
  BY <1>1
  DEF CloseState, DeviceLockIsHeld, HoldsDevice, StreamLockIsHeld, HoldsStream,
      LifeOfCalls, PlayingIsSetUp, PcmsAreCounted, MixerIsSet, RouteIsSet
<1> QED BY <1>3, <1>4, <1>5 DEF Flags, Values

LEMMA WriteKeeps ==
  ASSUME StreamIInv, NEW t \in Caller, Write(t)
  PROVE  StreamIInv'
<1>1. Flags'
  BY DEF Write, Flags
<1>2. Values'
  BY DEF Write, Values, PcmsAreCounted
<1>3. StreamInv'
  BY DEF Write, DeviceLockIsHeld, HoldsDevice, StreamLockIsHeld, HoldsStream,
         LifeOfCalls, PlayingIsSetUp, PcmsAreCounted, MixerIsSet, RouteIsSet
<1> QED BY <1>1, <1>2, <1>3 DEF Flags, Values

LEMMA StandbyKeeps ==
  ASSUME StreamIInv, NEW t \in Caller, Standby(t)
  PROVE  StreamIInv'
<1>1. Flags'
  BY DEF Standby, Flags
<1>2. Values'
  BY DEF Standby, Values, PcmsAreCounted
<1>3. StreamInv'
  BY DEF Standby, DeviceLockIsHeld, HoldsDevice, StreamLockIsHeld, HoldsStream,
         LifeOfCalls, PlayingIsSetUp, PcmsAreCounted, MixerIsSet, RouteIsSet
<1> QED BY <1>1, <1>2, <1>3 DEF Flags, Values

LEMMA SetSampleRateKeeps ==
  ASSUME StreamIInv, NEW t \in Caller, NEW r \in Rates, SetSampleRate(t, r)
  PROVE  StreamIInv'
<1>1. Flags'
  BY DEF SetSampleRate, Flags
<1>2. Values'
  BY DEF SetSampleRate, Values, PcmsAreCounted
<1>3. StreamInv'
  BY DEF SetSampleRate, DeviceLockIsHeld, HoldsDevice, StreamLockIsHeld, HoldsStream,
         LifeOfCalls, PlayingIsSetUp, PcmsAreCounted, MixerIsSet, RouteIsSet
<1> QED BY <1>1, <1>2, <1>3 DEF Flags, Values

LEMMA SetFormatKeeps ==
  ASSUME StreamIInv, NEW t \in Caller, NEW f \in Format, SetFormat(t, f)
  PROVE  StreamIInv'
<1>1. Flags'
  BY DEF SetFormat, Flags
<1>2. Values'
  BY DEF SetFormat, Values, PcmsAreCounted
<1>3. StreamInv'
  BY DEF SetFormat, DeviceLockIsHeld, HoldsDevice, StreamLockIsHeld, HoldsStream,
         LifeOfCalls, PlayingIsSetUp, PcmsAreCounted, MixerIsSet, RouteIsSet
<1> QED BY <1>1, <1>2, <1>3 DEF Flags, Values

LEMMA StreamSetParametersKeeps ==
  ASSUME StreamIInv, NEW t \in Caller, NEW d \in SomeDevice, StreamSetParameters(t, d)
  PROVE  StreamIInv'
<1>1. Flags'
  BY DEF StreamSetParameters, Flags
<1>2. Values'
  BY DEF StreamSetParameters, Values, PcmsAreCounted
<1>3. StreamInv'
  BY DEF StreamSetParameters, DeviceLockIsHeld, HoldsDevice, StreamLockIsHeld,
         HoldsStream, LifeOfCalls, PlayingIsSetUp, PcmsAreCounted, MixerIsSet,
         RouteIsSet
<1> QED BY <1>1, <1>2, <1>3 DEF Flags, Values

LEMMA DeviceSetParametersKeeps ==
  ASSUME StreamIInv, NEW d \in SomeDevice, DeviceSetParameters(d)
  PROVE  StreamIInv'
<1>1. Flags'
  BY DEF DeviceSetParameters, Flags
<1>2. Values'
  BY DEF DeviceSetParameters, Values, PcmsAreCounted
<1>3. StreamInv'
  BY DEF DeviceSetParameters, DeviceLockIsHeld, HoldsDevice, StreamLockIsHeld,
         HoldsStream, LifeOfCalls, PlayingIsSetUp, PcmsAreCounted, MixerIsSet,
         RouteIsSet
<1> QED BY <1>1, <1>2, <1>3 DEF Flags, Values

LEMMA OpenKeeps ==
  ASSUME StreamIInv, NEW d \in SomeDevice, NEW r \in Rates, Open(d, r)
  PROVE  StreamIInv'
<1>1. Flags'
  BY DEF Open, Flags
<1>2. Values'
  BY DEF Open, Values, PcmsAreCounted
<1>3. StreamInv'
  BY DEF Open, DeviceLockIsHeld, HoldsDevice, StreamLockIsHeld, HoldsStream,
         LifeOfCalls, PlayingIsSetUp, PcmsAreCounted, MixerIsSet, RouteIsSet
<1> QED BY <1>1, <1>2, <1>3 DEF Flags, Values

LEMMA CloseFreeKeeps ==
  ASSUME StreamIInv, CloseFree
  PROVE  StreamIInv'
<1>1. Flags'
  BY DEF CloseFree, Flags
<1>2. Values'
  BY DEF CloseFree, Values, PcmsAreCounted
<1>3. StreamInv'
  BY DEF CloseFree, DeviceLockIsHeld, HoldsDevice, StreamLockIsHeld, HoldsStream,
         LifeOfCalls, PlayingIsSetUp, PcmsAreCounted, MixerIsSet, RouteIsSet
<1> QED BY <1>1, <1>2, <1>3 DEF Flags, Values

LEMMA StutterKeeps ==
  ASSUME StreamIInv, UNCHANGED vars
  PROVE  StreamIInv'
<1>1. Flags'
  BY DEF Flags
<1>2. Values'
  BY DEF Values, PcmsAreCounted
<1>3. StreamInv'
  BY DEF DeviceLockIsHeld, HoldsDevice, StreamLockIsHeld, HoldsStream,
         LifeOfCalls, PlayingIsSetUp, PcmsAreCounted, MixerIsSet, RouteIsSet
<1> QED BY <1>1, <1>2, <1>3 DEF Flags, Values

-----------------------------------------------------------------------------
(* The theorems. *)

LEMMA InitHolds == Init => StreamIInv
<1> SUFFICES ASSUME Init PROVE StreamIInv
  OBVIOUS
<1>1. Flags
  BY DEF Init, Flags
<1>2. Values
  BY DEF Init, Values
<1>3. CallsAreInPlace /\ DeviceLockIsHeld /\ StreamLockIsHeld /\ LifeOfCalls
  BY DEF Init, DeviceLockIsHeld, HoldsDevice, StreamLockIsHeld, HoldsStream, LifeOfCalls
<1>4. PlayingIsSetUp /\ PcmsAreCounted /\ MixerIsSet /\ RouteIsSet
  BY DEF Init, PlayingIsSetUp, PcmsAreCounted, MixerIsSet, RouteIsSet
<1> QED BY <1>1, <1>2, <1>3, <1>4 DEF Flags, Values

LEMMA NextKeeps ==
  ASSUME StreamIInv, [Next]_vars
  PROVE  StreamIInv'
<1> HIDE DEF StreamIInv
<1>1. ASSUME NEW t \in Caller, Lock(t) PROVE StreamIInv'
  BY <1>1, LockStreamKeeps, LockDeviceKeeps DEF Lock
<1>2. ASSUME NEW t \in Caller, Unlock(t) PROVE StreamIInv'
  BY <1>2, UnlockZeroOfOpenKeeps, UnlockZeroKeeps, UnlockStreamKeeps, UnlockDeviceKeeps
  DEF Unlock
<1>3. ASSUME NEW t \in Caller, Step(t) PROVE StreamIInv'
  BY <1>1, <1>2, <1>3, WriteBodyKeeps, WriteProcessKeeps, StandbyBodyKeeps, RateBodyKeeps,
     FormatBodyKeeps, RouteCheckKeeps, RouteBodyKeeps, OpenResamplerFailsKeeps,
     OpenStateKeeps, OpenPcmKeeps, CloseStateKeeps
  DEF Step
<1>4. ASSUME NEW t \in Caller, Begin(t) PROVE StreamIInv'
  BY <1>4, WriteKeeps, StandbyKeeps, SetSampleRateKeeps, SetFormatKeeps,
     StreamSetParametersKeeps
  DEF Begin
<1>5. ASSUME NEW d \in OutDevices, DeviceSetParameters(d) PROVE StreamIInv'
  BY <1>5, DeviceSetParametersKeeps
<1>6. ASSUME NEW d \in SomeDevice, NEW r \in Rates, Open(d, r) PROVE StreamIInv'
  BY <1>6, OpenKeeps
<1>7. CloseFree => StreamIInv'
  BY CloseFreeKeeps
<1>8. UNCHANGED vars => StreamIInv'
  BY StutterKeeps
<1> QED BY <1>3, <1>4, <1>5, <1>6, <1>7, <1>8 DEF Next

\* Whatever the player and the control thread overlap, each lock is held where
\* the code of its holder says, and the stream, its pcm, the mixer and the codec
\* agree as the parts of the invariant say.
THEOREM StreamCorrect == Spec => []StreamIInv
<1>1. Init => StreamIInv
  BY InitHolds
<1>2. StreamIInv /\ [Next]_vars => StreamIInv'
  BY NextKeeps
<1> QED BY <1>1, <1>2, PTL DEF Spec

\* The stream and its callers keep their types, the pcm handles within their
\* bound: no pcm is closed that is not open.
THEOREM TypeCorrect == Spec => []TypeOK
<1>1. StreamIInv => TypeOK
  OBVIOUS
<1> QED BY <1>1, StreamCorrect, PTL

\* The stream's fields are changed by the holder of its lock (audio_out_write,
\* audio_out_standby, the setters and audio_out_set_route).
THEOREM LockCorrect == Spec => []LockHeldInSection
<1>1. StreamIInv => LockHeldInSection
  BY DEF LockHeldInSection, InSection, Unguarded, StreamLockIsHeld, HoldsStream
<1> QED BY <1>1, StreamCorrect, PTL

\* A stream that is not in standby has an open pcm, the codec's output and the
\* resampler its rate needs, and the codec plays for nothing else.
THEOREM PlayingCorrect == Spec => []PlayingIsReady
<1>1. StreamIInv => PlayingIsReady
  BY DEF PlayingIsReady, PlayingIsSetUp
<1> QED BY <1>1, StreamCorrect, PTL

\* Every open pcm handle is the stream's, unless a setter or a close has cut a
\* playing stream off.
THEOREM PcmsCorrect == Spec => []PcmsAreClosed
<1>1. StreamIInv => PcmsAreClosed
  BY DEF PcmsAreClosed, PcmsAreCounted
<1> QED BY <1>1, StreamCorrect, PTL

\* While there is a stream the mixer's output is on; without one it is off, unless
\* the last open failed or the last close could not switch it off
\* (audio_hw_open_output_stream, audio_hw_close_output_stream).
THEOREM MixerCorrect == Spec => []MixerFollowsStream
<1>1. StreamIInv => MixerFollowsStream
  BY DEF MixerFollowsStream, MixerIsSet, Quiet
<1> QED BY <1>1, StreamCorrect, PTL

\* The mixer and the codec were told the device the stream believes it is on
\* (audio_out_set_route, whichever of the three calls made it).
THEOREM RouteCorrect == Spec => []RouteIsTold
<1>1. StreamIInv => RouteIsTold
  BY DEF RouteIsTold, RouteIsSet
<1> QED BY <1>1, StreamCorrect, PTL

\* A caller that waits for a lock that u holds.
WaitsFor(t, u) ==
  \/ pc[t] = "dlock" /\ dlock = u
  \/ pc[t] \in {"slock", "zero_slock"} /\ slock = u

\* device->lock comes before the stream's: who holds the stream's lock waits for
\* none, who holds device->lock at most for the stream's, and who is in no call
\* holds none.  So no callers wait for each other, and none for itself, even
\* when a double unlock has let another in.
LocksAreOrdered ==
  \A t \in Caller :
    /\ slock = t => pc[t] \notin {"idle", "dlock", "slock", "zero_slock"}
    /\ dlock = t => pc[t] \notin {"idle", "dlock"}
    /\ \A u \in Caller : ~(WaitsFor(t, u) /\ WaitsFor(u, t))

\* The locks are taken in one order by every call, the route to device 0
\* included, which takes the stream's lock a second time under device->lock: no
\* calls end in a deadlock, with or without a double unlock (audio_out_write, audio_out_standby, the
\* setters, audio_out_set_route, opening and closing).
THEOREM OrderCorrect == Spec => []LocksAreOrdered
<1>1. ASSUME StreamIInv, NEW t \in Caller
      PROVE  /\ slock = t => pc[t] \notin {"idle", "dlock", "slock", "zero_slock"}
             /\ dlock = t => pc[t] \notin {"idle", "dlock"}
  <2>1. slock = t => HoldsStream(t)
    BY <1>1 DEF StreamLockIsHeld
  <2>2. dlock = t => HoldsDevice(t)
    BY <1>1 DEF DeviceLockIsHeld
  <2> QED BY <2>1, <2>2 DEF HoldsStream, HoldsDevice, OnStream
<1>2. StreamIInv => LocksAreOrdered
  BY <1>1 DEF LocksAreOrdered, WaitsFor
<1> QED BY <1>2, StreamCorrect, PTL
=============================================================================
