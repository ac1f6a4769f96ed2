------------------------------ MODULE AudioIn ------------------------------
(***************************************************************************)
(* The capture stream, libaudio/tinyalsa_audio/audio_in.c.                 *)
(*                                                                         *)
(* A read takes the stream's lock, starts the codec and the pcm if the     *)
(* stream is in standby, and then fills the caller's buffer: straight from *)
(* the pcm, or, when the rate is not the hardware's, in a loop around the  *)
(* resampler, which pulls periods of frames through get_next_buffer and    *)
(* release_buffer.  The loop ends when enough frames came out and in no    *)
(* other way.                                                              *)
(*                                                                         *)
(* The locking is that of the playback stream (module AudioOut).  Here the *)
(* steps under device->lock are not told apart; the stream's lock, the     *)
(* double unlock of a route to device 0 included, is.                      *)
(***************************************************************************)
EXTENDS Integers

CONSTANTS
  InDevices,    \* devices for which audio_is_input_device holds
  Zero,         \* the device 0: no routing
  Rates,        \* sample rates the stream may be set to
  Native,       \* mixer_props->rate
  NoOne,        \* the owner of a free lock
  Period,       \* mixer_props->period_size, in frames
  Sizes,        \* frames a read may ask for
  MaxSession    \* bound: times a pcm is opened

Caller == {"recorder", "control"}
Format == {"native", "foreign"}

ASSUME ParameterAssumption ==
  /\ Zero \notin InDevices
  /\ Native \in Rates
  /\ NoOne \notin Caller
  /\ Period \in Nat \ {0}
  /\ Sizes \subseteq Nat \ {0}
  /\ MaxSession \in Nat

\* What stream_in->buffer holds: nothing (a NULL buffer), memory that was
\* never written, or frames of a capture session.
NoBuffer == -1
Unwritten == 0
Session == 1..MaxSession

VARIABLES
  open,         \* there is a capture stream
  device,       \* stream_in->device_current
  rate,         \* stream_in->rate
  format,       \* stream_in->format
  resampler,    \* stream_in->resampler is not NULL
  buffer,       \* what stream_in->buffer holds
  frames_left,  \* stream_in->frames_left
  pcm,          \* the session of stream_in->pcm, or 0 for NULL
  standby,      \* stream_in->standby
  codec,        \* input_state of the codec
  dead,         \* reading the capture device fails
  slock,        \* owner of stream_in->lock
  pc, op, arg,  \* where each caller is, in which call, with which argument
  need,         \* frames the read in the resampler's loop still needs
  session,      \* history: pcm sessions so far
  used,         \* history: frames taken from the buffer since it was filled
  spoilt,       \* history: a read returned frames that the pcm it read from
                \* did not capture
  carried,      \* history: frames were left when the pcm or the buffer they
                \* came from was given up
  abrupt,       \* history: since the codec was last stopped, standby was set,
                \* or the start given up, without stopping it
  robbed        \* history: an unlock released a lock that another caller held

config == <<device, rate, format>>
data == <<resampler, buffer, frames_left, need, used, spoilt>>
play == <<pcm, standby, codec, session, abrupt>>
calls == <<pc, op, arg>>
vars == <<open, config, data, play, dead, slock, calls, carried, robbed>>

SomeDevice == InDevices \cup {Zero}
Ops == {"none", "read", "standby", "rate", "format", "route"}
Places == {"idle", "slock", "body", "process", "loop", "zero_slock",
           "zero_body", "zero_unlock", "unlock"}

TypeOK ==
  /\ open \in BOOLEAN
  /\ device \in SomeDevice
  /\ rate \in Rates
  /\ format \in Format
  /\ resampler \in BOOLEAN
  /\ buffer \in {NoBuffer, Unwritten} \cup Session
  /\ frames_left \in 0..Period
  /\ pcm \in {0} \cup Session
  /\ standby \in BOOLEAN
  /\ codec \in BOOLEAN
  /\ dead \in BOOLEAN
  /\ slock \in Caller \cup {NoOne}
  /\ pc \in [Caller -> Places]
  /\ op \in [Caller -> Ops]
  /\ arg \in [Caller -> SomeDevice \cup Rates \cup Format]
  /\ need \in {0} \cup Nat
  /\ session \in {0} \cup Session
  /\ used \in Nat
  /\ spoilt \in BOOLEAN /\ carried \in BOOLEAN /\ abrupt \in BOOLEAN
  /\ robbed \in BOOLEAN

-----------------------------------------------------------------------------
(* Calls and the lock.                                                     *)

GoTo(t, place) ==
  /\ pc' = [pc EXCEPT ![t] = place]
  /\ op' = IF place = "idle" THEN [op EXCEPT ![t] = "none"] ELSE op
  /\ arg' = IF place = "idle" THEN [arg EXCEPT ![t] = Zero] ELSE arg

Call(t, o, a) ==
  /\ open
  /\ pc[t] = "idle"
  /\ pc' = [pc EXCEPT ![t] = "slock"]
  /\ op' = [op EXCEPT ![t] = o]
  /\ arg' = [arg EXCEPT ![t] = a]
  /\ UNCHANGED <<open, config, data, play, dead, slock, carried, robbed>>

LockFrom(t, from, to) ==
  /\ pc[t] = from
  /\ slock = NoOne
  /\ slock' = t
  /\ GoTo(t, to)
  /\ UNCHANGED <<open, config, data, play, dead, carried, robbed>>

Lock(t) == LockFrom(t, "slock", "body") \/ LockFrom(t, "zero_slock", "zero_body")

Release(t) ==
  /\ slock' = NoOne
  /\ robbed' = (robbed \/ slock \notin {t, NoOne})

\* The second unlock of a route to device 0 releases whatever lock there is.
Unlock(t) ==
  /\ \/ pc[t] = "zero_unlock" /\ GoTo(t, "unlock")
     \/ pc[t] = "unlock" /\ GoTo(t, "idle")
  /\ Release(t)
  /\ UNCHANGED <<open, config, data, play, dead, carried>>

-----------------------------------------------------------------------------
(* audio_in_read.                                                          *)

Read(t) == Call(t, "read", Zero)

\* audio_in_pcm_open succeeds; frames_left is as it was.
PcmOpen ==
  /\ session < MaxSession
  /\ session' = session + 1
  /\ pcm' = session + 1
  /\ carried' = (carried \/ frames_left > 0)

\* Out of standby: the codec is started, and then the pcm.
ReadBody(t) ==
  /\ pc[t] = "body" /\ op[t] = "read"
  /\ IF ~standby
     THEN GoTo(t, "process") /\ UNCHANGED <<play, carried>>
     ELSE /\ codec' = TRUE
          /\ \/ /\ PcmOpen
                /\ standby' = FALSE
                /\ abrupt' = FALSE
                /\ GoTo(t, "process")
             \/ /\ abrupt' = TRUE
                /\ GoTo(t, "unlock")
                /\ UNCHANGED <<pcm, standby, session, carried>>
  /\ UNCHANGED <<open, config, data, dead, slock, robbed>>

\* audio_in_read_process without a resampler: one pcm_read, of whatever the
\* pcm captures, or an error.  With one: the loop, for some number of frames.
ReadProcess(t) ==
  /\ pc[t] = "process"
  /\ IF resampler
     THEN \E n \in Sizes : need' = n /\ GoTo(t, "loop")
     ELSE need' = 0 /\ GoTo(t, "unlock")
  /\ UNCHANGED <<open, config, resampler, buffer, frames_left, used, spoilt,
                 play, dead, slock, carried, robbed>>

\* (mutant) One frame too many is released.
release_buffer_one_more(left, n) == left - n - 1

\* (mutant) The frames that were taken are not released.
release_buffer_nothing(left, n) == left

\* audio_in_release_buffer
release_buffer(left, n) == left - n

LeastOf(m, n) == IF m < n THEN m ELSE n

\* The resampler takes n frames of the period that starts where frames_left
\* says, and makes n frames of them.
Take(t, b, left, taken, n) ==
  /\ n \in 1..LeastOf(left, need)
  /\ buffer' = b
  /\ frames_left' = release_buffer(left, n)
  /\ used' = taken + n
  /\ need' = need - n
  /\ spoilt' = (spoilt \/ b # pcm)
  /\ GoTo(t, IF need = n THEN "unlock" ELSE "loop")

\* audio_in_get_next_buffer finds frames left of the last period.
PullLeft(t) ==
  /\ pc[t] = "loop"
  /\ frames_left > 0
  /\ \E n \in 1..Period : Take(t, buffer, frames_left, used, n)
  /\ UNCHANGED <<open, config, resampler, play, dead, slock, carried, robbed>>

\* (mutant) A period that could not be read is handed out all the same.
PullRead_unchecked(t) ==
  /\ pc[t] = "loop"
  /\ frames_left = 0
  /\ pcm # 0
  /\ \E n \in 1..Period : Take(t, IF dead THEN buffer ELSE pcm, Period, 0, n)
  /\ UNCHANGED <<open, config, resampler, play, dead, slock, carried, robbed>>

\* ... or reads the next period from the pcm.  If that fails, no frame comes
\* and the loop goes round: the caller has no step until the pcm can be read.
PullRead(t) ==
  /\ pc[t] = "loop"
  /\ frames_left = 0
  /\ pcm # 0 /\ ~dead
  /\ \E n \in 1..Period : Take(t, pcm, Period, 0, n)
  /\ UNCHANGED <<open, config, resampler, play, dead, slock, carried, robbed>>

\* The capture device stops delivering, or delivers again, during a read.
Microphone ==
  /\ \E t \in Caller : pc[t] = "loop"
  /\ dead' = ~dead
  /\ UNCHANGED <<open, config, data, play, slock, calls, carried, robbed>>

-----------------------------------------------------------------------------
(* audio_in_standby, called alone or by audio_in_set_route.                *)

\* (mutant) The stream's lock is not taken.
Standby_unlocked(t) ==
  /\ open
  /\ pc[t] = "idle"
  /\ carried' = (carried \/ frames_left > 0)
  /\ pcm' = 0
  /\ codec' = (codec /\ standby)
  /\ standby' = TRUE
  /\ UNCHANGED <<open, config, data, session, abrupt, dead, slock, calls, robbed>>

Standby(t) == Call(t, "standby", Zero)

StandbyBody(t) ==
  /\ \/ pc[t] = "body" /\ op[t] = "standby" /\ GoTo(t, "unlock")
     \/ pc[t] = "zero_body" /\ GoTo(t, "zero_unlock")
  /\ carried' = (carried \/ frames_left > 0)
  /\ pcm' = 0
  /\ codec' = (codec /\ standby)
  /\ standby' = TRUE
  /\ UNCHANGED <<open, config, data, session, abrupt, dead, slock, robbed>>

-----------------------------------------------------------------------------
(* audio_in_set_sample_rate and audio_in_set_format: compared before the   *)
(* lock is taken.  standby is set, and nothing else is stopped.            *)

SetSampleRate(t, r) == r # rate /\ Call(t, "rate", r)

force_standby ==
  /\ standby' = TRUE
  /\ abrupt' = (abrupt \/ ~standby)
  /\ carried' = (carried \/ frames_left > 0)

\* A rate that is not the hardware's gets a new resampler and a new buffer,
\* or neither; frames_left stays.
RateBody(t) ==
  /\ pc[t] = "body" /\ op[t] = "rate"
  /\ rate' = arg[t]
  /\ IF arg[t] = Native
     THEN UNCHANGED <<resampler, buffer, standby, abrupt, carried>>
     ELSE /\ resampler' \in BOOLEAN
          /\ buffer' = IF resampler' THEN Unwritten ELSE NoBuffer
          /\ force_standby
  /\ GoTo(t, "unlock")
  /\ UNCHANGED <<open, device, format, frames_left, need, used, spoilt, pcm,
                 codec, session, dead, slock, robbed>>

SetFormat(t, f) == f # format /\ Call(t, "format", f)

FormatBody(t) ==
  /\ pc[t] = "body" /\ op[t] = "format"
  /\ format' = arg[t]
  /\ IF arg[t] = "native" THEN UNCHANGED <<standby, abrupt, carried>> ELSE force_standby
  /\ GoTo(t, "unlock")
  /\ UNCHANGED <<open, device, rate, data, pcm, codec, session, dead, slock, robbed>>

-----------------------------------------------------------------------------
(* audio_in_set_parameters, and audio_hw_set_parameters of a capture       *)
(* device.                                                                 *)

SetParameters(t, d) == d # device /\ Call(t, "route", d)

\* audio_in_set_route: the device 0 gives the lock up and calls standby, which
\* takes it again; the caller then unlocks once more.
RouteBody(t) ==
  /\ pc[t] = "body" /\ op[t] = "route"
  /\ device' = arg[t]
  /\ IF arg[t] = Zero
     THEN Release(t) /\ GoTo(t, "zero_slock")
     ELSE GoTo(t, "unlock") /\ UNCHANGED <<slock, robbed>>
  /\ UNCHANGED <<open, rate, format, data, play, dead, carried>>

-----------------------------------------------------------------------------
(* Opening and closing, when no call on the stream is running.             *)

AllIdle == \A t \in Caller : pc[t] = "idle"

\* audio_hw_open_input_stream: the object is zeroed, routed, and put in
\* standby once the pcm was tried; a failure on the way frees it.  A route to
\* device 0 calls audio_in_standby before standby is first set.
Open(d, r) ==
  /\ ~open /\ AllIdle
  /\ codec' = (codec /\ d # Zero)
  /\ open' \in BOOLEAN
  /\ device' = d
  /\ rate' = r
  /\ format' \in Format
  /\ resampler' = (r # Native)
  /\ buffer' = IF r # Native THEN Unwritten ELSE NoBuffer
  /\ frames_left' = 0 /\ used' = 0 /\ need' = 0
  /\ pcm' = 0
  /\ session' = 0
  /\ standby' = TRUE
  /\ spoilt' = FALSE /\ carried' = FALSE
  /\ UNCHANGED <<dead, slock, calls, abrupt, robbed>>

\* (mutant) The codec is left running.
Close_no_stop ==
  /\ open /\ AllIdle
  /\ open' = FALSE
  /\ UNCHANGED <<config, data, pcm, standby, codec, session, abrupt, dead, slock,
                 calls, carried, robbed>>

\* audio_hw_close_input_stream
Close ==
  /\ open /\ AllIdle
  /\ codec' = (codec /\ standby)
  /\ open' = FALSE
  /\ UNCHANGED <<config, data, pcm, standby, session, abrupt, dead, slock, calls,
                 carried, robbed>>

Init ==
  /\ open = FALSE
  /\ device = Zero /\ rate = Native /\ format = "native"
  /\ resampler = FALSE /\ buffer = NoBuffer /\ frames_left = 0
  /\ need = 0 /\ used = 0 /\ spoilt = FALSE
  /\ pcm = 0 /\ standby = TRUE /\ codec = FALSE
  /\ session = 0 /\ abrupt = FALSE
  /\ dead = FALSE
  /\ slock = NoOne
  /\ pc = [t \in Caller |-> "idle"]
  /\ op = [t \in Caller |-> "none"]
  /\ arg = [t \in Caller |-> Zero]
  /\ carried = FALSE /\ robbed = FALSE

Step(t) ==
  \/ Lock(t) \/ Unlock(t)
  \/ ReadBody(t) \/ ReadProcess(t) \/ PullLeft(t) \/ PullRead(t)
  \/ StandbyBody(t) \/ RateBody(t) \/ FormatBody(t) \/ RouteBody(t)

\* One thread reads; both may make the other calls.
Begin(t) ==
  \/ t = "recorder" /\ Read(t)
  \/ Standby(t)
  \/ \E r \in Rates : SetSampleRate(t, r)
  \/ \E f \in Format : SetFormat(t, f)
  \/ \E d \in SomeDevice : SetParameters(t, d)

\* Bound: once a lock was robbed, the calls in progress are followed to their
\* end, and no other is begun on the stream.
Next ==
  \/ \E t \in Caller : Step(t)
  \/ \E t \in Caller : ~robbed /\ Begin(t)
  \/ \E d \in SomeDevice, r \in Rates : Open(d, r)
  \/ Close
  \/ Microphone

\* A thread in a call is scheduled.  Nothing is asked of the microphone.
Spec == Init /\ [][Next]_vars /\ \A t \in Caller : WF_vars(Step(t))

-----------------------------------------------------------------------------
(* Properties.                                                             *)

Quiet == slock = NoOne /\ ~robbed

\* Standby, the pcm and the codec tell one story: a stream that is not in
\* standby has a pcm and the codec's input on, and the input is on for nothing
\* else, unless standby was set behind its back (audio_in.c:375, 443, or a
\* pcm_open that failed after the start at 587).
RecordingIsReady ==
  Quiet =>
    LET recording == open /\ ~standby
    IN  /\ recording => pcm # 0 /\ codec
        /\ codec => recording \/ abrupt

\* Every frame of a period is given to the resampler once: what was taken and
\* frames_left make up the period, across reads, standbys and new resamplers.
EachFrameOnce == used + frames_left \in {0, Period}

\* A read returns what its own pcm captured.  Frames of an earlier capture, or
\* memory never written, come out only if frames were left when the pcm or the
\* buffer was given up: neither audio_in_standby nor audio_in_resampler_open
\* resets frames_left.
FreshFrames == spoilt => carried

\* The loop of audio_in_read_process (line 251), which no error ends, ends as
\* long as the pcm can be read: nobody takes the pcm away under it, unless a
\* route to device 0 has robbed it of its lock.
ReadReturns ==
  \A t \in Caller : pc[t] = "loop" ~> pc[t] # "loop" \/ dead \/ robbed
=============================================================================
