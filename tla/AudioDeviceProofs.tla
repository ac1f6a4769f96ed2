------------------------- MODULE AudioDeviceProofs -------------------------
(***************************************************************************)
(* The safety properties of AudioDevice for every set of devices, modes    *)
(* and volumes and every value of its bounds.  They speak of the moments   *)
(* at which nobody holds device->lock; what makes them hold there is that  *)
(* while a caller holds it, whatever its call has not brought in line yet  *)
(* is among the requests the caller still has to make.                     *)
(***************************************************************************)
EXTENDS AudioDevice, SequenceTheorems, TLAPS

\* The requests that are still to be made, and their names.
Pending == Range(todo)
Waits(name) == \E r \in Pending : r[1] = name

Entering(t) == dlock = t /\ call[t] = <<"mode", InCall>>
Leaving(t) == dlock = t /\ call[t][1] = "mode" /\ call[t][2] # InCall
In(t, name) == dlock = t /\ call[t][1] = name

\* Nobody without the lock has requests to make, and each request is one the
\* call of the lock's owner makes; the interface is closed last.
RequestsOfCall ==
  /\ dlock = NoOne => todo = <<>>
  /\ \A t \in Caller : dlock = t => call[t] # NoCall
  /\ \A t \in Caller : dlock = t => \A r \in Pending :
       /\ r[1] = "route" => (Entering(t) /\ r[2] = ril_device) \/ (In(t, "route") /\ r = call[t])
       /\ r[1] = "volume" => (Entering(t) /\ r[2] = voice_volume) \/ (In(t, "volume") /\ r = call[t])
       /\ r[1] = "codec_stop" => Leaving(t)
       /\ r[1] = "ril_close" => Leaving(t) /\ ril
  /\ \A i \in 1..Len(todo) : todo[i][1] = "ril_close" => i = Len(todo)

\* The modem side of the mixer and of the codec, while a mode is being set and
\* otherwise.
ModemSide ==
  /\ \A t \in Caller : Entering(t) => codec /\ ("modem" \notin missed => mixer.on)
  /\ \A t \in Caller : Leaving(t) =>
       (codec => Waits("codec_stop")) /\ ("modem" \notin missed => ~mixer.on)
  /\ (\A t \in Caller : ~In(t, "mode")) =>
       (codec <=> mode = InCall) /\ ("modem" \notin missed => (mixer.on <=> mode = InCall))

\* The interface, while a mode is being set and otherwise.
Clients ==
  /\ clients = lost + (IF ril THEN 1 ELSE 0)
  /\ ~unclosed /\ ~raced => lost = 0
  /\ ~unclosed => \A t \in Caller : Leaving(t) /\ ril => Waits("ril_close")
  /\ ~unclosed /\ ril => mode = InCall \/ \E t \in Caller : Entering(t)

\* The volume and the mute the device will have when the call that holds the
\* lock returns: the modem has them, or is about to be told.
VolumeTold(v) ==
  ril /\ "volume" \notin missed =>
    \/ Waits("volume")
    \/ volume = NoVolume /\ v = 0
    \/ volume[1] = v /\ ("type" \notin missed => volume[2] = TypeOf(ril_device))
MuteTold(x) == "mute" \notin missed => muted \in {Unset, x}

VolumeComes ==
  /\ \A t \in Caller : Entering(t) => VolumeTold(voice_volume) /\ muted = Unset
  /\ mode = InCall =>
       /\ \A t \in Caller : In(t, "volume") => VolumeTold(call[t][2])
       /\ \A t \in Caller : In(t, "mute") => MuteTold(call[t][2])
       /\ (\A t \in Caller : ~In(t, "mode") /\ ~In(t, "volume")) => VolumeTold(voice_volume)
       /\ (\A t \in Caller : ~In(t, "mode") /\ ~In(t, "mute")) => MuteTold(mic_mute)

\* The modem's path is that of the interface's device, or is about to be; the
\* modem side of the mixer follows the stream; and both are, or are about to be,
\* on the device that was asked for, as far as they did as they were told.
RouteComes ==
  /\ ril /\ "route" \notin missed /\ ril_device # Zero =>
       path = PathOf(ril_device) \/ Waits("route")
  /\ mixer.on /\ "device" \notin missed /\ stream_out \in OutDevices =>
       mixer.device = stream_out
  /\ asked # Zero =>
       /\ mode = InCall
       /\ \A t \in Caller : ~In(t, "mode")
       /\ \A t \in Caller : In(t, "route") => call[t][2] = asked
       /\ stream_out \in SomeDevice => stream_out = asked
       /\ ril /\ "route" \notin missed => path = PathOf(asked) \/ Waits("route")

DeviceInv == RequestsOfCall /\ ModemSide /\ Clients /\ VolumeComes /\ RouteComes
-----------------------------------------------------------------------------
(* Sequences of requests. *)

LEMMA HeadAndTail ==
  ASSUME NEW S, NEW s \in Seq(S), s # <<>>
  PROVE  /\ Head(s) \in S /\ Tail(s) \in Seq(S)
         /\ Len(Tail(s)) = Len(s) - 1
         /\ Range(s) = {Head(s)} \cup Range(Tail(s))
<1>1. /\ Head(s) = s[1] /\ Head(s) \in S /\ Len(s) \in Nat \ {0}
      /\ Tail(s) \in Seq(S) /\ Len(Tail(s)) = Len(s) - 1
      /\ \A i \in 1..Len(Tail(s)) : Tail(s)[i] = s[i + 1]
  OBVIOUS
<1>2. /\ Range(s) = {s[i] : i \in 1..Len(s)}
      /\ Range(Tail(s)) = {Tail(s)[i] : i \in 1..Len(Tail(s))}
  BY <1>1, RangeEquality
<1>3. Head(s) \in Range(s) /\ Range(Tail(s)) \subseteq Range(s)
  BY <1>1, <1>2
<1>4. ASSUME NEW r \in Range(s) PROVE r = Head(s) \/ r \in Range(Tail(s))
  <2>1. PICK i \in 1..Len(s) : r = s[i]
    BY <1>2
  <2>2. CASE i = 1
    BY <2>1, <2>2, <1>1
  <2>3. CASE i # 1
    <3>1. i - 1 \in 1..Len(Tail(s)) /\ Tail(s)[i - 1] = s[i]
      BY <2>3, <1>1
    <3> QED BY <2>1, <3>1, <1>2
  <2> QED BY <2>2, <2>3
<1> QED BY <1>1, <1>3, <1>4

LEMMA ShortRanges ==
  /\ Range(<<>>) = {}
  /\ \A a : Range(<<a>>) = {a}
  /\ \A a, b : Range(<<a, b>>) = {a, b}
  /\ \A a, b, c : Range(<<a, b, c>>) = {a, b, c}
  BY DEF Range

LEMMA ThreeParts ==
  ASSUME NEW S, NEW u \in Seq(S), NEW v \in Seq(S), NEW w \in Seq(S),
         Len(u) <= 1, Len(v) <= 1, Len(w) <= 1
  PROVE  /\ u \o v \o w \in Seq(S) /\ Len(u \o v \o w) <= 3
         /\ Range(u \o v \o w) = Range(u) \cup Range(v) \cup Range(w)
<1>1. u \o v \in Seq(S) /\ Range(u \o v) = Range(u) \cup Range(v)
  BY RangeConcatenation
<1>2. \A x \in Seq(S) : Range(x \o w) = Range(x) \cup Range(w)
  BY RangeConcatenation
<1>3. u \o v \o w \in Seq(S) /\ Len(u \o v \o w) <= 3
  OBVIOUS
<1> QED BY <1>1, <1>2, <1>3

LEMMA Concatenated ==
  ASSUME NEW S, NEW a \in S, NEW b \in S, NEW c \in S
  PROVE  <<a>> \o <<b>> \o <<c>> = <<a, b, c>>
<1>1. <<a>> \in Seq(S) /\ <<b>> \in Seq(S) /\ <<c>> \in Seq(S) /\ <<a, b, c>> \in Seq(S)
  OBVIOUS
<1>2. /\ <<a>> \o <<b>> \in Seq(S) /\ Len(<<a>> \o <<b>>) = 2
      /\ (<<a>> \o <<b>>)[1] = a /\ (<<a>> \o <<b>>)[2] = b
  BY <1>1
<1> DEFINE s == <<a>> \o <<b>> \o <<c>>
<1>3. s \in Seq(S) /\ Len(s) = 3 /\ s[1] = a /\ s[2] = b /\ s[3] = c
  BY <1>1, <1>2
<1> HIDE DEF s
<1>4. \A i \in 1..Len(s) : s[i] = <<a, b, c>>[i]
  BY <1>3
<1>5. s = <<a, b, c>>
  BY <1>1, <1>3, <1>4, SeqEqual
<1> QED BY <1>5 DEF s

LEMMA PendingIs ==
  /\ todo = <<>> => Pending = {}
  /\ todo' = todo => Pending' = Pending
  /\ todo' = <<>> => Pending' = {}
  /\ \A r : todo' = <<r>> => Pending' = {r}
  /\ \A a, b, c : todo' = <<a, b, c>> => Pending' = {a, b, c}
  BY ShortRanges DEF Pending

LEMMA PendingHas ==
  ASSUME todo' \in Seq(Requests), ~(\E r \in Pending' : r[1] = "ril_close")
  PROVE  \A i \in 1..Len(todo') : todo'[i][1] = "ril_close" => i = Len(todo')
<1>1. \A i \in 1..Len(todo') : todo'[i] \in Pending'
  BY RangeEquality DEF Pending
<1> QED BY <1>1

\* What a request that is made leaves to be done.
LEMMA RequestMade ==
  ASSUME TypeOK, RequestsOfCall, NEW t \in Caller, NEW name, Request(t, name)
  PROVE  /\ dlock = t /\ Head(todo) \in Requests /\ Head(todo)[1] = name
         /\ Head(todo) \in Pending
         /\ todo' \in Seq(Requests) /\ Len(todo') <= 3
         /\ Pending = {Head(todo)} \cup Pending'
         /\ \A i \in 1..Len(todo') : todo'[i][1] = "ril_close" => i = Len(todo')
         /\ name = "ril_close" => todo' = <<>>
<1>1. /\ todo \in Seq(Requests) /\ todo # <<>> /\ todo' = Tail(todo)
      /\ dlock = t /\ Head(todo)[1] = name /\ Len(todo) <= 3
  BY DEF TypeOK, Request
<1>2. /\ Head(todo) = todo[1] /\ Len(todo') = Len(todo) - 1 /\ Len(todo) \in Nat \ {0}
      /\ \A i \in 1..Len(todo') : todo'[i] = todo[i + 1]
  BY <1>1
<1>3. \A i \in 1..Len(todo') : todo'[i][1] = "ril_close" => i = Len(todo')
  BY <1>2 DEF RequestsOfCall
<1>4. name = "ril_close" => todo' = <<>>
  <2> SUFFICES ASSUME name = "ril_close" PROVE todo' = <<>>
    OBVIOUS
  <2>1. 1 \in 1..Len(todo) /\ todo[1][1] = "ril_close"
    BY <1>1, <1>2
  <2>2. Len(todo) = 1
    BY <2>1 DEF RequestsOfCall
  <2>3. todo' \in Seq(Requests) /\ Len(todo') = 0
    BY <1>1, <1>2, <2>2
  <2> QED BY <2>3, EmptySeq
<1>5. /\ Head(todo) \in Requests /\ todo' \in Seq(Requests) /\ Len(todo') <= 3
      /\ Pending = {Head(todo)} \cup Pending'
  BY <1>1, HeadAndTail DEF Pending
<1> QED BY <1>1, <1>3, <1>4, <1>5

-----------------------------------------------------------------------------
(* Types of calls and requests, and of the parameters. *)

LEMMA CallTypes ==
  ASSUME NEW c \in Calls
  PROVE  /\ c = <<c[1], c[2]>>
         /\ c[1] = "mode" => c[2] \in Modes
         /\ c[1] = "volume" => c[2] \in Volumes
         /\ c[1] = "mute" => c[2] \in Mutes
         /\ c[1] \in {"route", "open"} => c[2] \in SomeDevice
         /\ c[1] = "none" => c = NoCall
  BY DEF Calls, NoCall

LEMMA RequestTypes ==
  ASSUME NEW r \in Requests
  PROVE  /\ r = <<r[1], r[2]>>
         /\ r[1] = "volume" => r[2] \in Volumes
         /\ r[1] = "twomic" => r[2] \in BOOLEAN
         /\ r[1] = "route" => r[2] \in SomeDevice
  BY DEF Requests

LEMMA RequestsExist ==
  /\ \A d \in SomeDevice : <<"route", d>> \in Requests
  /\ \A v \in Volumes : <<"volume", v>> \in Requests
  /\ \A b \in BOOLEAN : <<"twomic", b>> \in Requests
  /\ <<"codec_stop", Zero>> \in Requests /\ <<"ril_close", Zero>> \in Requests
  BY DEF Requests

LEMMA ParameterFacts ==
  /\ Zero \notin OutDevices /\ Earpiece \in OutDevices
  /\ NoStream \notin SomeDevice /\ Freed \notin SomeDevice /\ NoStream # Freed
  /\ Normal \in Modes /\ InCall \in Modes /\ Normal # InCall
  /\ 0 \in Volumes /\ Volumes \subseteq Nat /\ Unset \notin Volumes /\ Asked \subseteq SomeDevice
  /\ MaxClients \in Nat /\ NoOne \notin Caller
  BY ParameterAssumption DEF SomeDevice, Unset, Caller, Binder

LEMMA DeviceFound ==
  ASSUME TypeOK, NEW d \in StreamDevice
  PROVE  d \in SomeDevice /\ (stream_out \in SomeDevice => d = stream_out)
  BY ParameterFacts DEF StreamDevice, TypeOK, SomeDevice

\* The requests of entering a call on device d.
EnterTodoIs(d) ==
   /\ todo' \in Seq(Requests) /\ Len(todo') <= 3
   /\ d # Zero => <<"route", d>> \in Pending'
   /\ voice_volume # 0 => <<"volume", voice_volume>> \in Pending'
   /\ \A r \in Pending' : \/ (r[1] = "route" /\ r[2] = d /\ d # Zero)
                         \/ (r[1] = "volume" /\ r[2] = voice_volume /\ voice_volume # 0)
                         \/ r[1] = "twomic"

LEMMA EnterTodo ==
  ASSUME TypeOK, NEW t, NEW d \in SomeDevice, ril_open(t, d)
  PROVE  EnterTodoIs(d)
<1> DEFINE R == <<"route", d>>
           T == <<"twomic", TRUE>>
           V == <<"volume", voice_volume>>
           u == IF d # Zero THEN <<R>> ELSE <<>>
           v == IF d = Earpiece THEN <<T>> ELSE <<>>
           w == IF voice_volume # 0 THEN <<V>> ELSE <<>>
<1>1. R \in Requests /\ T \in Requests /\ V \in Requests
  BY RequestsExist DEF TypeOK
<1>2. todo' = u \o v \o w
  BY DEF ril_open, Locked
<1> HIDE DEF R, T, V
<1>a. \A r \in Requests : <<r>> \in Seq(Requests) /\ Len(<<r>>) = 1 /\ Range(<<r>>) = {r}
  BY ShortRanges
<1>b. <<>> \in Seq(Requests) /\ Len(<<>>) = 0 /\ Range(<<>>) = {}
  BY ShortRanges
<1>c. u \in Seq(Requests) /\ Len(u) <= 1 /\ Range(u) = {x \in {R} : d # Zero}
  BY <1>1, <1>a, <1>b
<1>d. v \in Seq(Requests) /\ Len(v) <= 1 /\ Range(v) = {x \in {T} : d = Earpiece}
  BY <1>1, <1>a, <1>b
<1>3. w \in Seq(Requests) /\ Len(w) <= 1 /\ Range(w) = {x \in {V} : voice_volume # 0}
  BY <1>1, <1>a, <1>b
<1> HIDE DEF u, v, w
<1>4. todo' \in Seq(Requests) /\ Len(todo') <= 3 /\ Pending' = Range(u) \cup Range(v) \cup Range(w)
  BY <1>2, <1>c, <1>d, <1>3, ThreeParts DEF Pending
<1>5. /\ d # Zero => R \in Pending'
      /\ voice_volume # 0 => V \in Pending'
      /\ \A r \in Pending' : (r = R /\ d # Zero) \/ (r = V /\ voice_volume # 0) \/ r = T
  BY <1>c, <1>d, <1>3, <1>4
<1>6. R[1] = "route" /\ R[2] = d /\ V[1] = "volume" /\ V[2] = voice_volume /\ T[1] = "twomic"
  BY DEF R, T, V
<1>7. \A r \in Pending' : \/ (r[1] = "route" /\ r[2] = d /\ d # Zero)
                         \/ (r[1] = "volume" /\ r[2] = voice_volume /\ voice_volume # 0)
                         \/ r[1] = "twomic"
  BY <1>5, <1>6
<1> QED BY <1>4, <1>5, <1>7 DEF EnterTodoIs, R, V

LEMMA LeaveTodo ==
  ASSUME TypeOK, NEW t, LeaveCall(t)
  PROVE  /\ todo' \in Seq(Requests) /\ Len(todo') <= 3
         /\ mode # InCall => todo' = <<>> /\ Pending' = {}
         /\ mode = InCall => <<"codec_stop", Zero>> \in Pending'
         /\ mode = InCall /\ ril => <<"ril_close", Zero>> \in Pending'
         /\ \A r \in Pending' : \/ r[1] = "codec_stop"
                               \/ (ril /\ r[1] \in {"twomic", "ril_close"})
         /\ \A i \in 1..Len(todo') : todo'[i][1] = "ril_close" => i = Len(todo')
<1> DEFINE T == <<"twomic", FALSE>>
           S == <<"codec_stop", Zero>>
           C == <<"ril_close", Zero>>
<1>1. todo' = IF mode = InCall THEN IF ril THEN <<T>> \o <<S>> \o <<C>> ELSE <<S>> ELSE <<>>
  BY DEF LeaveCall, Leave, Locked, TwoMicOff, Stop, Close
<1>2. T \in Requests /\ S \in Requests /\ C \in Requests
  BY RequestsExist
<1>3. T[1] # "ril_close" /\ S[1] # "ril_close"
  OBVIOUS
<1> HIDE DEF T, S, C
<1>4. todo' = IF mode = InCall THEN IF ril THEN <<T, S, C>> ELSE <<S>> ELSE <<>>
  BY <1>1, <1>2, Concatenated
<1>5. todo' \in Seq(Requests) /\ Len(todo') <= 3
  BY <1>2, <1>4
<1>6. \A i \in 1..Len(todo') : todo'[i][1] = "ril_close" => i = Len(todo')
  BY <1>3, <1>4
<1>7. Pending' = IF mode = InCall THEN IF ril THEN {T, S, C} ELSE {S} ELSE {}
  BY <1>4, PendingIs
<1>8. /\ mode = InCall => S \in Pending'
      /\ mode = InCall /\ ril => C \in Pending'
      /\ \A r \in Pending' : r = S \/ (ril /\ r \in {T, C})
  BY <1>7
<1>9. mode # InCall => todo' = <<>> /\ Pending' = {}
  BY <1>4, <1>7
<1>10. T[1] = "twomic" /\ S[1] = "codec_stop" /\ C[1] = "ril_close"
  BY DEF T, S, C
<1>11. \A r \in Pending' : r[1] = "codec_stop" \/ (ril /\ r[1] \in {"twomic", "ril_close"})
  BY <1>8, <1>10
<1> QED BY <1>5, <1>6, <1>8, <1>9, <1>11 DEF S, C

\* EnterCall with the device it read and what switching left of the mixer.
EnterWith(t, d, m) ==
  /\ call[t] = <<"mode", InCall>>
  /\ raced' = (raced \/ mode = InCall)
  /\ uaf' = (uaf \/ stream_out = Freed)
  /\ asked' = Zero
  /\ codec' = TRUE
  /\ lost' = IF ril THEN lost + 1 ELSE lost
  /\ path' = Zero /\ volume' = NoVolume /\ twomic' = FALSE /\ muted' = Unset
  /\ mixer_device(m, IF m.on THEN {} ELSE {"modem"}, d)
  /\ UNCHANGED <<field, stream_out, unclosed>>

LEMMA EnterCases ==
  ASSUME NEW t, EnterCall(t)
  PROVE  \E d \in StreamDevice, m \in modem_state(TRUE) :
            EnterWith(t, d, m) /\ (ril_open(t, d) \/ ril_open_fails(t))
  BY DEF EnterCall, EnterWith

\* What the mixer is and has missed when the modem side was told the device d.
LEMMA MixerTold ==
  ASSUME NEW m \in [on : BOOLEAN, device : SomeDevice], NEW known \in SUBSET Part,
         NEW d \in SomeDevice, mixer_device(m, known, d)
  PROVE  /\ mixer' \in [on : BOOLEAN, device : SomeDevice] /\ missed' \subseteq Part
         /\ mixer'.on = m.on
         /\ m.on /\ d # Zero /\ "device" \notin missed' => mixer'.device = d
         /\ \A part \in Part \ {"device"} : part \in missed' <=> part \in known
  BY DEF mixer_device, Part

LEMMA MixerSwitched ==
  ASSUME TypeOK, NEW on \in BOOLEAN, NEW m \in modem_state(on)
  PROVE  /\ m \in [on : BOOLEAN, device : SomeDevice]
         /\ mixer.on = on => m = mixer
  BY DEF modem_state, TypeOK, SomeDevice

LEMMA OneTodo ==
  ASSUME NEW r \in Requests
  PROVE  <<r>> \in Seq(Requests) /\ Len(<<r>>) = 1 /\ Range(<<r>>) = {r}
         /\ <<>> \in Seq(Requests) /\ Len(<<>>) = 0 /\ Range(<<>>) = {}
  BY ShortRanges

-----------------------------------------------------------------------------
(* Each step keeps the invariant.  The typing of the Boolean variables is   *)
(* proved apart from that of the others.                                    *)

DeviceIInv == TypeOK /\ DeviceInv

Flags ==
  /\ ril \in BOOLEAN /\ ril_held \in BOOLEAN /\ codec \in BOOLEAN /\ twomic \in BOOLEAN
  /\ raced \in BOOLEAN /\ unclosed \in BOOLEAN /\ uaf \in BOOLEAN
  /\ mixer \in [on : BOOLEAN, device : SomeDevice]

Values ==
  /\ mode \in Modes
  /\ voice_volume \in Volumes /\ mic_mute \in Mutes
  /\ stream_out \in SomeDevice \cup {NoStream, Freed}
  /\ ril_device \in SomeDevice /\ clients \in 0..MaxClients
  /\ path \in AudioPath \cup {Zero} /\ muted \in Mutes \cup {Unset}
  /\ volume \in (Volumes \cup {Unset}) \X SoundType
  /\ missed \subseteq Part /\ lost \in 0..MaxClients
  /\ dlock \in Caller \cup {NoOne}
  /\ call \in [Caller -> Calls]
  /\ todo \in Seq(Requests) /\ Len(todo) <= 3
  /\ asked \in SomeDevice

LEMMA PathsAndTypes ==
  /\ \A d : PathOf(d) \in AudioPath /\ TypeOf(d) \in SoundType
  /\ NoVolume \in (Volumes \cup {Unset}) \X SoundType
  BY DEF PathOf, TypeOf, AudioPath, SoundType, NoVolume

LEMMA CallsExist ==
  /\ NoCall \in Calls /\ <<"close", Zero>> \in Calls
  /\ \A m \in Modes : <<"mode", m>> \in Calls
  /\ \A v \in Volumes : <<"volume", v>> \in Calls
  /\ \A x \in Mutes : <<"mute", x>> \in Calls
  /\ \A d \in SomeDevice : <<"route", d>> \in Calls /\ <<"open", d>> \in Calls
  BY DEF Calls, NoCall

USE CallTypes, ParameterFacts, PendingIs
USE DEF field, rilstate, modem, told, proc, history, vars, Caller, Binder, SomeDevice,
        NoCall, Locked, Begin, Request, In, Entering, Leaving, Waits,
        DeviceIInv, DeviceInv, TypeOK, RequestsOfCall

LEMMA ReturnKeeps ==
  ASSUME DeviceIInv, NEW t \in Caller, Return(t)
  PROVE  DeviceIInv'
<1>1. Flags'
  BY DEF Return, Done, Flags
<1>2. Values'
  BY CallsExist, RequestsExist DEF Return, Done, Flags, Values, Unset, Clients
<1>3. DeviceInv'
  BY DEF Return, Done, ModemSide, Clients, VolumeComes, VolumeTold, MuteTold, RouteComes
<1> QED BY <1>1, <1>2, <1>3 DEF Flags, Values

LEMMA EnterCallOpenedKeeps ==
  ASSUME DeviceIInv, NEW t \in Caller, NEW d \in StreamDevice, NEW m \in modem_state(TRUE),
         EnterWith(t, d, m), ril_open(t, d), EnterTodoIs(d)
  PROVE  DeviceIInv'
<1>1. d \in SomeDevice /\ (stream_out \in SomeDevice => d = stream_out)
  BY DeviceFound
<1>2. m \in [on : BOOLEAN, device : SomeDevice]
  BY MixerSwitched
<1>3. /\ mixer' \in [on : BOOLEAN, device : SomeDevice] /\ missed' \subseteq Part
      /\ mixer'.on = m.on
      /\ m.on /\ d # Zero /\ "device" \notin missed' => mixer'.device = d
      /\ "modem" \in missed' <=> ~m.on
      /\ missed' \cap {"route", "volume", "type", "mute"} = {}
  <2> DEFINE known == IF m.on THEN {} ELSE {"modem"}
  <2>1. known \in SUBSET Part /\ mixer_device(m, known, d)
    BY DEF Part, EnterWith
  <2> HIDE DEF known
  <2>2. /\ mixer' \in [on : BOOLEAN, device : SomeDevice] /\ missed' \subseteq Part
        /\ mixer'.on = m.on
        /\ m.on /\ d # Zero /\ "device" \notin missed' => mixer'.device = d
        /\ \A part \in Part \ {"device"} : part \in missed' <=> part \in known
    BY <1>1, <1>2, <2>1, MixerTold
  <2> QED BY <2>2 DEF known, Part
<1>4. Flags'
  BY <1>3 DEF EnterWith, ril_open, EnterTodoIs, Flags
<1>5. Values'
  BY <1>1, <1>3, CallsExist, PathsAndTypes
  DEF EnterWith, ril_open, EnterTodoIs, Values, Unset, Clients
<1>6. RequestsOfCall' /\ ModemSide' /\ Clients'
  BY <1>1, <1>3, PendingHas DEF EnterWith, ril_open, EnterTodoIs, ModemSide, Clients
<1>7. VolumeComes' /\ RouteComes'
  BY <1>1, <1>3 DEF EnterWith, ril_open, EnterTodoIs, VolumeComes, VolumeTold, RouteComes
<1> QED BY <1>4, <1>5, <1>6, <1>7 DEF Flags, Values

LEMMA EnterCallUnopenedKeeps ==
  ASSUME DeviceIInv, NEW t \in Caller, NEW d \in StreamDevice, NEW m \in modem_state(TRUE),
         EnterWith(t, d, m), ril_open_fails(t)
  PROVE  DeviceIInv'
<1>1. d \in SomeDevice /\ (stream_out \in SomeDevice => d = stream_out)
  BY DeviceFound
<1>2. m \in [on : BOOLEAN, device : SomeDevice]
  BY MixerSwitched
<1>3. /\ mixer' \in [on : BOOLEAN, device : SomeDevice] /\ missed' \subseteq Part
      /\ mixer'.on = m.on
      /\ m.on /\ d # Zero /\ "device" \notin missed' => mixer'.device = d
      /\ "modem" \in missed' <=> ~m.on
      /\ missed' \cap {"route", "volume", "type", "mute"} = {}
  <2> DEFINE known == IF m.on THEN {} ELSE {"modem"}
  <2>1. known \in SUBSET Part /\ mixer_device(m, known, d)
    BY DEF Part, EnterWith
  <2> HIDE DEF known
  <2>2. /\ mixer' \in [on : BOOLEAN, device : SomeDevice] /\ missed' \subseteq Part
        /\ mixer'.on = m.on
        /\ m.on /\ d # Zero /\ "device" \notin missed' => mixer'.device = d
        /\ \A part \in Part \ {"device"} : part \in missed' <=> part \in known
    BY <1>1, <1>2, <2>1, MixerTold
  <2> QED BY <2>2 DEF known, Part
<1>4. Flags'
  BY <1>3 DEF EnterWith, ril_open_fails, Flags
<1>5. Values'
  BY <1>1, <1>3, CallsExist, PathsAndTypes
  DEF EnterWith, ril_open_fails, Values, Unset, Clients
<1>6. RequestsOfCall' /\ ModemSide' /\ Clients'
  BY <1>1, <1>3, PendingHas DEF EnterWith, ril_open_fails, ModemSide, Clients
<1>7. VolumeComes' /\ RouteComes'
  BY <1>1, <1>3 DEF EnterWith, ril_open_fails, VolumeComes, VolumeTold, RouteComes
<1> QED BY <1>4, <1>5, <1>6, <1>7 DEF Flags, Values

LEMMA LeaveCallKeeps ==
  ASSUME DeviceIInv, NEW t \in Caller, LeaveCall(t)
  PROVE  DeviceIInv'
<1>1. /\ mixer' \in [on : BOOLEAN, device : SomeDevice] /\ missed' \subseteq Part
      /\ mixer'.on => mixer' = mixer
      /\ mode = InCall => ("modem" \notin missed' => ~mixer'.on) /\ muted' = Unset
      /\ mode # InCall => mixer' = mixer /\ missed' = missed /\ muted' = muted
      /\ "device" \notin missed' /\ mixer'.on => "device" \notin missed
      /\ \A part \in {"route", "volume", "type"} : part \in missed' <=> part \in missed
  <2>1. CASE mode = InCall
    <3>1. mixer' \in {mixer, [on |-> FALSE, device |-> Zero]}
      BY <2>1 DEF LeaveCall, Leave, modem_state
    <3>2. mixer' \in [on : BOOLEAN, device : SomeDevice] /\ (mixer'.on => mixer' = mixer)
      <4>1. mixer \in [on : BOOLEAN, device : SomeDevice] /\ Zero \in SomeDevice
        OBVIOUS
      <4>2. [on |-> FALSE, device |-> Zero] \in [on : BOOLEAN, device : SomeDevice]
        BY <4>1
      <4>3. ~[on |-> FALSE, device |-> Zero].on
        OBVIOUS
      <4> QED BY <3>1, <4>1, <4>2, <4>3, Zenon
    <3>3. /\ muted' = Unset
          /\ missed' = IF mixer'.on THEN (missed \cup {"modem"}) \ {"mute"}
                       ELSE missed \ {"modem", "device", "mute"}
      BY <2>1 DEF LeaveCall, Leave
    <3> QED BY <2>1, <3>2, <3>3 DEF Part
  <2>2. CASE mode # InCall
    BY <2>2 DEF LeaveCall, Leave
  <2> QED BY <2>1, <2>2
<1>2. Flags'
  BY <1>1 DEF LeaveCall, Leave, Flags
<1>3. muted' \in Mutes \cup {Unset}
  BY <1>1
<1>4. Values'
  BY <1>1, <1>3, LeaveTodo, CallsExist DEF LeaveCall, Leave, Values
<1>5. /\ dlock' = t /\ dlock = NoOne /\ call' = call /\ Leaving(t)'
      /\ UNCHANGED <<mode, ril, clients, lost, raced, unclosed, codec>>
  BY DEF LeaveCall, Leave
<1>6. Clients'
  BY <1>5, LeaveTodo DEF Clients
<1>7. RequestsOfCall'
  BY <1>5, LeaveTodo
<1>8. codec' => Waits("codec_stop")'
  BY <1>5, LeaveTodo DEF ModemSide
<1>9. "modem" \notin missed' => ~mixer'.on
  BY <1>5, <1>1 DEF ModemSide
<1>10. ModemSide'
  BY <1>5, <1>8, <1>9 DEF ModemSide
<1>11. VolumeComes'
  BY <1>1, LeaveTodo DEF LeaveCall, Leave, VolumeComes, VolumeTold, MuteTold
<1>12. RouteComes'
  BY <1>1, LeaveTodo DEF LeaveCall, Leave, RouteComes
<1> QED BY <1>2, <1>4, <1>7, <1>6, <1>10, <1>11, <1>12 DEF Flags, Values

LEMMA VoiceVolumeKeeps ==
  ASSUME DeviceIInv, NEW t \in Caller, VoiceVolume(t)
  PROVE  DeviceIInv'
<1>1. Flags'
  BY DEF VoiceVolume, Flags
<1>2. Values'
  BY OneTodo, CallsExist, RequestsExist DEF VoiceVolume, Flags, Values, Unset, Clients
<1>3. DeviceInv'
  BY OneTodo
  DEF VoiceVolume, ModemSide, Clients, VolumeComes, VolumeTold, MuteTold, RouteComes
<1> QED BY <1>1, <1>2, <1>3 DEF Flags, Values

LEMMA MicMuteKeeps ==
  ASSUME DeviceIInv, NEW t \in Caller, MicMute(t)
  PROVE  DeviceIInv'
<1>1. Flags'
  BY DEF MicMute, Flags
<1>2. Values'
  BY CallsExist, RequestsExist DEF MicMute, Flags, Values, Unset, Clients, Part
<1>3. DeviceInv'
  BY DEF MicMute, ModemSide, Clients, VolumeComes, VolumeTold, MuteTold, RouteComes
<1> QED BY <1>1, <1>2, <1>3 DEF Flags, Values

LEMMA RouteOpenedKeeps ==
  ASSUME DeviceIInv, NEW t \in Caller, RouteOpened(t)
  PROVE  DeviceIInv'
<1>1. call[t][2] \in SomeDevice
  BY DEF RouteOpened
<1>2. /\ mixer' \in [on : BOOLEAN, device : SomeDevice] /\ missed' \subseteq Part
      /\ mixer'.on = mixer.on
      /\ \A part \in Part \ {"device"} : part \in missed' <=> part \in missed
      /\ mixer'.on /\ "device" \notin missed' /\ stream_out' \in OutDevices =>
           mixer'.device = stream_out'
  BY <1>1, MixerTold DEF RouteOpened
<1>3. Flags'
  BY <1>2 DEF RouteOpened, Flags
<1>4. Values'
  BY <1>1, <1>2 DEF RouteOpened, Values, Unset
<1>5. RequestsOfCall' /\ ModemSide' /\ Clients'
  BY <1>2 DEF RouteOpened, ModemSide, Clients, Part
<1>6. VolumeComes' /\ RouteComes'
  BY <1>2 DEF RouteOpened, VolumeComes, VolumeTold, MuteTold, RouteComes, Part
<1> QED BY <1>3, <1>4, <1>5, <1>6 DEF Flags, Values

LEMMA ForgetKeeps ==
  ASSUME DeviceIInv, NEW t \in Caller, Forget(t)
  PROVE  DeviceIInv'
<1>1. Flags'
  BY DEF Forget, Flags
<1>2. Values'
  BY CallsExist, RequestsExist DEF Forget, Flags, Values, Unset, Clients
<1>3. DeviceInv'
  BY DEF Forget, ModemSide, Clients, VolumeComes, VolumeTold, MuteTold, RouteComes
<1> QED BY <1>1, <1>2, <1>3 DEF Flags, Values

LEMMA RilRouteKeeps ==
  ASSUME DeviceIInv, NEW t \in Caller, RilRoute(t)
  PROVE  DeviceIInv'
<1>1. Flags'
  BY DEF RilRoute, Flags
<1>2. Values'
  BY RequestMade, RequestTypes, PathsAndTypes
  DEF RilRoute, Values, Unset, Part
<1>3. RequestsOfCall' /\ ModemSide' /\ Clients'
  BY RequestMade, RequestTypes DEF RilRoute, ModemSide, Clients
<1>4. VolumeComes' /\ RouteComes'
  BY RequestMade, RequestTypes
  DEF RilRoute, VolumeComes, VolumeTold, MuteTold, RouteComes
<1> QED BY <1>1, <1>2, <1>3, <1>4 DEF Flags, Values

LEMMA RilVolumeKeeps ==
  ASSUME DeviceIInv, NEW t \in Caller, RilVolume(t)
  PROVE  DeviceIInv'
<1>1. Flags'
  BY DEF RilVolume, Flags
<1>2. Values'
  BY RequestMade, RequestTypes, PathsAndTypes
  DEF RilVolume, Values, Unset, Part
<1>3. RequestsOfCall' /\ ModemSide' /\ Clients'
  BY RequestMade, RequestTypes DEF RilVolume, ModemSide, Clients
<1>4. \/ Entering(t) /\ Head(todo)[2] = voice_volume
      \/ In(t, "volume") /\ Head(todo)[2] = call[t][2]
  <2>1. /\ dlock = t /\ Head(todo) \in Pending /\ Head(todo)[1] = "volume"
    BY RequestMade DEF RilVolume
  <2> QED BY <2>1
<1>5. /\ "volume" \notin missed' =>
           volume'[1] = Head(todo)[2] /\ volume'[2] = TypeOf(ril_device)
      /\ \A part \in Part \ {"volume", "type"} : part \in missed' <=> part \in missed
      /\ Waits("route") <=> Waits("route")'
  <2>1. Waits("route") <=> Waits("route")'
    BY RequestMade DEF RilVolume
  <2> QED BY <2>1 DEF RilVolume, Part
<1>6. VolumeComes'
  BY <1>4, <1>5 DEF RilVolume, VolumeComes, VolumeTold, MuteTold, Part
<1>7. RouteComes'
  BY <1>5 DEF RilVolume, RouteComes, Part
<1> QED BY <1>1, <1>2, <1>3, <1>6, <1>7 DEF Flags, Values

LEMMA RilTwoMicKeeps ==
  ASSUME DeviceIInv, NEW t \in Caller, RilTwoMic(t)
  PROVE  DeviceIInv'
<1>0. Head(todo)[2] \in BOOLEAN
  BY RequestMade, RequestTypes DEF RilTwoMic
<1>1. Flags'
  BY <1>0 DEF RilTwoMic, Flags
<1>2. Values'
  BY RequestMade, RequestTypes, PathsAndTypes
  DEF RilTwoMic, Values, Unset, Part
<1>3. RequestsOfCall' /\ ModemSide' /\ Clients'
  BY RequestMade, RequestTypes DEF RilTwoMic, ModemSide, Clients
<1>4. VolumeComes' /\ RouteComes'
  BY RequestMade, RequestTypes
  DEF RilTwoMic, VolumeComes, VolumeTold, MuteTold, RouteComes
<1> QED BY <1>1, <1>2, <1>3, <1>4 DEF Flags, Values

LEMMA RilUnreachableKeeps ==
  ASSUME DeviceIInv, NEW t \in Caller, NEW name \in {"route", "twomic", "volume"},
         RilUnreachable(t, name)
  PROVE  DeviceIInv'
<1>1. Flags'
  BY DEF RilUnreachable, Flags
<1>2. Values'
  BY RequestMade, CallsExist, RequestsExist
  DEF RilUnreachable, Flags, Values, Unset, Clients
<1>3. \A part \in Part \ {name} : part \in missed' <=> part \in missed
  BY DEF RilUnreachable
<1>4. name \in Part => name \in missed'
  BY DEF RilUnreachable
<1>5. RequestsOfCall' /\ ModemSide' /\ Clients'
  BY <1>3, RequestMade DEF RilUnreachable, ModemSide, Clients, Part
<1>6. VolumeComes'
  BY <1>3, <1>4, RequestMade DEF RilUnreachable, VolumeComes, VolumeTold, MuteTold, Part
<1>7. RouteComes'
  BY <1>3, <1>4, RequestMade DEF RilUnreachable, RouteComes, Part
<1> QED BY <1>1, <1>2, <1>5, <1>6, <1>7 DEF Flags, Values

LEMMA CodecStopKeeps ==
  ASSUME DeviceIInv, NEW t \in Caller, CodecStop(t)
  PROVE  DeviceIInv'
<1>1. Flags'
  BY DEF CodecStop, Flags
<1>2. Values'
  BY RequestMade, CallsExist, RequestsExist DEF CodecStop, Flags, Values, Unset, Clients
<1>3. DeviceInv'
  BY RequestMade
  DEF CodecStop, ModemSide, Clients, VolumeComes, VolumeTold, MuteTold, RouteComes
<1> QED BY <1>1, <1>2, <1>3 DEF Flags, Values

LEMMA RilCloseFailsKeeps ==
  ASSUME DeviceIInv, NEW t \in Caller, RilCloseFails(t)
  PROVE  DeviceIInv'
<1>1. Flags'
  BY DEF RilCloseFails, Flags
<1>2. Values'
  BY RequestMade, CallsExist, RequestsExist
  DEF RilCloseFails, Flags, Values, Unset, Clients
<1>3. DeviceInv'
  BY RequestMade
  DEF RilCloseFails, ModemSide, Clients, VolumeComes, VolumeTold, MuteTold, RouteComes
<1> QED BY <1>1, <1>2, <1>3 DEF Flags, Values

LEMMA RilCloseKeeps ==
  ASSUME DeviceIInv, NEW t \in Caller, RilClose(t)
  PROVE  DeviceIInv'
<1>1. Flags'
  BY DEF RilClose, Closed, Flags
<1>2. Values'
  <2>1. ril /\ clients' \in 0..MaxClients
    BY RequestMade DEF RilClose, Closed, Clients
  <2> QED BY <2>1, RequestMade, PathsAndTypes DEF RilClose, Closed, Values
<1>3. RequestsOfCall' /\ ModemSide' /\ Clients'
  BY RequestMade DEF RilClose, Closed, ModemSide, Clients
<1>4. VolumeComes' /\ RouteComes'
  BY RequestMade
  DEF RilClose, Closed, VolumeComes, VolumeTold, MuteTold, ModemSide, RouteComes
<1> QED BY <1>1, <1>2, <1>3, <1>4 DEF Flags, Values

LEMMA SetModeKeeps ==
  ASSUME DeviceIInv, NEW t \in Binder, NEW m \in Modes, SetMode(t, m)
  PROVE  DeviceIInv'
<1>1. Flags'
  BY DEF SetMode, Flags
<1>2. Values'
  BY CallsExist, RequestsExist DEF SetMode, Flags, Values, Unset, Clients
<1>3. DeviceInv'
  BY DEF SetMode, ModemSide, Clients, VolumeComes, VolumeTold, MuteTold, RouteComes
<1> QED BY <1>1, <1>2, <1>3 DEF Flags, Values

LEMMA SetVoiceVolumeKeeps ==
  ASSUME DeviceIInv, NEW v \in Volumes, SetVoiceVolume("binder1", v)
  PROVE  DeviceIInv'
<1>1. Flags'
  BY DEF SetVoiceVolume, Flags
<1>2. Values'
  BY CallsExist, RequestsExist DEF SetVoiceVolume, Flags, Values, Unset, Clients
<1>3. DeviceInv'
  BY DEF SetVoiceVolume, ModemSide, Clients, VolumeComes, VolumeTold, MuteTold, RouteComes
<1> QED BY <1>1, <1>2, <1>3 DEF Flags, Values

LEMMA SetMicMuteKeeps ==
  ASSUME DeviceIInv, NEW x \in Mutes, SetMicMute("binder2", x)
  PROVE  DeviceIInv'
<1>1. Flags'
  BY DEF SetMicMute, Flags
<1>2. Values'
  BY CallsExist, RequestsExist DEF SetMicMute, Flags, Values, Unset, Clients
<1>3. DeviceInv'
  BY DEF SetMicMute, ModemSide, Clients, VolumeComes, VolumeTold, MuteTold, RouteComes
<1> QED BY <1>1, <1>2, <1>3 DEF Flags, Values

LEMMA RouteKeeps ==
  ASSUME DeviceIInv, NEW t \in Caller, NEW d \in SomeDevice, Route(t, d)
  PROVE  DeviceIInv'
<1>1. /\ mixer' \in [on : BOOLEAN, device : SomeDevice] /\ missed' \subseteq Part
      /\ mixer'.on = mixer.on
      /\ \A part \in Part \ {"device"} : part \in missed' <=> part \in missed
      /\ mixer'.on /\ "device" \notin missed' /\ stream_out' \in OutDevices =>
           mixer'.device = stream_out'
  <2>1. CASE stream_out \in SomeDevice \ {d}
    <3>1. d = stream_out' /\ mixer_device(mixer, missed, d)
      BY <2>1 DEF Route, Routing
    <3>2. mixer \in [on : BOOLEAN, device : SomeDevice] /\ missed \in SUBSET Part
      OBVIOUS
    <3>3. /\ mixer' \in [on : BOOLEAN, device : SomeDevice] /\ missed' \subseteq Part
          /\ mixer'.on = mixer.on
          /\ mixer.on /\ d # Zero /\ "device" \notin missed' => mixer'.device = d
          /\ \A part \in Part \ {"device"} : part \in missed' <=> part \in missed
      BY <3>1, <3>2, MixerTold
    <3> QED BY <3>1, <3>3
  <2>2. CASE stream_out \notin SomeDevice \ {d}
    BY <2>2 DEF Route, Routing, RouteComes
  <2> QED BY <2>1, <2>2
<1>2. Flags'
  BY <1>1 DEF Route, Routing, Flags
<1>3. dlock' \in Caller \cup {NoOne} /\ call' \in [Caller -> Calls]
  BY CallsExist DEF Route, Routing
<1>4. Values'
  BY <1>1, <1>3, OneTodo, RequestsExist DEF Route, Routing, Values, Unset
<1>5. RequestsOfCall' /\ ModemSide' /\ Clients'
  BY <1>1, OneTodo DEF Route, Routing, ModemSide, Clients, Part
<1>6. VolumeComes' /\ RouteComes'
  BY <1>1, OneTodo
  DEF Route, Routing, VolumeComes, VolumeTold, MuteTold, RouteComes, Part
<1> QED BY <1>2, <1>4, <1>5, <1>6 DEF Flags, Values

LEMMA OpenStreamKeeps ==
  ASSUME DeviceIInv, NEW d \in SomeDevice, OpenStream(d)
  PROVE  DeviceIInv'
<1>1. Flags'
  BY DEF OpenStream, Flags
<1>2. Values'
  BY CallsExist, RequestsExist DEF OpenStream, Flags, Values, Unset, Clients
<1>3. DeviceInv'
  BY DEF OpenStream, ModemSide, Clients, VolumeComes, VolumeTold, MuteTold, RouteComes
<1> QED BY <1>1, <1>2, <1>3 DEF Flags, Values

LEMMA OpenStreamFailsKeeps ==
  ASSUME DeviceIInv, OpenStreamFails
  PROVE  DeviceIInv'
<1>1. Flags'
  BY DEF OpenStreamFails, Flags
<1>2. Values'
  BY CallsExist, RequestsExist DEF OpenStreamFails, Flags, Values, Unset, Clients
<1>3. DeviceInv'
  BY DEF OpenStreamFails, ModemSide, Clients, VolumeComes, VolumeTold, MuteTold, RouteComes
<1> QED BY <1>1, <1>2, <1>3 DEF Flags, Values

LEMMA CloseStreamKeeps ==
  ASSUME DeviceIInv, CloseStream
  PROVE  DeviceIInv'
<1>1. Flags'
  BY DEF CloseStream, Flags
<1>2. Values'
  BY CallsExist, RequestsExist DEF CloseStream, Flags, Values, Unset, Clients
<1>3. DeviceInv'
  BY DEF CloseStream, ModemSide, Clients, VolumeComes, VolumeTold, MuteTold, RouteComes
<1> QED BY <1>1, <1>2, <1>3 DEF Flags, Values

LEMMA StutterKeeps ==
  ASSUME DeviceIInv, UNCHANGED vars
  PROVE  DeviceIInv'
<1>1. Flags'
  BY DEF Flags
<1>2. Values'
  BY CallsExist, RequestsExist DEF Flags, Values, Unset, Clients
<1>3. DeviceInv'
  BY DEF ModemSide, Clients, VolumeComes, VolumeTold, MuteTold, RouteComes
<1> QED BY <1>1, <1>2, <1>3 DEF Flags, Values

-----------------------------------------------------------------------------
(* The theorems. *)

LEMMA InitHolds == Init => DeviceIInv
<1> SUFFICES ASSUME Init PROVE DeviceIInv
  OBVIOUS
<1>1. Flags
  BY DEF Init, Flags
<1>5. Values
  BY CallsExist, PathsAndTypes DEF Init, Values, Unset, Mutes
<1>2. todo = <<>> /\ dlock = NoOne /\ Pending = {} /\ NoOne \notin Caller
  BY DEF Init
<1>3. RequestsOfCall /\ ModemSide /\ Clients
  BY <1>2 DEF Init, ModemSide, Clients
<1>4. VolumeComes /\ RouteComes
  BY <1>2 DEF Init, VolumeComes, VolumeTold, MuteTold, RouteComes, Unset
<1> QED BY <1>1, <1>3, <1>4, <1>5 DEF Flags, Values

LEMMA EnterCallKeeps ==
  ASSUME DeviceIInv, NEW t \in Caller, EnterCall(t)
  PROVE  DeviceIInv'
<1>1. PICK d \in StreamDevice, m \in modem_state(TRUE) :
        EnterWith(t, d, m) /\ (ril_open(t, d) \/ ril_open_fails(t))
  BY EnterCases
<1>2. d \in SomeDevice
  BY DeviceFound
<1>3. CASE ril_open(t, d)
  BY <1>1, <1>2, <1>3, EnterTodo, EnterCallOpenedKeeps
<1>4. CASE ril_open_fails(t)
  BY <1>1, <1>4, EnterCallUnopenedKeeps
<1> QED BY <1>1, <1>3, <1>4

LEMMA NextKeeps ==
  ASSUME DeviceIInv, [Next]_vars
  PROVE  DeviceIInv'
<1> HIDE DEF DeviceIInv
<1>1. ASSUME NEW t \in Caller, Step(t) PROVE DeviceIInv'
  BY <1>1, ReturnKeeps, EnterCallKeeps, LeaveCallKeeps, VoiceVolumeKeeps, MicMuteKeeps,
     RouteOpenedKeeps, ForgetKeeps, RilRouteKeeps, RilVolumeKeeps, RilTwoMicKeeps, RilUnreachableKeeps,
     CodecStopKeeps, RilCloseKeeps, RilCloseFailsKeeps
  DEF Step
<1>2. ASSUME NEW t \in Binder, NEW m \in Modes, SetMode(t, m) PROVE DeviceIInv'
  BY <1>2, SetModeKeeps
<1>3. ASSUME NEW t \in Caller, NEW d \in SomeDevice, Route(t, d) PROVE DeviceIInv'
  BY <1>3, RouteKeeps
<1>4. ASSUME NEW v \in Volumes, SetVoiceVolume("binder1", v) PROVE DeviceIInv'
  BY <1>4, SetVoiceVolumeKeeps
<1>5. ASSUME NEW x \in Mutes, SetMicMute("binder2", x) PROVE DeviceIInv'
  BY <1>5, SetMicMuteKeeps
<1>6. ASSUME NEW d \in SomeDevice, OpenStream(d) PROVE DeviceIInv'
  BY <1>6, OpenStreamKeeps
<1>7. OpenStreamFails => DeviceIInv'
  BY OpenStreamFailsKeeps
<1>8. CloseStream => DeviceIInv'
  BY CloseStreamKeeps
<1>9. UNCHANGED vars => DeviceIInv'
  BY StutterKeeps
<1>10. OutDevices \subseteq SomeDevice /\ Asked \subseteq SomeDevice
  OBVIOUS
<1> QED BY <1>1, <1>2, <1>3, <1>4, <1>5, <1>6, <1>7, <1>8, <1>9, <1>10
        DEF Next, SetParameters, StreamSetParameters

\* Whatever the calls of the binder threads and of the player overlap, and
\* however the mixer and the RIL fail, what the call in the lock has yet to bring in line is
\* among the requests it has still to make.
THEOREM DeviceCorrect == Spec => []DeviceIInv
<1>1. Init => DeviceIInv
  BY InitHolds
<1>2. DeviceIInv /\ [Next]_vars => DeviceIInv'
  BY NextKeeps
<1> QED BY <1>1, <1>2, PTL DEF Spec

\* The device, its interface, the mixer and the codec keep their types, the
\* clients within their bound.
THEOREM TypeCorrect == Spec => []TypeOK
<1>1. DeviceIInv => TypeOK
  OBVIOUS
<1> QED BY <1>1, DeviceCorrect, PTL

\* Between calls the modem side of the codec is on exactly during a call, and
\* that of the mixer too unless it failed to be switched last (audio_hw_set_mode).
THEOREM ModemCorrect == Spec => []ModemFollowsMode
<1>1. DeviceIInv => ModemFollowsMode
  BY DEF ModemFollowsMode, ModemSide
<1> QED BY <1>1, DeviceCorrect, PTL

\* Between calls the RIL clients of the process are the one the device knows, in
\* a call, and those it forgot: none, unless set_mode raced or a client could not
\* be closed (audio_hw_set_mode, audio_ril_interface_close).
THEOREM OneClientCorrect == Spec => []OneClient
<1>1. DeviceIInv => OneClient
  BY DEF OneClient, Clients
<1> QED BY <1>1, DeviceCorrect, PTL

\* Between calls, during a call, the modem has the device's volume, for the sound
\* type of its device if no route changed the type since, and the mixer its mute,
\* as far as the last request of each was done.
THEOREM VolumeCorrect == Spec => []VolumeInForce
<1>1. ASSUME DeviceIInv, dlock = NoOne PROVE Pending = {}
  BY <1>1
<1>2. DeviceIInv => VolumeInForce
  BY <1>1 DEF VolumeInForce, VolumeComes, VolumeTold, MuteTold
<1> QED BY <1>2, DeviceCorrect, PTL

\* Between calls, during a call, the stream is on the device that was asked for
\* last, and so are the modem's path and the modem side of the mixer, as far as
\* the last request of each was done.
THEOREM RoutesCorrect == Spec => []RoutesAgree
<1>1. ASSUME DeviceIInv, dlock = NoOne PROVE Pending = {}
  BY <1>1
<1>2. ASSUME DeviceIInv, asked # Zero, stream_out \in SomeDevice PROVE stream_out \in OutDevices
  BY <1>2 DEF RouteComes
<1>3. DeviceIInv => RoutesAgree
  BY <1>1, <1>2 DEF RoutesAgree, RouteComes
<1> QED BY <1>3, DeviceCorrect, PTL
=============================================================================
