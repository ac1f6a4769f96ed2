---------------------------- MODULE AudioInProofs ----------------------------
(***************************************************************************)
(* The safety properties of AudioIn for every set of devices and rates,    *)
(* every period and every number of captures.  The invariant says where in *)
(* a call the stream's lock is held and which frames the buffer holds.     *)
(***************************************************************************)
EXTENDS AudioIn, TLAPS

Zeroing == {"zero_slock", "zero_body", "zero_unlock"}

\* Where each call may be, and what its argument is.
CallsAreInPlace == \A t \in Caller :
  /\ op[t] = "none" <=> pc[t] = "idle"
  /\ op[t] # "none" => open
  /\ op[t] = "read" => pc[t] \in {"slock", "body", "process", "loop", "unlock"}
  /\ op[t] \in {"standby", "rate", "format"} => pc[t] \in {"slock", "body", "unlock"}
  /\ op[t] = "route" => pc[t] \in {"slock", "body", "unlock"} \cup Zeroing
  /\ op[t] = "route" => arg[t] \in SomeDevice
  /\ pc[t] \in Zeroing => arg[t] = Zero
  /\ op[t] = "rate" => arg[t] \in Rates
  /\ op[t] = "format" => arg[t] \in Format

\* The stream's lock is held to the last unlock, except that a route to device
\* 0 has given it up already when it comes to that unlock.
HoldsStream(t) ==
  \/ pc[t] \in {"body", "process", "loop", "zero_body", "zero_unlock"}
  \/ pc[t] = "unlock" /\ ~(op[t] = "route" /\ arg[t] = Zero)

StreamLockIsHeld == ~robbed => \A t \in Caller : slock = t <=> HoldsStream(t)

Recording == open /\ ~standby

\* The stream, its pcm and the codec, whoever holds the lock.
RecordingIsSetUp ==
  /\ Recording => pcm # 0 /\ codec
  /\ codec => Recording \/ abrupt

\* Frames that are left in the buffer are the pcm's, unless they were carried
\* over.
FramesAreFresh ==
  /\ frames_left > 0 /\ buffer # pcm => carried
  /\ spoilt => carried

StreamInv ==
  /\ CallsAreInPlace /\ StreamLockIsHeld
  /\ RecordingIsSetUp /\ FramesAreFresh /\ EachFrameOnce

-----------------------------------------------------------------------------
(* Each step keeps the invariant.  The typing of the Boolean variables is   *)
(* proved apart from that of the others.                                    *)

Flags ==
  /\ open \in BOOLEAN /\ resampler \in BOOLEAN /\ standby \in BOOLEAN /\ codec \in BOOLEAN
  /\ dead \in BOOLEAN /\ spoilt \in BOOLEAN /\ carried \in BOOLEAN /\ abrupt \in BOOLEAN
  /\ robbed \in BOOLEAN

Values ==
  /\ device \in SomeDevice
  /\ rate \in Rates
  /\ format \in Format
  /\ buffer \in {NoBuffer, Unwritten} \cup Session
  /\ frames_left \in 0..Period
  /\ pcm \in {0} \cup Session
  /\ slock \in Caller \cup {NoOne}
  /\ pc \in [Caller -> Places]
  /\ op \in [Caller -> Ops]
  /\ arg \in [Caller -> SomeDevice \cup Rates \cup Format]
  /\ need \in {0} \cup Nat
  /\ session \in {0} \cup Session
  /\ used \in Nat

StreamIInv == TypeOK /\ StreamInv

USE ParameterAssumption
USE DEF config, data, play, calls, vars, Caller, Format, SomeDevice, Ops, Places, Session,
        NoBuffer, Unwritten, GoTo, Call, Release, Zeroing, CallsAreInPlace, Recording,
        TypeOK, StreamInv, StreamIInv

LEMMA LockStreamKeeps ==
  ASSUME StreamIInv, NEW t \in Caller, LockFrom(t, "slock", "body")
  PROVE  StreamIInv'
<1>1. Flags'
  BY DEF LockFrom, Flags
<1>2. Values'
  BY DEF LockFrom, Values, EachFrameOnce
<1>3. StreamInv'
  BY DEF LockFrom, StreamLockIsHeld, HoldsStream, RecordingIsSetUp, FramesAreFresh,
         EachFrameOnce
<1> QED BY <1>1, <1>2, <1>3 DEF Flags, Values

LEMMA LockZeroKeeps ==
  ASSUME StreamIInv, NEW t \in Caller, LockFrom(t, "zero_slock", "zero_body")
  PROVE  StreamIInv'
<1>1. Flags'
  BY DEF LockFrom, Flags
<1>2. Values'
  BY DEF LockFrom, Values, EachFrameOnce
<1>3. StreamInv'
  BY DEF LockFrom, StreamLockIsHeld, HoldsStream, RecordingIsSetUp, FramesAreFresh,
         EachFrameOnce
<1> QED BY <1>1, <1>2, <1>3 DEF Flags, Values

LEMMA UnlockKeeps ==
  ASSUME StreamIInv, NEW t \in Caller, Unlock(t)
  PROVE  StreamIInv'
<1>1. Flags'
  BY DEF Unlock, Flags
<1>2. Values'
  BY DEF Unlock, Values, EachFrameOnce
<1>3. StreamInv'
  BY DEF Unlock, StreamLockIsHeld, HoldsStream, RecordingIsSetUp, FramesAreFresh,
         EachFrameOnce
<1> QED BY <1>1, <1>2, <1>3 DEF Flags, Values

LEMMA ReadBodyKeeps ==
  ASSUME StreamIInv, NEW t \in Caller, ReadBody(t)
  PROVE  StreamIInv'
<1>1. Flags'
  BY DEF ReadBody, PcmOpen, Flags
<1>2. Values'
  BY DEF ReadBody, PcmOpen, Values, EachFrameOnce
<1>3. StreamInv'
  BY DEF ReadBody, PcmOpen, StreamLockIsHeld, HoldsStream, RecordingIsSetUp,
         FramesAreFresh, EachFrameOnce
<1> QED BY <1>1, <1>2, <1>3 DEF Flags, Values

LEMMA ReadProcessKeeps ==
  ASSUME StreamIInv, NEW t \in Caller, ReadProcess(t)
  PROVE  StreamIInv'
<1>1. Flags'
  BY DEF ReadProcess, Flags
<1>2. Values'
  BY DEF ReadProcess, Values, EachFrameOnce
<1>3. StreamInv'
  BY DEF ReadProcess, StreamLockIsHeld, HoldsStream, RecordingIsSetUp, FramesAreFresh,
         EachFrameOnce
<1> QED BY <1>1, <1>2, <1>3 DEF Flags, Values

LEMMA PullLeftKeeps ==
  ASSUME StreamIInv, NEW t \in Caller, PullLeft(t)
  PROVE  StreamIInv'
<1>1. Flags'
  BY DEF PullLeft, Take, release_buffer, LeastOf, Flags
<1>2. Values'
  BY DEF PullLeft, Take, release_buffer, LeastOf, Values, EachFrameOnce
<1>3. StreamInv'
  BY DEF PullLeft, Take, release_buffer, LeastOf, StreamLockIsHeld, HoldsStream,
         RecordingIsSetUp, FramesAreFresh, EachFrameOnce
<1> QED BY <1>1, <1>2, <1>3 DEF Flags, Values

LEMMA PullReadKeeps ==
  ASSUME StreamIInv, NEW t \in Caller, PullRead(t)
  PROVE  StreamIInv'
<1>1. Flags'
  BY DEF PullRead, Take, release_buffer, LeastOf, Flags
<1>2. Values'
  BY DEF PullRead, Take, release_buffer, LeastOf, Values, EachFrameOnce
<1>3. StreamInv'
  BY DEF PullRead, Take, release_buffer, LeastOf, StreamLockIsHeld, HoldsStream,
         RecordingIsSetUp, FramesAreFresh, EachFrameOnce
<1> QED BY <1>1, <1>2, <1>3 DEF Flags, Values

LEMMA StandbyBodyKeeps ==
  ASSUME StreamIInv, NEW t \in Caller, StandbyBody(t)
  PROVE  StreamIInv'
<1>1. Flags'
  BY DEF StandbyBody, Flags
<1>2. Values'
  BY DEF StandbyBody, Values, EachFrameOnce
<1>3. StreamInv'
  BY DEF StandbyBody, StreamLockIsHeld, HoldsStream, RecordingIsSetUp, FramesAreFresh,
         EachFrameOnce
<1> QED BY <1>1, <1>2, <1>3 DEF Flags, Values

LEMMA RateBodyKeeps ==
  ASSUME StreamIInv, NEW t \in Caller, RateBody(t)
  PROVE  StreamIInv'
<1>1. Flags'
  BY DEF RateBody, force_standby, Flags
<1>2. Values'
  BY DEF RateBody, force_standby, Values, EachFrameOnce
<1>3. StreamInv'
  BY DEF RateBody, force_standby, StreamLockIsHeld, HoldsStream, RecordingIsSetUp,
         FramesAreFresh, EachFrameOnce
<1> QED BY <1>1, <1>2, <1>3 DEF Flags, Values

LEMMA FormatBodyKeeps ==
  ASSUME StreamIInv, NEW t \in Caller, FormatBody(t)
  PROVE  StreamIInv'
<1>1. Flags'
  BY DEF FormatBody, force_standby, Flags
<1>2. Values'
  BY DEF FormatBody, force_standby, Values, EachFrameOnce
<1>3. StreamInv'
  BY DEF FormatBody, force_standby, StreamLockIsHeld, HoldsStream, RecordingIsSetUp,
         FramesAreFresh, EachFrameOnce
<1> QED BY <1>1, <1>2, <1>3 DEF Flags, Values

LEMMA RouteBodyKeeps ==
  ASSUME StreamIInv, NEW t \in Caller, RouteBody(t)
  PROVE  StreamIInv'
<1>1. Flags'
  BY DEF RouteBody, Flags
<1>2. Values'
  BY DEF RouteBody, Values, EachFrameOnce
<1>3. StreamInv'
  BY DEF RouteBody, StreamLockIsHeld, HoldsStream, RecordingIsSetUp, FramesAreFresh,
         EachFrameOnce
<1> QED BY <1>1, <1>2, <1>3 DEF Flags, Values

LEMMA CallKeeps ==
  ASSUME StreamIInv, NEW t \in Caller, NEW o \in Ops \ {"none"}, NEW a \in SomeDevice
         \cup Rates \cup Format, o = "route" => a \in SomeDevice, o = "rate" => a \in
         Rates, o = "format" => a \in Format, Call(t, o, a)
  PROVE  StreamIInv'
<1>1. Flags'
  BY DEF Flags
<1>2. Values'
  BY DEF Values, EachFrameOnce
<1>3. StreamInv'
  BY DEF StreamLockIsHeld, HoldsStream, RecordingIsSetUp, FramesAreFresh,
         EachFrameOnce
<1> QED BY <1>1, <1>2, <1>3 DEF Flags, Values

LEMMA OpenKeeps ==
  ASSUME StreamIInv, NEW d \in SomeDevice, NEW r \in Rates, Open(d, r)
  PROVE  StreamIInv'
<1>1. Flags'
  BY DEF Open, AllIdle, Flags
<1>2. Values'
  BY DEF Open, AllIdle, Values, EachFrameOnce
<1>3. StreamInv'
  BY DEF Open, AllIdle, StreamLockIsHeld, HoldsStream, RecordingIsSetUp,
         FramesAreFresh, EachFrameOnce
<1> QED BY <1>1, <1>2, <1>3 DEF Flags, Values

LEMMA CloseKeeps ==
  ASSUME StreamIInv, Close
  PROVE  StreamIInv'
<1>1. Flags'
  BY DEF Close, AllIdle, Flags
<1>2. Values'
  BY DEF Close, AllIdle, Values, EachFrameOnce
<1>3. StreamInv'
  BY DEF Close, AllIdle, StreamLockIsHeld, HoldsStream, RecordingIsSetUp,
         FramesAreFresh, EachFrameOnce
<1> QED BY <1>1, <1>2, <1>3 DEF Flags, Values

LEMMA MicrophoneKeeps ==
  ASSUME StreamIInv, Microphone
  PROVE  StreamIInv'
<1>1. Flags'
  BY DEF Microphone, Flags
<1>2. Values'
  BY DEF Microphone, Values, EachFrameOnce
<1>3. StreamInv'
  BY DEF Microphone, StreamLockIsHeld, HoldsStream, RecordingIsSetUp, FramesAreFresh,
         EachFrameOnce
<1> QED BY <1>1, <1>2, <1>3 DEF Flags, Values

LEMMA StutterKeeps ==
  ASSUME StreamIInv, UNCHANGED vars
  PROVE  StreamIInv'
<1>1. Flags'
  BY DEF Flags
<1>2. Values'
  BY DEF Values, EachFrameOnce
<1>3. StreamInv'
  BY DEF StreamLockIsHeld, HoldsStream, RecordingIsSetUp, FramesAreFresh,
         EachFrameOnce
<1> QED BY <1>1, <1>2, <1>3 DEF Flags, Values

-----------------------------------------------------------------------------
(* The theorems. *)

LEMMA InitHolds == Init => StreamIInv
<1> SUFFICES ASSUME Init PROVE StreamIInv
  OBVIOUS
<1>1. Flags
  BY DEF Init, Flags
<1>2. Values
  BY DEF Init, Values
<1>3. StreamInv
  BY DEF Init, StreamLockIsHeld, HoldsStream, RecordingIsSetUp, FramesAreFresh, EachFrameOnce
<1> QED BY <1>1, <1>2, <1>3 DEF Flags, Values

LEMMA NextKeeps ==
  ASSUME StreamIInv, [Next]_vars
  PROVE  StreamIInv'
<1> HIDE DEF StreamIInv, Call
<1>1. ASSUME NEW t \in Caller, Step(t) PROVE StreamIInv'
  BY <1>1, LockStreamKeeps, LockZeroKeeps, UnlockKeeps, ReadBodyKeeps, ReadProcessKeeps,
     PullLeftKeeps, PullReadKeeps, StandbyBodyKeeps, RateBodyKeeps, FormatBodyKeeps,
     RouteBodyKeeps
  DEF Step, Lock
<1>2. ASSUME NEW t \in Caller, Begin(t) PROVE StreamIInv'
  <2>1. CASE Read(t)
    BY <2>1, CallKeeps DEF Read
  <2>2. CASE Standby(t)
    BY <2>2, CallKeeps DEF Standby
  <2>3. ASSUME NEW r \in Rates, SetSampleRate(t, r) PROVE StreamIInv'
    BY <2>3, CallKeeps DEF SetSampleRate
  <2>4. ASSUME NEW f \in Format, SetFormat(t, f) PROVE StreamIInv'
    BY <2>4, CallKeeps DEF SetFormat
  <2>5. ASSUME NEW d \in SomeDevice, SetParameters(t, d) PROVE StreamIInv'
    BY <2>5, CallKeeps DEF SetParameters
  <2> QED BY <1>2, <2>1, <2>2, <2>3, <2>4, <2>5 DEF Begin
<1>3. ASSUME NEW d \in SomeDevice, NEW r \in Rates, Open(d, r) PROVE StreamIInv'
  BY <1>3, OpenKeeps
<1>4. Close => StreamIInv'
  BY CloseKeeps
<1>5. Microphone => StreamIInv'
  BY MicrophoneKeeps
<1>6. UNCHANGED vars => StreamIInv'
  BY StutterKeeps
<1> QED BY <1>1, <1>2, <1>3, <1>4, <1>5, <1>6 DEF Next

\* Whatever the recorder and the control thread overlap and however the capture
\* device fails, the stream's lock is held where the code of its holder says,
\* and the stream, its pcm, its buffer and the codec agree.
THEOREM StreamCorrect == Spec => []StreamIInv
<1>1. Init => StreamIInv
  BY InitHolds
<1>2. StreamIInv /\ [Next]_vars => StreamIInv'
  BY NextKeeps
<1> QED BY <1>1, <1>2, PTL DEF Spec

\* The stream and its callers keep their types: no frame is released that is
\* not in the buffer.
THEOREM TypeCorrect == Spec => []TypeOK
<1>1. StreamIInv => TypeOK
  OBVIOUS
<1> QED BY <1>1, StreamCorrect, PTL

\* A stream that is not in standby has a pcm and the codec's input on, and the
\* input is on for nothing else, unless standby was set behind its back.
THEOREM RecordingCorrect == Spec => []RecordingIsReady
<1>1. StreamIInv => RecordingIsReady
  BY DEF RecordingIsReady, RecordingIsSetUp
<1> QED BY <1>1, StreamCorrect, PTL

\* Every frame of a period is given to the resampler once, however the reads
\* are sized (audio_in_get_next_buffer, audio_in_release_buffer).
THEOREM FramesCorrect == Spec => []EachFrameOnce
<1>1. StreamIInv => EachFrameOnce
  OBVIOUS
<1> QED BY <1>1, StreamCorrect, PTL

\* A read returns what its own pcm captured, unless frames were left when the
\* pcm or the buffer was given up.
THEOREM FreshCorrect == Spec => []FreshFrames
<1>1. StreamIInv => FreshFrames
  BY DEF FreshFrames, FramesAreFresh
<1> QED BY <1>1, StreamCorrect, PTL
=============================================================================
