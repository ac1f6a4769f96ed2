---------------------------- MODULE Mc1n2Proofs ----------------------------
(***************************************************************************)
(* CodecFollowsRecord for every platform table and any number of calls.    *)
(* The invariant is not inductive: that the registers are right at the end *)
(* of an undisturbed call depends on what the call has read and written so *)
(* far, which is what SoloProgress adds.                                   *)
(***************************************************************************)
EXTENDS Mc1n2, TLAPS

USE DEF Caller, Direction, Register, Reads, Ioctls

\* A call that runs alone runs alone: the others are idle, and clean is off
\* while any call runs.
SoloIsAlone ==
  /\ \A t \in Caller : solo[t] => pc[t] # "idle" /\ \A u \in Caller \ {t} : pc[u] = "idle"
  /\ clean => \A t \in Caller : pc[t] = "idle"

\* What an undisturbed call has read is what the record holds, and what it has
\* programmed is what it read.
SoloProgress ==
  \A t \in Caller : solo[t] =>
    /\ pc[t] # "read_output" => seen[t]["output"] = found("output")
    /\ pc[t] \notin {"read_output", "read_input"} => seen[t]["input"] = found("input")
    /\ pc[t] \in Ioctls => seen[t]["modem"] = found("modem")
    /\ pc[t] \in {"path", "dac", "notify"} => regs["ae"] = seen[t]
    /\ pc[t] \in {"dac", "notify"} => regs["path"] = seen[t]
    /\ pc[t] = "notify" => regs["dac"] = seen[t]

\* A descriptor that is stored, or about to be, is open; a caller that opened
\* the node is at an ioctl; and nobody opens it if yamaha_mc1n2_audio_init did.
FdCount ==
  /\ hw_fd => fds # 0
  /\ \A t \in Caller : opening[t] => fds # 0 /\ IoctlDue(t)
  /\ ~missed => hw_fd /\ fds = 1

IInv == SoloIsAlone /\ SoloProgress /\ CodecFollowsRecord

-----------------------------------------------------------------------------
(* Types.                                                                  *)

LEMMA FoundType == ASSUME TypeOK, NEW dir \in Direction
                   PROVE  found(dir) \in OutRoutes \cup InRoutes \cup ModemRoutes \cup {NoRoute}
  BY DEF found, TypeOK

LEMMA WantedType == TypeOK => Wanted \in Route
  BY FoundType DEF Wanted, Route

\* Types hold whatever the calls do.  (Types of Mc1n2's record, the callers'
\* program counters and the descriptors.)
THEOREM TypeCorrect == Spec => [](TypeOK /\ FdCount)
<1>1. Init => TypeOK /\ FdCount
  <2> SUFFICES ASSUME Init PROVE TypeOK /\ FdCount
    OBVIOUS
  <2>1. missed \in BOOLEAN /\ hw_fd \in BOOLEAN
    BY DEF Init
  <2>2. TypeOK
    <3>1. regs \in [Register -> Route] /\ seen \in [Caller -> Route]
      BY DEF Init, Route, InitRoute
    <3>2. fds \in Nat /\ calls \in Nat
      BY <2>1 DEF Init
    <3> QED
      BY <2>1, <3>1, <3>2 DEF Init, TypeOK
  <2>3. FdCount
    <3>1. CASE hw_fd
      BY <3>1 DEF Init, FdCount
    <3>2. CASE ~hw_fd
      BY <3>2 DEF Init, FdCount
    <3> QED
      BY <3>1, <3>2
  <2> QED
    BY <2>2, <2>3
<1>2. TypeOK /\ FdCount /\ [Next]_vars => (TypeOK /\ FdCount)'
  <2> SUFFICES ASSUME TypeOK, FdCount, [Next]_vars
               PROVE  (TypeOK /\ FdCount)'
    OBVIOUS
  <2> USE DEF TypeOK, FdCount, IoctlDue, IsSetRoute
  <2>1. ASSUME NEW t \in Caller, NEW locks \in SUBSET {"stream_out", "stream_in"},
               Begin(t, locks)
        PROVE  /\ pc' \in [Caller -> {"idle"} \cup Reads \cup Ioctls]
               /\ seen' \in [Caller -> Route]
               /\ holds' \in [Caller -> SUBSET {"stream_out", "stream_in"}]
               /\ solo' \in [Caller -> BOOLEAN]
               /\ clean' \in BOOLEAN
               /\ calls' \in Nat
               /\ UNCHANGED <<regs, hw_fd, opening, fds, missed>>
    <3>1. InitRoute \in Route
      BY DEF InitRoute, Route
    <3>2. solo' \in [Caller -> BOOLEAN]
      BY <2>1 DEF Begin
    <3>3. /\ pc' \in [Caller -> {"idle"} \cup Reads \cup Ioctls]
          /\ seen' \in [Caller -> Route]
          /\ holds' \in [Caller -> SUBSET {"stream_out", "stream_in"}]
          /\ calls' \in Nat
      BY <2>1, <3>1, BoundAssumption DEF Begin
    <3> QED
      BY <2>1, <3>2, <3>3 DEF Begin
  <2>2. ASSUME NEW on \in BOOLEAN, Output(on)  PROVE (TypeOK /\ FdCount)'
    <3>1. PICK locks \in SUBSET {"stream_out", "stream_in"} : Begin("player", locks)
      BY <2>2 DEF Output
    <3>2. state' \in [Direction -> BOOLEAN] /\ UNCHANGED device
      BY <2>2 DEF Output
    <3>3. FdCount'
      BY <3>1 DEF Begin, Idle
    <3> QED
      BY <2>1, <3>1, <3>2, <3>3
  <2>3. ASSUME NEW on \in BOOLEAN, Input(on)  PROVE (TypeOK /\ FdCount)'
    <3>1. PICK locks \in SUBSET {"stream_out", "stream_in"} : Begin("recorder", locks)
      BY <2>3 DEF Input
    <3>2. state' \in [Direction -> BOOLEAN] /\ UNCHANGED device
      BY <2>3 DEF Input
    <3>3. FdCount'
      BY <3>1 DEF Begin, Idle
    <3> QED
      BY <2>1, <3>1, <3>2, <3>3
  <2>4. ASSUME NEW on \in BOOLEAN, Modem(on)  PROVE (TypeOK /\ FdCount)'
    BY <2>1, <2>4 DEF Modem, Begin, Idle
  <2>5. ASSUME NEW d \in OutDevices, SetRoute("output", "stream_out", d)
        PROVE  (TypeOK /\ FdCount)'
    <3>1. device' \in [{"output", "input"} -> Device \cup {NoDevice}]
      BY <2>5 DEF SetRoute, Device
    <3>2. CASE AnyOn
      <4>1. Begin("control", {"stream_out"}) /\ UNCHANGED state
        BY <2>5, <3>2 DEF SetRoute
      <4>2. FdCount'
        BY <4>1 DEF Begin, Idle
      <4> QED
        BY <2>1, <3>1, <4>1, <4>2
    <3>3. CASE ~AnyOn
      BY <2>5, <3>1, <3>3 DEF SetRoute
    <3> QED
      BY <3>2, <3>3
  <2>6. ASSUME NEW d \in InDevices, SetRoute("input", "stream_in", d)
        PROVE  (TypeOK /\ FdCount)'
    <3>1. device' \in [{"output", "input"} -> Device \cup {NoDevice}]
      BY <2>6 DEF SetRoute, Device
    <3>2. CASE AnyOn
      <4>1. Begin("control", {"stream_in"}) /\ UNCHANGED state
        BY <2>6, <3>2 DEF SetRoute
      <4>2. FdCount'
        BY <4>1 DEF Begin, Idle
      <4> QED
        BY <2>1, <3>1, <4>1, <4>2
    <3>3. CASE ~AnyOn
      BY <2>6, <3>1, <3>3 DEF SetRoute
    <3> QED
      BY <3>2, <3>3
  <2>7. ASSUME NEW t \in Caller, ReadOutput(t) \/ ReadInput(t) \/ ReadModem(t)
        PROVE  (TypeOK /\ FdCount)'
    <3>1. ASSUME NEW dir \in Direction
          PROVE  [seen EXCEPT ![t][dir] = found(dir)] \in [Caller -> Route]
      BY FoundType, <3>1 DEF Route
    <3> QED
      BY <2>7, <3>1 DEF ReadOutput, ReadInput, ReadModem, Read
  <2>8. ASSUME NEW t \in Caller, OpenNode(t) PROVE (TypeOK /\ FdCount)'
    <3>1. CASE Leave(t, FALSE) /\ UNCHANGED <<opening, fds>>
      BY <2>8, <3>1 DEF OpenNode, Leave
    <3>2. CASE /\ opening' = [opening EXCEPT ![t] = TRUE]
               /\ fds' = fds + 1
               /\ UNCHANGED <<pc, holds, solo, clean>>
      BY <2>8, <3>2 DEF OpenNode
    <3> QED
      BY <2>8, <3>1, <3>2 DEF OpenNode
  <2>9. ASSUME NEW t \in Caller, StoreNode(t) PROVE (TypeOK /\ FdCount)'
    BY <2>9 DEF StoreNode
  <2>10. ASSUME NEW t \in Caller, Program(t) PROVE (TypeOK /\ FdCount)'
    BY <2>10 DEF Program, After, CanIoctl
  <2>11. ASSUME NEW t \in Caller, Notify(t) PROVE (TypeOK /\ FdCount)'
    BY <2>11 DEF Notify, Leave, CanIoctl
  <2>12. ASSUME NEW t \in Caller, IoctlFails(t) PROVE (TypeOK /\ FdCount)'
    BY <2>12 DEF IoctlFails, Leave, CanIoctl
  <2>13. CASE Reopen
    <3>1. PICK got \in BOOLEAN, programmed \in BOOLEAN, left \in Abandoned :
            /\ fds' = (fds - (IF hw_fd THEN 1 ELSE 0)) + (IF got THEN 1 ELSE 0) + left
            /\ hw_fd' = got
            /\ missed' = (missed \/ ~got \/ left > 0)
            /\ regs' = IF programmed THEN [regs EXCEPT !["dac"] = InitRoute] ELSE regs
      BY <2>13 DEF Reopen
    <3>2. left \in Nat
      BY DEF Abandoned
    <3>3. \A t \in Caller : ~opening'[t]
      BY <2>13 DEF Reopen, AllIdle, Idle
    <3>4. fds - (IF hw_fd THEN 1 ELSE 0) \in Nat
      OBVIOUS
    <3>5. fds' \in Nat /\ (hw_fd' => fds' # 0)
      BY <3>1, <3>2, <3>4
    <3>6. ~missed' => hw_fd' /\ fds' = 1
      BY <3>1, <3>2
    <3>7. regs' \in [Register -> Route]
      BY <3>1 DEF InitRoute, Route
    <3>8. missed' \in BOOLEAN /\ hw_fd' \in BOOLEAN
      BY <3>1
    <3> QED
      BY <2>13, <3>3, <3>5, <3>6, <3>7, <3>8 DEF Reopen
  <2>14. CASE UNCHANGED vars
    BY <2>14 DEF vars
  <2> QED
    BY <2>2, <2>3, <2>4, <2>5, <2>6, <2>7, <2>8, <2>9, <2>10, <2>11, <2>12, <2>13,
       <2>14 DEF Next, Step
<1> QED
  BY <1>1, <1>2, PTL DEF Spec

\* OneDescriptor for any number of calls and reopenings.
THEOREM NodeOpenedOnce == Spec => []OneDescriptor
<1>1. FdCount => OneDescriptor
  BY DEF FdCount, OneDescriptor
<1> QED
  BY <1>1, TypeCorrect, PTL

-----------------------------------------------------------------------------
(* The codec follows the record.                                           *)

\* Nothing a direction contributes changes while the record does not.
LEMMA FoundUnchanged == UNCHANGED <<state, device>> => /\ \A dir \in Direction : found(dir)' = found(dir)
                                                       /\ Wanted' = Wanted
  BY DEF found, Wanted

\* With every direction off the codec is wanted in its init route, whatever
\* the devices are.
LEMMA AllOff == ASSUME TypeOK, ~AnyOn
                PROVE  /\ \A dir \in Direction : found(dir) = NoRoute
                       /\ Wanted = InitRoute
  BY DEF found, Wanted, InitRoute, AnyOn, TypeOK

LEMMA SeenIsWanted == ASSUME NEW s \in Route, \A dir \in Direction : s[dir] = found(dir)
                      PROVE  s = Wanted
  BY DEF Route, Wanted

\* Beginning a call keeps the invariant: the new call has read nothing yet, and
\* clean is off.
LEMMA BeginStep ==
  ASSUME TypeOK, SoloIsAlone, NEW t \in Caller,
         NEW locks \in SUBSET {"stream_out", "stream_in"}, Begin(t, locks)
  PROVE  IInv'
<1>1. \A u \in Caller : solo'[u] => u = t /\ \A v \in Caller \ {t} : pc[v] = "idle"
  BY DEF Begin, Idle
<1>2. pc'[t] = "read_output" /\ \A v \in Caller \ {t} : pc'[v] = pc[v]
  BY DEF Begin, TypeOK
<1>3. ~clean'
  BY DEF Begin
<1>4. SoloIsAlone'
  BY <1>1, <1>2, <1>3 DEF SoloIsAlone
<1>5. SoloProgress'
  BY <1>1, <1>2 DEF SoloProgress
<1> QED
  BY <1>3, <1>4, <1>5 DEF IInv, CodecFollowsRecord

\* Leaving keeps it: clean comes on only if the call ran alone, and then what
\* it programmed is what is wanted.
LEMMA LeaveStep ==
  ASSUME TypeOK, IInv, NEW t \in Caller, NEW ok \in BOOLEAN, Leave(t, ok),
         pc[t] # "idle", ok => pc[t] = "notify",
         UNCHANGED <<state, device, regs, seen>>
  PROVE  IInv'
<1>1. pc'[t] = "idle" /\ \A v \in Caller \ {t} : pc'[v] = pc[v]
  BY DEF Leave, TypeOK
<1>2. ~solo'[t] /\ \A v \in Caller \ {t} : solo'[v] = solo[v]
  BY DEF Leave, TypeOK
<1>3. clean' => ok /\ solo[t]
  BY DEF Leave
<1>4. SoloIsAlone'
  BY <1>1, <1>2, <1>3 DEF IInv, SoloIsAlone
<1>5. SoloProgress'
  BY <1>1, <1>2, FoundUnchanged DEF IInv, SoloProgress
<1>6. CodecFollowsRecord'
  <2> SUFFICES ASSUME clean' PROVE \A r \in Register : regs'[r] = Wanted'
    BY DEF CodecFollowsRecord
  <2>1. pc[t] = "notify" /\ solo[t]
    BY <1>3
  <2>2. /\ \A dir \in Direction : seen[t][dir] = found(dir)
        /\ \A r \in Register : regs[r] = seen[t]
    BY <2>1 DEF IInv, SoloProgress
  <2>3. seen[t] = Wanted
    BY <2>2, SeenIsWanted DEF TypeOK
  <2> QED
    BY <2>2, <2>3, FoundUnchanged
<1> QED
  BY <1>4, <1>5, <1>6 DEF IInv

\* A call in which nothing but the codec or the descriptor moves.
LEMMA ReadStep ==
  ASSUME TypeOK, IInv, NEW t \in Caller, ReadOutput(t) \/ ReadInput(t) \/ ReadModem(t)
  PROVE  IInv'
<1> USE DEF ReadOutput, ReadInput, ReadModem, Read
<1>1. /\ pc[t] # "idle" /\ pc'[t] # "idle"
      /\ \A v \in Caller \ {t} : pc'[v] = pc[v] /\ seen'[v] = seen[v]
      /\ UNCHANGED <<state, device, regs, solo, clean>>
  BY DEF TypeOK
<1>2. SoloIsAlone'
  BY <1>1 DEF IInv, SoloIsAlone
<1>3. ~clean'
  BY <1>1 DEF IInv, SoloIsAlone
<1>4. \A dir \in Direction : found(dir)' = found(dir)
  BY <1>1, FoundUnchanged
<1>5. SoloProgress'
  <2>1. CASE ReadOutput(t)
    <3>1. pc'[t] = "read_input" /\ seen'[t]["output"] = found("output")
      BY <2>1 DEF TypeOK, Route
    <3> QED
      BY <1>1, <1>4, <3>1 DEF IInv, SoloProgress, SoloIsAlone
  <2>2. CASE ReadInput(t)
    <3>1. /\ pc[t] = "read_input" /\ pc'[t] = "read_modem"
          /\ seen'[t]["input"] = found("input") /\ seen'[t]["output"] = seen[t]["output"]
      BY <2>2 DEF TypeOK, Route
    <3> QED
      BY <1>1, <1>4, <3>1 DEF IInv, SoloProgress, SoloIsAlone
  <2>3. CASE ReadModem(t)
    <3>1. /\ pc[t] = "read_modem" /\ pc'[t] = "ae"
          /\ seen'[t]["modem"] = found("modem")
          /\ seen'[t]["output"] = seen[t]["output"] /\ seen'[t]["input"] = seen[t]["input"]
      BY <2>3 DEF TypeOK, Route
    <3> QED
      BY <1>1, <1>4, <3>1 DEF IInv, SoloProgress, SoloIsAlone
  <2> QED
    BY <2>1, <2>2, <2>3
<1> QED
  BY <1>2, <1>3, <1>5 DEF IInv, CodecFollowsRecord

LEMMA ProgramStep ==
  ASSUME TypeOK, IInv, NEW t \in Caller, Program(t)
  PROVE  IInv'
<1>1. /\ pc[t] \in Register /\ pc'[t] = After(pc[t]) /\ pc'[t] # "idle"
      /\ \A v \in Caller \ {t} : pc'[v] = pc[v]
      /\ UNCHANGED <<state, device, seen, solo, clean>>
      /\ regs'[pc[t]] = seen[t] /\ \A r \in Register \ {pc[t]} : regs'[r] = regs[r]
  BY DEF Program, TypeOK, After
<1>2. SoloIsAlone'
  BY <1>1 DEF IInv, SoloIsAlone
<1>3. ~clean'
  BY <1>1 DEF IInv, SoloIsAlone
<1>4. \A dir \in Direction : found(dir)' = found(dir)
  BY <1>1, FoundUnchanged
<1>5. SoloProgress'
  <2> SUFFICES ASSUME NEW u \in Caller, solo[u]
               PROVE  /\ pc'[u] # "read_output" => seen[u]["output"] = found("output")
                      /\ pc'[u] \notin {"read_output", "read_input"} => seen[u]["input"] = found("input")
                      /\ pc'[u] \in Ioctls => seen[u]["modem"] = found("modem")
                      /\ pc'[u] \in {"path", "dac", "notify"} => regs'["ae"] = seen[u]
                      /\ pc'[u] \in {"dac", "notify"} => regs'["path"] = seen[u]
                      /\ pc'[u] = "notify" => regs'["dac"] = seen[u]
    BY <1>1, <1>4 DEF SoloProgress
  <2>1. u = t
    BY <1>1 DEF IInv, SoloIsAlone
  <2>2. /\ pc[t] = "ae" => pc'[t] = "path"
        /\ pc[t] = "path" => pc'[t] = "dac"
        /\ pc[t] = "dac" => pc'[t] = "notify"
    BY <1>1 DEF After
  <2> QED
    BY <1>1, <2>1, <2>2 DEF IInv, SoloProgress
<1> QED
  BY <1>2, <1>3, <1>5 DEF IInv, CodecFollowsRecord

\* A route change while every direction is off disturbs nothing: no call that
\* may be running wanted anything of the devices.
LEMMA QuietRouteStep ==
  ASSUME TypeOK, TypeOK', IInv, ~AnyOn, UNCHANGED <<state, regs, pc, seen, solo, clean>>
  PROVE  IInv'
<1>1. ~AnyOn'
  BY DEF AnyOn
<1>2. /\ \A dir \in Direction : found(dir)' = found(dir)
      /\ Wanted' = Wanted
  <2>1. /\ \A dir \in Direction : found(dir) = NoRoute
        /\ Wanted = InitRoute
    BY AllOff
  <2>2. \A dir \in Direction : state'[dir] = state[dir]
    OBVIOUS
  <2>3. \A dir \in Direction : found(dir)' = NoRoute
    BY <2>2 DEF found, AnyOn
  <2>4. Wanted' = InitRoute
    BY <2>3 DEF Wanted, InitRoute
  <2> QED
    BY <2>1, <2>3, <2>4
<1>3. SoloIsAlone'
  BY DEF IInv, SoloIsAlone
<1>4. SoloProgress'
  BY <1>2 DEF IInv, SoloProgress
<1>5. CodecFollowsRecord'
  BY <1>2 DEF IInv, CodecFollowsRecord, AllIdle, Idle
<1> QED
  BY <1>3, <1>4, <1>5 DEF IInv

LEMMA ReopenStep ==
  ASSUME TypeOK, IInv, Reopen
  PROVE  IInv'
<1>1. /\ UNCHANGED <<state, device, pc, seen, solo>>
      /\ \A t \in Caller : pc[t] = "idle"
      /\ clean' => clean /\ ~AnyOn
      /\ \A r \in Register : regs'[r] = regs[r] \/ regs'[r] = InitRoute
  BY DEF Reopen, AllIdle, Idle, TypeOK
<1>2. SoloIsAlone'
  BY <1>1 DEF IInv, SoloIsAlone
<1>3. SoloProgress'
  BY <1>1 DEF IInv, SoloProgress, SoloIsAlone
<1>4. CodecFollowsRecord'
  <2> SUFFICES ASSUME clean' PROVE \A r \in Register : regs'[r] = Wanted'
    BY DEF CodecFollowsRecord
  <2>1. Wanted = InitRoute /\ Wanted' = Wanted
    BY <1>1, AllOff, FoundUnchanged
  <2>2. \A r \in Register : regs[r] = Wanted
    BY <1>1 DEF IInv, CodecFollowsRecord, AllIdle, Idle
  <2> QED
    BY <1>1, <2>1, <2>2
<1> QED
  BY <1>2, <1>3, <1>4 DEF IInv

\* CodecFollowsRecord for every platform table, any devices and any number of
\* calls.
THEOREM CodecCorrect == Spec => []CodecFollowsRecord
<1>1. Init => IInv
  <2> SUFFICES ASSUME Init PROVE IInv
    OBVIOUS
  <2>1. Wanted = InitRoute
    BY DEF Init, Wanted, found, InitRoute
  <2>2. /\ \A t \in Caller : ~solo[t] /\ pc[t] = "idle"
        /\ \A r \in Register : regs[r] = InitRoute
    BY DEF Init
  <2> QED
    BY <2>1, <2>2 DEF IInv, SoloIsAlone, SoloProgress, CodecFollowsRecord
<1>2. TypeOK /\ FdCount /\ TypeOK' /\ IInv /\ [Next]_vars => IInv'
  <2> SUFFICES ASSUME TypeOK, FdCount, TypeOK', IInv, [Next]_vars
               PROVE  IInv'
    OBVIOUS
  <2>1. SoloIsAlone
    BY DEF IInv
  <2>2. ASSUME NEW on \in BOOLEAN, Output(on) \/ Input(on) \/ Modem(on)
        PROVE  IInv'
    BY <2>1, <2>2, BeginStep DEF Output, Input, Modem
  <2>3. ASSUME NEW kind, NEW lock \in {"stream_out", "stream_in"}, NEW d,
               SetRoute(kind, lock, d)
        PROVE  IInv'
    <3>1. CASE AnyOn
      <4>1. Begin("control", {lock})
        BY <2>3, <3>1 DEF SetRoute
      <4> QED
        BY <2>1, <4>1, BeginStep
    <3>2. CASE ~AnyOn
      BY <2>3, <3>2, QuietRouteStep DEF SetRoute
    <3> QED
      BY <3>1, <3>2
  <2>4. ASSUME NEW t \in Caller, ReadOutput(t) \/ ReadInput(t) \/ ReadModem(t)
        PROVE  IInv'
    BY <2>4, ReadStep
  <2>5. ASSUME NEW t \in Caller, OpenNode(t)
        PROVE  IInv'
    <3>1. CASE Leave(t, FALSE)
      BY <2>5, <3>1, LeaveStep DEF OpenNode, IoctlDue
    <3>2. CASE UNCHANGED <<pc, solo, clean>>
      BY <2>5, <3>2, FoundUnchanged
         DEF OpenNode, IInv, SoloIsAlone, SoloProgress, CodecFollowsRecord, AllIdle, Idle
    <3> QED
      BY <2>5, <3>1, <3>2 DEF OpenNode
  <2>6. ASSUME NEW t \in Caller, StoreNode(t)
        PROVE  IInv'
    BY <2>6, FoundUnchanged
       DEF StoreNode, IInv, SoloIsAlone, SoloProgress, CodecFollowsRecord, AllIdle, Idle
  <2>7. ASSUME NEW t \in Caller, Program(t)
        PROVE  IInv'
    BY <2>7, ProgramStep
  <2>8. ASSUME NEW t \in Caller, Notify(t)
        PROVE  IInv'
    BY <2>8, LeaveStep DEF Notify
  <2>9. ASSUME NEW t \in Caller, IoctlFails(t)
        PROVE  IInv'
    BY <2>9, LeaveStep DEF IoctlFails, CanIoctl, IoctlDue
  <2>10. CASE Reopen
    BY <2>10, ReopenStep
  <2>11. CASE UNCHANGED vars
    BY <2>11, FoundUnchanged
       DEF vars, IInv, SoloIsAlone, SoloProgress, CodecFollowsRecord, AllIdle, Idle
  <2> QED
    BY <2>2, <2>3, <2>4, <2>5, <2>6, <2>7, <2>8, <2>9, <2>10, <2>11 DEF Next, Step
<1> QED
  BY <1>1, <1>2, TypeCorrect, PTL DEF Spec, IInv

-----------------------------------------------------------------------------
(* A caller programs its own direction right.                              *)

\* What a caller has read of its own direction stays true, because a stream
\* that is on holds its lock throughout its call and the control thread is the
\* only one that changes devices or the modem flag.
OwnInv ==
  /\ pc["player"] \notin {"idle", "read_output"} =>
       seen["player"]["output"] = found("output")
  /\ pc["recorder"] \notin {"idle", "read_output", "read_input"} =>
       seen["recorder"]["input"] = found("input")
  /\ pc["control"] \in Ioctls => seen["control"]["modem"] = found("modem")
  /\ pc["player"] # "idle" /\ state["output"] => "stream_out" \in holds["player"]
  /\ pc["recorder"] # "idle" /\ state["input"] => "stream_in" \in holds["recorder"]

\* A direction that is off contributes nothing; one whose flag and device stay
\* contributes the same.
LEMMA FoundStays ==
  ASSUME NEW dir \in Direction,
         \/ ~state[dir] /\ ~state'[dir]
         \/ /\ state'[dir] = state[dir]
            /\ device'[IF dir = "input" THEN "input" ELSE "output"]
                 = device[IF dir = "input" THEN "input" ELSE "output"]
  PROVE  found(dir)' = found(dir)
  BY DEF found

\* A stream starts or stops: its own call has read nothing yet.
LEMMA OwnBegin ==
  ASSUME TypeOK, OwnInv, NEW t \in Caller, NEW locks, Begin(t, locks),
         UNCHANGED device,
         \A dir \in Direction :
           (dir = CASE t = "player" -> "output" [] t = "recorder" -> "input" [] t = "control" -> "modem")
             \/ state'[dir] = state[dir],
         t = "player" /\ state'["output"] => "stream_out" \in locks,
         t = "recorder" /\ state'["input"] => "stream_in" \in locks
  PROVE  OwnInv'
<1>1. /\ pc'[t] = "read_output" /\ holds'[t] = locks
      /\ \A v \in Caller \ {t} : pc'[v] = pc[v] /\ seen'[v] = seen[v] /\ holds'[v] = holds[v]
  BY DEF Begin, TypeOK
<1>2. CASE t = "player"
  BY <1>1, <1>2, FoundStays DEF OwnInv
<1>3. CASE t = "recorder"
  BY <1>1, <1>3, FoundStays DEF OwnInv
<1>4. CASE t = "control"
  BY <1>1, <1>4, FoundStays DEF OwnInv
<1> QED
  BY <1>2, <1>3, <1>4

\* A route change takes the lock of its stream, which the stream's call would
\* hold if it were on.
LEMMA OwnRoute ==
  ASSUME TypeOK, OwnInv,
         NEW kind \in {"output", "input"}, NEW d,
         SetRoute(kind, IF kind = "output" THEN "stream_out" ELSE "stream_in", d)
  PROVE  OwnInv'
<1> DEFINE lock == IF kind = "output" THEN "stream_out" ELSE "stream_in"
<1>1. /\ UNCHANGED state
      /\ \A other \in {"output", "input"} \ {kind} : device'[other] = device[other]
      /\ pc["control"] = "idle" /\ pc'["control"] \in {"idle", "read_output"}
      /\ \A u \in Caller : lock \notin holds[u]
      /\ \A v \in Caller \ {"control"} :
           pc'[v] = pc[v] /\ seen'[v] = seen[v] /\ holds'[v] = holds[v]
  BY DEF SetRoute, Begin, Idle, TypeOK
<1>2. CASE kind = "output"
  <2>1. pc["player"] # "idle" => ~state["output"]
    BY <1>1, <1>2 DEF OwnInv
  <2>2. found("input")' = found("input")
    BY <1>1, <1>2, FoundStays
  <2>3. ~state["output"] => found("output")' = found("output")
    BY <1>1, FoundStays
  <2> QED
    BY <1>1, <2>1, <2>2, <2>3 DEF OwnInv
<1>3. CASE kind = "input"
  <2>1. pc["recorder"] # "idle" => ~state["input"]
    BY <1>1, <1>3 DEF OwnInv
  <2>2. found("output")' = found("output")
    BY <1>1, <1>3, FoundStays
  <2>3. ~state["input"] => found("input")' = found("input")
    BY <1>1, FoundStays
  <2> QED
    BY <1>1, <2>1, <2>2, <2>3 DEF OwnInv
<1> QED
  BY <1>2, <1>3

\* A caller reads, programs the codec, or leaves.
LEMMA OwnStep ==
  ASSUME TypeOK, OwnInv, NEW t \in Caller, Step(t)
  PROVE  OwnInv'
<1>1. UNCHANGED <<state, device>>
  BY DEF Step, ReadOutput, ReadInput, ReadModem, Read, OpenNode, StoreNode, Program,
         Notify, IoctlFails
<1>2. \A dir \in Direction : found(dir)' = found(dir)
  BY <1>1, FoundUnchanged
<1>3. \A v \in Caller \ {t} : pc'[v] = pc[v] /\ seen'[v] = seen[v] /\ holds'[v] = holds[v]
  BY DEF Step, ReadOutput, ReadInput, ReadModem, Read, OpenNode, StoreNode, Program,
         Notify, IoctlFails, Leave, TypeOK
<1>4. CASE pc'[t] = "idle"
  BY <1>1, <1>2, <1>3, <1>4 DEF OwnInv
<1>5. CASE pc'[t] # "idle" /\ ~(ReadOutput(t) \/ ReadInput(t) \/ ReadModem(t))
  <2>1. /\ seen'[t] = seen[t] /\ holds'[t] = holds[t]
        /\ pc'[t] = pc[t] \/ (pc[t] \in Ioctls /\ pc'[t] \in Ioctls)
    BY <1>5 DEF Step, OpenNode, StoreNode, Program, Notify, IoctlFails, Leave, After,
                CanIoctl, IoctlDue, TypeOK
  <2> QED
    BY <1>1, <1>2, <1>3, <2>1 DEF OwnInv, TypeOK
<1>6. CASE ReadOutput(t)
  <2>1. /\ pc[t] = "read_output" /\ pc'[t] = "read_input" /\ holds'[t] = holds[t]
        /\ seen'[t]["output"] = found("output")
    BY <1>6 DEF ReadOutput, Read, TypeOK, Route
  <2> QED
    BY <1>1, <1>2, <1>3, <2>1 DEF OwnInv
<1>7. CASE ReadInput(t)
  <2>1. /\ pc[t] = "read_input" /\ pc'[t] = "read_modem" /\ holds'[t] = holds[t]
        /\ seen'[t]["input"] = found("input") /\ seen'[t]["output"] = seen[t]["output"]
    BY <1>7 DEF ReadInput, Read, TypeOK, Route
  <2> QED
    BY <1>1, <1>2, <1>3, <2>1 DEF OwnInv
<1>8. CASE ReadModem(t)
  <2>1. /\ pc[t] = "read_modem" /\ pc'[t] = "ae" /\ holds'[t] = holds[t]
        /\ seen'[t]["modem"] = found("modem")
        /\ seen'[t]["input"] = seen[t]["input"] /\ seen'[t]["output"] = seen[t]["output"]
    BY <1>8 DEF ReadModem, Read, TypeOK, Route
  <2> QED
    BY <1>1, <1>2, <1>3, <2>1 DEF OwnInv
<1> QED
  BY <1>4, <1>5, <1>6, <1>7, <1>8

\* OwnRouteIsFresh for any devices and any number of calls, however the calls
\* of the three callers overlap.
THEOREM OwnRouteCorrect == Spec => []OwnRouteIsFresh
<1>1. Init => OwnInv
  BY DEF Init, OwnInv
<1>2. TypeOK /\ OwnInv /\ [Next]_vars => OwnInv'
  <2> SUFFICES ASSUME TypeOK, OwnInv, [Next]_vars
               PROVE  OwnInv'
    OBVIOUS
  <2>1. ASSUME NEW on \in BOOLEAN, Output(on)  PROVE OwnInv'
    <3>1. PICK locks \in SUBSET {"stream_out", "stream_in"} :
            /\ Begin("player", locks)
            /\ on => "stream_out" \in locks
      BY <2>1 DEF Output
    <3>2. /\ UNCHANGED device /\ state'["output"] = on
          /\ \A dir \in Direction \ {"output"} : state'[dir] = state[dir]
      BY <2>1 DEF Output, TypeOK
    <3> QED
      BY <3>1, <3>2, OwnBegin
  <2>2. ASSUME NEW on \in BOOLEAN, Input(on)  PROVE OwnInv'
    <3>1. PICK locks \in SUBSET {"stream_out", "stream_in"} :
            /\ Begin("recorder", locks)
            /\ on => "stream_in" \in locks
      BY <2>2 DEF Input
    <3>2. /\ UNCHANGED device /\ state'["input"] = on
          /\ \A dir \in Direction \ {"input"} : state'[dir] = state[dir]
      BY <2>2 DEF Input, TypeOK
    <3> QED
      BY <3>1, <3>2, OwnBegin
  <2>3. ASSUME NEW on \in BOOLEAN, Modem(on)  PROVE OwnInv'
    <3>1. /\ UNCHANGED device /\ Begin("control", {})
          /\ \A dir \in Direction \ {"modem"} : state'[dir] = state[dir]
      BY <2>3 DEF Modem, TypeOK
    <3> QED
      BY <3>1, OwnBegin
  <2>4. ASSUME NEW d \in OutDevices, SetRoute("output", "stream_out", d)  PROVE OwnInv'
    BY <2>4, OwnRoute
  <2>5. ASSUME NEW d \in InDevices, SetRoute("input", "stream_in", d)  PROVE OwnInv'
    BY <2>5, OwnRoute
  <2>6. ASSUME NEW t \in Caller, Step(t)  PROVE OwnInv'
    BY <2>6, OwnStep
  <2>7. CASE Reopen
    BY <2>7 DEF Reopen, AllIdle, Idle, OwnInv
  <2>8. CASE UNCHANGED vars
    BY <2>8, FoundUnchanged DEF vars, OwnInv
  <2> QED
    BY <2>1, <2>2, <2>3, <2>4, <2>5, <2>6, <2>7, <2>8 DEF Next
<1>3. OwnInv => OwnRouteIsFresh
  BY DEF OwnInv, OwnRouteIsFresh
<1> QED
  BY <1>1, <1>2, <1>3, TypeCorrect, PTL DEF Spec
=============================================================================
