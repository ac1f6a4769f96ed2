-------------------------- MODULE BluetoothProofs --------------------------
(***************************************************************************)
(* The properties of Bluetooth for every number of attempts and every set  *)
(* of descriptors.  What a call returns agrees with the chip and the       *)
(* daemons only because of what the call has done up to each of its        *)
(* points, and what a thread closes at out is its own only because it      *)
(* carries its descriptor from the open to there: both are stated below    *)
(* over the program points.                                                *)
(***************************************************************************)
EXTENDS Bluetooth, WellFoundedInduction, TLAPS

USE DEF Thread, NoSock, PowerPoint, Point

EnablePoint == {"power_on", "bccmd", "hciattach", "retry", "devup", "timeout",
                "bluetoothd", "give_up", "out"}
DisablePoint == {"stop_bluetoothd", "sock", "devdown", "stop_hciattach",
                 "power_off", "out"}
QueryPoint == {"check_power", "query_sock", "devinfo", "out"}
SockPoint == {"devup", "bluetoothd", "give_up", "out", "devdown",
              "stop_hciattach", "power_off", "devinfo"}
Known == {"power", "socket", "bluetoothd"}

\* Each thread is at a point of the calls it makes, and an attempt is under
\* way only while one is left.
Points ==
  /\ pc["switch"] \in EnablePoint \cup DisablePoint \cup {"idle"}
  /\ pc["query"] \in QueryPoint \cup {"idle"}
  /\ ret["switch"] # 1
  /\ pc["switch"] = "devup" => attempt > 0 /\ hci_sock["switch"] \in Fd

Flags ==
  /\ power \in BOOLEAN /\ hciattach \in BOOLEAN /\ bluetoothd \in BOOLEAN
  /\ timedOut \in BOOLEAN /\ foreign \in BOOLEAN

\* A thread that has a descriptor open is between create_hci_sock and close
\* and remembers its number.
OpenedIsKnown ==
  \A t \in Thread : \A n \in Fd :
    fds[n] = t => hci_sock[t] = n /\ pc[t] \in SockPoint

\* A remembered number is the thread's own open descriptor, except at retry,
\* where the loop has closed it, as long as the loop has not run out there.
KnownIsOpened ==
  /\ foreign => timedOut
  /\ \A t \in Thread : pc[t] = "idle" => hci_sock[t] = NoSock
  /\ ~timedOut => \A t \in Thread :
       hci_sock[t] # NoSock /\ pc[t] # "retry" => fds[hci_sock[t]] = t

\* Whose call it is.
CallIsLast ==
  /\ pc["switch"] \in EnablePoint \ {"out"} => last.op = "enable"
  /\ pc["switch"] \in DisablePoint \ {"out"} => last.op = "disable"
  /\ pc["switch"] = "out" => last.op # "none"

\* What bt_enable has done when it comes to each of its points.
EnableSoFar ==
  /\ pc["switch"] \in EnablePoint \ {"bluetoothd", "give_up", "out"} =>
       ret["switch"] = -1
  /\ pc["switch"] \in {"bccmd", "hciattach", "retry", "devup", "bluetoothd"} => power
  /\ pc["switch"] \in {"retry", "devup", "bluetoothd"} => hciattach
  /\ pc["switch"] = "bluetoothd" => hci = "up"
  /\ pc["switch"] = "give_up" /\ cause \notin Known => ret["switch"] = -1

\* What bt_disable has done when it comes to each of its points.
DisableSoFar ==
  /\ pc["switch"] \in DisablePoint \ {"out"} => ret["switch"] = -1
  /\ pc["switch"] \in DisablePoint \ {"stop_bluetoothd", "out"} => ~bluetoothd
  /\ pc["switch"] = "power_off" => ~hciattach

\* What is returned at out is how things are, and stays so.
OutIsState ==
  pc["switch"] = "out" /\ cause \notin Known =>
    /\ last.op = "enable" /\ ret["switch"] = 0 => AllOn
    /\ last.op = "enable" /\ ret["switch"] # 0 => ~power
    /\ last.op = "disable" /\ ret["switch"] = 0 => AllOff

ResultInv == CallIsLast /\ EnableSoFar /\ DisableSoFar /\ OutIsState /\ ResultIsState
IInv == TypeOK /\ Points /\ OpenedIsKnown /\ KnownIsOpened /\ ResultInv

LEMMA Constants == /\ MaxAttempts \in Nat
                   /\ Fd \subseteq Nat /\ NoSock \notin Fd
                   /\ NoOne # "switch" /\ NoOne # "query"
  BY BluetoothAssumption

LEMMA MinIsFree == ASSUME NEW S \in SUBSET Nat, S # {} PROVE Min(S) \in S
<1>1. PICK x \in S : \A y \in S : ~(<<y, x>> \in OpToRel(<, Nat))
  BY NatLessThanWellFounded, WFMin
<1>2. \A y \in S : x <= y
  <2> SUFFICES ASSUME NEW y \in S PROVE x <= y
    OBVIOUS
  <2>1. x \in Nat /\ y \in Nat
    OBVIOUS
  <2>2. ~(y < x)
    BY <1>1, <2>1, Zenon DEF OpToRel
  <2> QED BY <2>1, <2>2
<1> QED BY <1>2 DEF Min

LEMMA FlagsStep == Flags /\ [Next]_vars => Flags'
<1> SUFFICES ASSUME Flags, [Next]_vars PROVE Flags'
  OBVIOUS
<1> USE DEF Flags, chip, daemons, history, SetPower, PowerUnchanged, CloseFd
<1>1. CASE Enable \/ PowerOn \/ StartBccmd \/ StartHciattach \/ Retry \/ DevUp
  BY <1>1 DEF Enable, PowerOn, StartBccmd, StartHciattach, Retry, DevUp
<1>2. CASE DevUpFails \/ LoopEnds \/ StopAfterTimeout \/ StartBluetoothd \/ GiveUp
  BY <1>2 DEF DevUpFails, LoopEnds, StopAfterTimeout, StartBluetoothd, GiveUp
<1>3. CASE Disable \/ StopBluetoothd \/ DisableSocket \/ DevDown \/ StopHciattach \/ PowerOff
  BY <1>3 DEF Disable, StopBluetoothd, DisableSocket, DevDown, StopHciattach, PowerOff
<1>4. CASE IsEnabled \/ CheckPower \/ QuerySocket \/ DevInfo \/ Attach \/ BringUp
  BY <1>4 DEF IsEnabled, CheckPower, QuerySocket, DevInfo, Attach, BringUp
<1>5. ASSUME NEW t \in Thread, FindId(t) \/ FindPath(t) \/ Out(t) PROVE Flags'
  BY <1>5 DEF FindId, FindPath, Out
<1>6. CASE UNCHANGED vars
  BY <1>6 DEF vars
<1> QED BY <1>1, <1>2, <1>3, <1>4, <1>5, <1>6 DEF Next

LEMMA NewFdIsFree == ASSUME TypeOK, FreeFds # {}
                     PROVE  Min(FreeFds) \in Fd /\ fds[Min(FreeFds)] = NoOne
  BY Constants, MinIsFree DEF FreeFds

\* A new socket takes a number that nobody has.
LEMMA OpensFreeFd == ASSUME TypeOK, NEW t \in Thread, OpenSocket(t)
                     PROVE  \E n \in Fd : /\ fds[n] = NoOne
                                          /\ fds' = [fds EXCEPT ![n] = t]
                                          /\ hci_sock' = [hci_sock EXCEPT ![t] = n]
  BY NewFdIsFree DEF OpenSocket

-----------------------------------------------------------------------------
(* Types and points. *)

\* Types hold, each thread is at a point of the calls it makes, and bt_enable
\* tries only while an attempt is left (the variables of bluetooth.c).
THEOREM TypeCorrect == Spec => [](TypeOK /\ Points)
<1>1. Init => TypeOK /\ Points
  <2> SUFFICES ASSUME Init PROVE TypeOK /\ Points
    OBVIOUS
  <2>1. Flags
    BY DEF Init, Flags
  <2> QED BY <2>1, Constants DEF Init, Flags, TypeOK, Points, Cause, EnablePoint, DisablePoint, QueryPoint
<1>2. TypeOK /\ Points /\ [Next]_vars => (TypeOK /\ Points)'
  <2> SUFFICES ASSUME TypeOK, Points, [Next]_vars PROVE (TypeOK /\ Points)'
    OBVIOUS
  <2>0. Flags /\ Flags'
    BY FlagsStep DEF Flags, TypeOK
  <2> USE <2>0 DEF Flags, TypeOK, Points, Cause, EnablePoint, DisablePoint,
                  QueryPoint, chip, daemons, path, history, vars
  <2>1. CASE Enable
    BY <2>1 DEF Enable, Goto, Returns
  <2>2. CASE PowerOn
    BY <2>2 DEF PowerOn, Goto, Fails, AttributeOpens, AttributeFails, SetPower, PowerUnchanged
  <2>3. CASE StartBccmd
    BY <2>3 DEF StartBccmd, Goto, Fails
  <2>4. CASE StartHciattach
    BY Constants, <2>4 DEF StartHciattach, Goto, Fails
  <2>5. CASE Retry
    BY NewFdIsFree, <2>5 DEF Retry, Goto, Fails, OpenSocket
  <2>6. CASE DevUp
    BY <2>6 DEF DevUp, Goto, Returns
  <2>7. CASE DevUpFails
    BY Constants, <2>7 DEF DevUpFails, Goto, Returns, CloseFd
  <2>8. CASE LoopEnds
    BY <2>8 DEF LoopEnds, Goto, Fails
  <2>9. CASE StopAfterTimeout
    BY <2>9 DEF StopAfterTimeout, Goto
  <2>10. CASE StartBluetoothd
    BY <2>10 DEF StartBluetoothd, Goto, Returns, Fails
  <2>11. CASE GiveUp
    BY <2>11 DEF GiveUp, Goto, Fails, AttributeOpens, AttributeFails, SetPower, PowerUnchanged
  <2>12. CASE Disable
    BY <2>12 DEF Disable, Goto, Returns
  <2>13. CASE StopBluetoothd
    BY <2>13 DEF StopBluetoothd, Goto, Fails
  <2>14. CASE DisableSocket
    BY NewFdIsFree, <2>14 DEF DisableSocket, Goto, Fails, OpenSocket
  <2>15. CASE DevDown
    BY <2>15 DEF DevDown, Goto
  <2>16. CASE StopHciattach
    BY <2>16 DEF StopHciattach, Goto, Fails
  <2>17. CASE PowerOff
    BY <2>17 DEF PowerOff, Goto, Returns, Fails, AttributeOpens, AttributeFails, SetPower, PowerUnchanged
  <2>18. CASE IsEnabled
    BY <2>18 DEF IsEnabled, Goto, Returns
  <2>19. CASE CheckPower
    BY <2>19 DEF CheckPower, Goto, Returns, AttributeOpens, AttributeFails
  <2>20. CASE QuerySocket
    BY NewFdIsFree, <2>20 DEF QuerySocket, Goto, OpenSocket
  <2>21. CASE DevInfo
    BY <2>21 DEF DevInfo, Goto, Returns, OwnsSock
  <2>22. ASSUME NEW t \in Thread, FindId(t) PROVE (TypeOK /\ Points)'
    BY Constants, <2>22 DEF FindId
  <2>23. ASSUME NEW t \in Thread, FindPath(t) PROVE (TypeOK /\ Points)'
    BY <2>23 DEF FindPath
  <2>24. ASSUME NEW t \in Thread, Out(t) PROVE (TypeOK /\ Points)'
    <3>1. (fds \in [Fd -> Thread \cup {NoOne}])'
      BY <2>24 DEF Out, CloseFd
    <3>2. (pc \in [Thread -> Point] /\ hci_sock \in [Thread -> Fd \cup {NoSock}])'
      BY <2>24 DEF Out, Goto
    <3>3. (last \in [op : {"none", "enable", "disable"}, ret : {-1, 0}])'
      BY <2>24 DEF Out
    <3>4. Points'
      BY <2>24 DEF Out, Goto
    <3> QED BY <2>24, <3>1, <3>2, <3>3, <3>4 DEF Out
  <2>25. CASE Attach
    BY <2>25 DEF Attach
  <2>26. CASE BringUp
    BY <2>26 DEF BringUp
  <2>27. CASE UNCHANGED vars
    BY <2>27
  <2> QED BY <2>1, <2>2, <2>3, <2>4, <2>5, <2>6, <2>7, <2>8, <2>9, <2>10, <2>11, <2>12, <2>13,
             <2>14, <2>15, <2>16, <2>17, <2>18, <2>19, <2>20, <2>21, <2>22, <2>23, <2>24, <2>25, <2>26, <2>27
      DEF Next
<1> QED BY <1>1, <1>2, PTL DEF Spec

-----------------------------------------------------------------------------
(* Descriptors. *)

SocketInv == OpenedIsKnown /\ KnownIsOpened

\* A thread has no descriptor where it opens one, and keeps the new one.
LEMMA OpeningIsBalanced ==
  ASSUME TypeOK, SocketInv, NEW t \in Thread, NEW to \in SockPoint,
         pc[t] \in {"retry", "sock", "query_sock"},
         OpenSocket(t), pc' = [pc EXCEPT ![t] = to], UNCHANGED history
  PROVE  SocketInv'
<1>1. PICK n \in Fd : /\ fds[n] = NoOne
                     /\ fds' = [fds EXCEPT ![n] = t]
                     /\ hci_sock' = [hci_sock EXCEPT ![t] = n]
  BY OpensFreeFd
<1>2. OpenedIsKnown'
  BY <1>1, Constants DEF SocketInv, OpenedIsKnown, TypeOK, SockPoint
<1>3. KnownIsOpened'
  BY <1>1, Constants DEF SocketInv, KnownIsOpened, TypeOK, SockPoint, history
<1> QED BY <1>2, <1>3 DEF SocketInv

\* Every way out of bt_enable, bt_disable and bt_is_enabled closes the socket
\* that was opened, and only a bt_enable that ran out of attempts can have
\* closed another thread's descriptor.
THEOREM SocketsCorrect == Spec => []SocketsBalanced
<1>1. Init => SocketInv
  BY Constants DEF Init, SocketInv, OpenedIsKnown, KnownIsOpened
<1>2. TypeOK /\ Points /\ SocketInv /\ [Next]_vars => SocketInv'
  <2> SUFFICES ASSUME TypeOK, Points, SocketInv, [Next]_vars PROVE SocketInv'
    OBVIOUS
  <2> USE Constants DEF TypeOK, Points, EnablePoint, DisablePoint, QueryPoint,
                        SockPoint, SocketInv, OpenedIsKnown, KnownIsOpened, history
  <2>1. CASE Enable
    BY <2>1 DEF Enable, Goto
  <2>2. CASE PowerOn
    BY <2>2 DEF PowerOn, Goto
  <2>3. CASE StartBccmd
    BY <2>3 DEF StartBccmd, Goto
  <2>4. CASE StartHciattach
    BY <2>4 DEF StartHciattach, Goto
  <2>5. CASE Retry
    <3>1. CASE OpenSocket("switch")
      BY OpeningIsBalanced, <2>5, <3>1 DEF Retry, Goto
    <3>2. CASE ~OpenSocket("switch")
      BY <2>5, <3>2 DEF Retry, Goto
    <3> QED BY <3>1, <3>2
  <2>6. CASE DevUp
    BY <2>6 DEF DevUp, Goto
  <2>7. CASE DevUpFails
    BY <2>7 DEF DevUpFails, Goto, CloseFd
  <2>8. CASE LoopEnds
    BY <2>8 DEF LoopEnds, Goto
  <2>9. CASE StopAfterTimeout
    BY <2>9 DEF StopAfterTimeout, Goto
  <2>10. CASE StartBluetoothd
    BY <2>10 DEF StartBluetoothd, Goto
  <2>11. CASE GiveUp
    BY <2>11 DEF GiveUp, Goto
  <2>12. CASE Disable
    BY <2>12 DEF Disable, Goto
  <2>13. CASE StopBluetoothd
    BY <2>13 DEF StopBluetoothd, Goto
  <2>14. CASE DisableSocket
    <3>1. CASE OpenSocket("switch")
      BY OpeningIsBalanced, <2>14, <3>1 DEF DisableSocket, Goto
    <3>2. CASE ~OpenSocket("switch")
      BY <2>14, <3>2 DEF DisableSocket, Goto
    <3> QED BY <3>1, <3>2
  <2>15. CASE DevDown
    BY <2>15 DEF DevDown, Goto
  <2>16. CASE StopHciattach
    BY <2>16 DEF StopHciattach, Goto
  <2>17. CASE PowerOff
    BY <2>17 DEF PowerOff, Goto
  <2>18. CASE IsEnabled
    BY <2>18 DEF IsEnabled, Goto
  <2>19. CASE CheckPower
    BY <2>19 DEF CheckPower, Goto
  <2>20. CASE QuerySocket
    <3>1. CASE OpenSocket("query")
      BY OpeningIsBalanced, <2>20, <3>1 DEF QuerySocket, Goto
    <3>2. CASE ~OpenSocket("query")
      BY <2>20, <3>2 DEF QuerySocket, Goto
    <3> QED BY <3>1, <3>2
  <2>21. CASE DevInfo
    BY <2>21 DEF DevInfo, Goto
  <2>22. ASSUME NEW t \in Thread, FindId(t) PROVE SocketInv'
    BY <2>22 DEF FindId
  <2>23. ASSUME NEW t \in Thread, FindPath(t) PROVE SocketInv'
    BY <2>23 DEF FindPath
  <2>24. ASSUME NEW t \in Thread, Out(t) PROVE SocketInv'
    BY <2>24 DEF Out, Goto, CloseFd
  <2>25. CASE Attach
    BY <2>25 DEF Attach
  <2>26. CASE BringUp
    BY <2>26 DEF BringUp
  <2>27. CASE UNCHANGED vars
    BY <2>27 DEF vars
  <2> QED BY <2>1, <2>2, <2>3, <2>4, <2>5, <2>6, <2>7, <2>8, <2>9, <2>10,
         <2>11, <2>12, <2>13, <2>14, <2>15, <2>16, <2>17, <2>18, <2>19,
         <2>20, <2>21, <2>22, <2>23, <2>24, <2>25, <2>26, <2>27 DEF Next
<1>3. SocketInv => SocketsBalanced
  BY DEF SocketInv, OpenedIsKnown, KnownIsOpened, SocketsBalanced, SockPoint
<1> QED BY <1>1, <1>2, <1>3, TypeCorrect, PTL DEF Spec

-----------------------------------------------------------------------------
(* Results. *)

\* Whatever calls that failed half-way came before, what bt_enable and
\* bt_disable return is how the chip and the daemons are, except on the three
\* ways out that ResultIsState leaves aside.
THEOREM ResultCorrect == Spec => []ResultIsState
<1>1. Init => ResultInv
  BY DEF Init, ResultInv, CallIsLast, EnableSoFar, DisableSoFar, OutIsState,
         ResultIsState, EnablePoint, DisablePoint
<1>2. TypeOK /\ Points /\ ResultInv /\ [Next]_vars => ResultInv'
  <2> SUFFICES ASSUME TypeOK, Points, ResultInv, [Next]_vars PROVE ResultInv'
    OBVIOUS
  <2> USE DEF TypeOK, Points, EnablePoint, DisablePoint, QueryPoint, Known,
              AllOn, AllOff, ResultInv, CallIsLast, EnableSoFar, DisableSoFar,
              OutIsState, ResultIsState, chip, daemons, history
  <2>1. CASE Enable
    BY <2>1 DEF Enable, Goto, Returns
  <2>2. CASE PowerOn
    BY <2>2 DEF PowerOn, Goto, Fails, SetPower, PowerUnchanged
  <2>3. CASE StartBccmd
    BY <2>3 DEF StartBccmd, Goto, Fails
  <2>4. CASE StartHciattach
    BY <2>4 DEF StartHciattach, Goto, Fails
  <2>5. CASE Retry
    BY <2>5 DEF Retry, Goto, Fails
  <2>6. CASE DevUp
    BY <2>6 DEF DevUp, Goto, Returns
  <2>7. CASE DevUpFails
    BY <2>7 DEF DevUpFails, Goto, Returns
  <2>8. CASE LoopEnds
    BY <2>8 DEF LoopEnds, Goto, Fails
  <2>9. CASE StopAfterTimeout
    BY <2>9 DEF StopAfterTimeout, Goto
  <2>10. CASE StartBluetoothd
    BY <2>10 DEF StartBluetoothd, Goto, Returns, Fails
  <2>11. CASE GiveUp
    BY <2>11 DEF GiveUp, Goto, Fails, SetPower, PowerUnchanged
  <2>12. CASE Disable
    BY <2>12 DEF Disable, Goto, Returns
  <2>13. CASE StopBluetoothd
    BY <2>13 DEF StopBluetoothd, Goto, Fails
  <2>14. CASE DisableSocket
    BY <2>14 DEF DisableSocket, Goto, Fails
  <2>15. CASE DevDown
    BY <2>15 DEF DevDown, Goto
  <2>16. CASE StopHciattach
    BY <2>16 DEF StopHciattach, Goto, Fails
  <2>17. CASE PowerOff
    BY <2>17 DEF PowerOff, Goto, Returns, Fails, SetPower, PowerUnchanged
  <2>18. CASE IsEnabled
    BY <2>18 DEF IsEnabled, Goto, Returns
  <2>19. CASE CheckPower
    BY <2>19 DEF CheckPower, Goto, Returns
  <2>20. CASE QuerySocket
    BY <2>20 DEF QuerySocket, Goto
  <2>21. CASE DevInfo
    BY <2>21 DEF DevInfo, Goto, Returns
  <2>22. ASSUME NEW t \in Thread, FindId(t) PROVE ResultInv'
    BY <2>22 DEF FindId
  <2>23. ASSUME NEW t \in Thread, FindPath(t) PROVE ResultInv'
    BY <2>23 DEF FindPath
  <2>24. ASSUME NEW t \in Thread, Out(t) PROVE ResultInv'
    BY <2>24 DEF Out, Goto
  <2>25. CASE Attach
    BY <2>25 DEF Attach
  <2>26. CASE BringUp
    BY <2>26 DEF BringUp
  <2>27. CASE UNCHANGED vars
    BY <2>27 DEF vars
  <2> QED BY <2>1, <2>2, <2>3, <2>4, <2>5, <2>6, <2>7, <2>8, <2>9, <2>10,
         <2>11, <2>12, <2>13, <2>14, <2>15, <2>16, <2>17, <2>18, <2>19,
         <2>20, <2>21, <2>22, <2>23, <2>24, <2>25, <2>26, <2>27 DEF Next
<1>3. ResultInv => ResultIsState
  BY DEF ResultInv
<1> QED BY <1>1, <1>2, <1>3, TypeCorrect, PTL DEF Spec

=============================================================================
