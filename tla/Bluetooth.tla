----------------------------- MODULE Bluetooth -----------------------------
(***************************************************************************)
(* Switching Bluetooth on and off, bluetooth.c.                            *)
(*                                                                         *)
(* bt_enable and bt_disable are called by one thread, bt_is_enabled by     *)
(* another; nothing in bluetooth.c keeps them apart.  They share the path  *)
(* of the rfkill attribute, which the first of them finds out, and the     *)
(* process's descriptors.  Every property_set, open, write and ioctl may   *)
(* fail.                                                                   *)
(*                                                                         *)
(* External: the chip (powered or not), init, which starts and stops the   *)
(* daemons it is asked to, hciattach, which makes the HCI device appear    *)
(* some time after it was started, and bluetoothd, which may bring it up.  *)
(***************************************************************************)
EXTENDS Integers, FiniteSetsExt

CONSTANTS
  MaxAttempts,    \* 1000 in the code
  Fd,             \* descriptor numbers
  NoOne           \* a descriptor that is not open

ASSUME BluetoothAssumption ==
  /\ MaxAttempts \in Nat \ {0}
  /\ Fd \subseteq Nat
  /\ NoOne \notin {"switch", "query"}

Thread == {"switch", "query"}
NoSock == -1

VARIABLES
  power,        \* the chip is powered
  hci,          \* the HCI device: "none", "down" or "up"
  hciattach,    \* init runs hciattach
  bluetoothd,   \* init runs bluetoothd
  rfkill,       \* "unset", "id" (rfkill_id is set), "path" (its path, too)
  finder,       \* the thread in init_rfkill between the two
  fds,          \* who opened each descriptor
  pc,           \* where each thread is
  hci_sock,     \* of each thread's call
  ret,          \*
  attempt,      \* of bt_enable
  cause,        \* history: why the present or last call of switch failed
  last,         \* history: the last call of switch and what it returned
  timedOut,     \* history: a bt_enable used up its attempts
  foreign       \* history: a call closed another thread's descriptor

chip == <<power, hci>>
daemons == <<hciattach, bluetoothd>>
path == <<rfkill, finder>>
history == <<last, timedOut, foreign>>
vars == <<chip, daemons, path, fds, pc, hci_sock, ret, attempt, cause, history>>

PowerPoint == {"power_on", "give_up", "power_off", "check_power"}
Point == PowerPoint \cup
  {"idle", "bccmd", "hciattach", "retry", "devup", "timeout", "bluetoothd",
   "stop_bluetoothd", "sock", "devdown", "stop_hciattach", "query_sock",
   "devinfo", "out"}
Cause == {"none", "power", "daemon", "socket", "timeout", "bluetoothd"}

TypeOK ==
  /\ power \in BOOLEAN
  /\ hci \in {"none", "down", "up"}
  /\ hci # "none" => power /\ hciattach
  /\ hciattach \in BOOLEAN /\ bluetoothd \in BOOLEAN
  /\ rfkill \in {"unset", "id", "path"}
  /\ finder \in Thread \cup {NoOne}
  /\ rfkill = "id" <=> finder # NoOne
  /\ fds \in [Fd -> Thread \cup {NoOne}]
  /\ pc \in [Thread -> Point]
  /\ hci_sock \in [Thread -> Fd \cup {NoSock}]
  /\ ret \in [Thread -> {-1, 0, 1}]
  /\ attempt \in 0..MaxAttempts
  /\ cause \in Cause
  /\ last \in [op : {"none", "enable", "disable"}, ret : {-1, 0}]
  /\ timedOut \in BOOLEAN /\ foreign \in BOOLEAN

Init ==
  /\ power = FALSE /\ hci = "none"
  /\ hciattach = FALSE /\ bluetoothd = FALSE
  /\ rfkill = "unset" /\ finder = NoOne
  /\ fds = [n \in Fd |-> NoOne]
  /\ pc = [t \in Thread |-> "idle"]
  /\ hci_sock = [t \in Thread |-> NoSock]
  /\ ret = [t \in Thread |-> -1]
  /\ attempt = 0
  /\ cause = "none"
  /\ last = [op |-> "none", ret |-> -1]
  /\ timedOut = FALSE /\ foreign = FALSE

-----------------------------------------------------------------------------
Goto(t, from, to) == pc[t] = from /\ pc' = [pc EXCEPT ![t] = to]
Returns(t, r) == ret' = [ret EXCEPT ![t] = r]
Fails(why) == cause' = why

\* init_rfkill sets rfkill_id, and then the path made of it.  A thread that
\* searches while another does finds and stores the same.
FindId(t) ==
  /\ pc[t] \in PowerPoint /\ rfkill = "unset"
  /\ rfkill' = "id" /\ finder' = t
  /\ UNCHANGED <<chip, daemons, fds, pc, hci_sock, ret, attempt, cause, history>>

FindPath(t) ==
  /\ finder = t
  /\ rfkill' = "path" /\ finder' = NoOne
  /\ UNCHANGED <<chip, daemons, fds, pc, hci_sock, ret, attempt, cause, history>>

\* The attribute can be opened when its path is there; who comes between the
\* two steps of init_rfkill opens NULL.  Nothing is found, or the file cannot
\* be opened, read or written.
AttributeOpens == rfkill = "path"
AttributeFails(t) == finder # t

\* Without power, or without hciattach, there is no HCI device.
SetPower(on) ==
  /\ power' = on
  /\ hci' = IF on THEN hci ELSE "none"
PowerUnchanged == UNCHANGED chip

FreeFds == {n \in Fd : fds[n] = NoOne}

\* create_hci_sock, and where its failure leads.
OpenSocket(t) ==
  /\ FreeFds # {}
  /\ fds' = [fds EXCEPT ![Min(FreeFds)] = t]
  /\ hci_sock' = [hci_sock EXCEPT ![t] = Min(FreeFds)]

\* close() of the number n by thread t, whoever has it now.
CloseFd(t, n) ==
  /\ fds' = [fds EXCEPT ![n] = NoOne]
  /\ foreign' = (foreign \/ fds[n] \notin {t, NoOne})

\* What the socket's ioctl does when the descriptor is not the thread's own.
OwnsSock(t) == hci_sock[t] \in Fd /\ fds[hci_sock[t]] # NoOne

-----------------------------------------------------------------------------
(* bt_enable. *)

Enable ==
  /\ Goto("switch", "idle", "power_on")
  /\ Returns("switch", -1)
  /\ hci_sock' = [hci_sock EXCEPT !["switch"] = NoSock]
  /\ cause' = "none"
  /\ last' = [last EXCEPT !.op = "enable"]
  /\ UNCHANGED <<chip, daemons, path, fds, attempt, timedOut, foreign>>

PowerOn ==
  /\ \/ AttributeOpens /\ Goto("switch", "power_on", "bccmd") /\ SetPower(TRUE)
        /\ UNCHANGED cause
     \/ AttributeFails("switch") /\ Goto("switch", "power_on", "out")
        /\ PowerUnchanged /\ Fails("power")
  /\ UNCHANGED <<daemons, path, fds, hci_sock, ret, attempt, history>>

StartBccmd ==
  /\ \/ Goto("switch", "bccmd", "hciattach") /\ UNCHANGED cause
     \/ Goto("switch", "bccmd", "give_up") /\ Fails("daemon")
  /\ UNCHANGED <<chip, daemons, path, fds, hci_sock, ret, attempt, history>>

\* (mutant) The power stays on when hciattach cannot be started.
StartHciattach_power_stays ==
  /\ \/ Goto("switch", "hciattach", "retry") /\ hciattach' = TRUE
        /\ attempt' = MaxAttempts /\ UNCHANGED cause
     \/ Goto("switch", "hciattach", "out") /\ Fails("daemon")
        /\ UNCHANGED <<hciattach, attempt>>
  /\ UNCHANGED <<chip, bluetoothd, path, fds, hci_sock, ret, history>>

StartHciattach ==
  /\ \/ Goto("switch", "hciattach", "retry") /\ hciattach' = TRUE
        /\ attempt' = MaxAttempts /\ UNCHANGED cause
     \/ Goto("switch", "hciattach", "give_up") /\ Fails("daemon")
        /\ UNCHANGED <<hciattach, attempt>>
  /\ UNCHANGED <<chip, bluetoothd, path, fds, hci_sock, ret, history>>

\* (mutant) The loop makes one attempt too many.
Retry_once_more ==
  /\ \/ Goto("switch", "retry", "devup") /\ OpenSocket("switch") /\ UNCHANGED cause
     \/ Goto("switch", "retry", "out") /\ Fails("socket")
        /\ hci_sock' = [hci_sock EXCEPT !["switch"] = NoSock] /\ UNCHANGED fds
  /\ UNCHANGED <<chip, daemons, path, ret, attempt, history>>

\* One turn of the loop: a new socket.
Retry ==
  /\ attempt > 0
  /\ \/ Goto("switch", "retry", "devup") /\ OpenSocket("switch") /\ UNCHANGED cause
     \/ Goto("switch", "retry", "out") /\ Fails("socket")
        /\ hci_sock' = [hci_sock EXCEPT !["switch"] = NoSock] /\ UNCHANGED fds
  /\ UNCHANGED <<chip, daemons, path, ret, attempt, history>>

\* HCIDEVUP succeeds, or finds the device up.
DevUp ==
  /\ Goto("switch", "devup", "bluetoothd")
  /\ hci # "none"
  /\ Returns("switch", IF hci = "up" THEN -1 ELSE 0)
  /\ hci' = "up"
  /\ UNCHANGED <<power, daemons, path, fds, hci_sock, attempt, cause, history>>

\* (mutant) The socket of a failed attempt is not closed.
DevUpFails_not_closed ==
  /\ Goto("switch", "devup", "retry")
  /\ Returns("switch", -1)
  /\ attempt' = attempt - 1
  /\ UNCHANGED <<chip, daemons, path, fds, hci_sock, cause, history>>

\* The socket is closed, and its number kept.
DevUpFails ==
  /\ Goto("switch", "devup", "retry")
  /\ Returns("switch", -1)
  /\ CloseFd("switch", hci_sock["switch"])
  /\ attempt' = attempt - 1
  /\ UNCHANGED <<chip, daemons, path, hci_sock, cause, last, timedOut>>

LoopEnds ==
  /\ attempt = 0 /\ Goto("switch", "retry", "timeout")
  /\ timedOut' = TRUE
  /\ Fails("timeout")
  /\ UNCHANGED <<chip, daemons, path, fds, hci_sock, ret, attempt, last, foreign>>

StopAfterTimeout ==
  /\ Goto("switch", "timeout", "give_up")
  /\ \/ hciattach' = FALSE /\ hci' = "none"
     \/ UNCHANGED <<hciattach, hci>>
  /\ UNCHANGED <<power, bluetoothd, path, fds, hci_sock, ret, attempt, cause, history>>

StartBluetoothd ==
  /\ \/ Goto("switch", "bluetoothd", "out") /\ bluetoothd' = TRUE
        /\ Returns("switch", 0) /\ UNCHANGED cause
     \/ Goto("switch", "bluetoothd", "give_up") /\ Fails("bluetoothd")
        /\ UNCHANGED <<bluetoothd, ret>>
  /\ UNCHANGED <<chip, hciattach, path, fds, hci_sock, attempt, history>>

\* set_bluetooth_power(0) on the way out; its result is not looked at.
GiveUp ==
  /\ Goto("switch", "give_up", "out")
  /\ \/ AttributeOpens /\ SetPower(FALSE) /\ UNCHANGED cause
     \/ AttributeFails("switch") /\ PowerUnchanged /\ Fails("power")
  /\ UNCHANGED <<daemons, path, fds, hci_sock, ret, attempt, history>>

-----------------------------------------------------------------------------
(* bt_disable. *)

Disable ==
  /\ Goto("switch", "idle", "stop_bluetoothd")
  /\ Returns("switch", -1)
  /\ hci_sock' = [hci_sock EXCEPT !["switch"] = NoSock]
  /\ cause' = "none"
  /\ last' = [last EXCEPT !.op = "disable"]
  /\ UNCHANGED <<chip, daemons, path, fds, attempt, timedOut, foreign>>

StopBluetoothd ==
  /\ \/ Goto("switch", "stop_bluetoothd", "sock") /\ bluetoothd' = FALSE
        /\ UNCHANGED cause
     \/ Goto("switch", "stop_bluetoothd", "out") /\ Fails("daemon")
        /\ UNCHANGED bluetoothd
  /\ UNCHANGED <<chip, hciattach, path, fds, hci_sock, ret, attempt, history>>

DisableSocket ==
  /\ \/ Goto("switch", "sock", "devdown") /\ OpenSocket("switch") /\ UNCHANGED cause
     \/ Goto("switch", "sock", "out") /\ Fails("socket") /\ UNCHANGED <<fds, hci_sock>>
  /\ UNCHANGED <<chip, daemons, path, ret, attempt, history>>

DevDown ==
  /\ Goto("switch", "devdown", "stop_hciattach")
  /\ hci' \in {hci} \cup (IF hci = "up" THEN {"down"} ELSE {})
  /\ UNCHANGED <<power, daemons, path, fds, hci_sock, ret, attempt, cause, history>>

StopHciattach ==
  /\ \/ Goto("switch", "stop_hciattach", "power_off")
        /\ hciattach' = FALSE /\ hci' = "none" /\ UNCHANGED cause
     \/ Goto("switch", "stop_hciattach", "out") /\ Fails("daemon")
        /\ UNCHANGED <<hciattach, hci>>
  /\ UNCHANGED <<power, bluetoothd, path, fds, hci_sock, ret, attempt, history>>

PowerOff ==
  /\ Goto("switch", "power_off", "out")
  /\ \/ AttributeOpens /\ SetPower(FALSE) /\ Returns("switch", 0) /\ UNCHANGED cause
     \/ AttributeFails("switch") /\ PowerUnchanged /\ Fails("power") /\ UNCHANGED ret
  /\ UNCHANGED <<daemons, path, fds, hci_sock, attempt, history>>

-----------------------------------------------------------------------------
(* bt_is_enabled. *)

IsEnabled ==
  /\ Goto("query", "idle", "check_power")
  /\ Returns("query", -1)
  /\ hci_sock' = [hci_sock EXCEPT !["query"] = NoSock]
  /\ UNCHANGED <<chip, daemons, path, fds, attempt, cause, history>>

CheckPower ==
  /\ \/ AttributeOpens /\ power /\ Goto("query", "check_power", "query_sock")
        /\ UNCHANGED ret
     \/ AttributeOpens /\ ~power /\ Goto("query", "check_power", "out")
        /\ Returns("query", 0)
     \/ AttributeFails("query") /\ Goto("query", "check_power", "out")
        /\ UNCHANGED ret
  /\ UNCHANGED <<chip, daemons, path, fds, hci_sock, attempt, cause, history>>

QuerySocket ==
  /\ \/ Goto("query", "query_sock", "devinfo") /\ OpenSocket("query")
     \/ Goto("query", "query_sock", "out") /\ UNCHANGED <<fds, hci_sock>>
  /\ UNCHANGED <<chip, daemons, path, ret, attempt, cause, history>>

\* HCIGETDEVINFO fails without a device or on a descriptor that was closed.
DevInfo ==
  /\ Goto("query", "devinfo", "out")
  /\ Returns("query", IF OwnsSock("query") /\ hci = "up" THEN 1 ELSE 0)
  /\ UNCHANGED <<chip, daemons, path, fds, hci_sock, attempt, cause, history>>

-----------------------------------------------------------------------------
\* out: of all three.
Out(t) ==
  /\ Goto(t, "out", "idle")
  /\ IF hci_sock[t] # NoSock THEN CloseFd(t, hci_sock[t])
                             ELSE UNCHANGED <<fds, foreign>>
  /\ last' = IF t = "switch" THEN [last EXCEPT !.ret = ret[t]] ELSE last
  /\ hci_sock' = [hci_sock EXCEPT ![t] = NoSock]
  /\ UNCHANGED <<chip, daemons, path, ret, attempt, cause, timedOut>>

\* The device appears, and bluetoothd brings it up.
Attach ==
  /\ power /\ hciattach /\ hci = "none"
  /\ hci' = "down"
  /\ UNCHANGED <<power, daemons, path, fds, pc, hci_sock, ret, attempt, cause, history>>

BringUp ==
  /\ bluetoothd /\ hci = "down"
  /\ hci' = "up"
  /\ UNCHANGED <<power, daemons, path, fds, pc, hci_sock, ret, attempt, cause, history>>

Next ==
  \/ Enable \/ PowerOn \/ StartBccmd \/ StartHciattach \/ Retry \/ DevUp
  \/ DevUpFails \/ LoopEnds \/ StopAfterTimeout \/ StartBluetoothd \/ GiveUp
  \/ Disable \/ StopBluetoothd \/ DisableSocket \/ DevDown \/ StopHciattach
  \/ PowerOff
  \/ IsEnabled \/ CheckPower \/ QuerySocket \/ DevInfo
  \/ \E t \in Thread : FindId(t) \/ FindPath(t) \/ Out(t)
  \/ Attach \/ BringUp

Spec == Init /\ [][Next]_vars

-----------------------------------------------------------------------------
(* Properties. *)

AllOff == ~power /\ hci = "none" /\ ~hciattach /\ ~bluetoothd
AllOn == power /\ hci = "up" /\ hciattach /\ bluetoothd

\* What the last call returned is how things are, whatever calls that failed
\* half-way came before it: after a bt_enable that returned 0 the device is
\* up and bluetoothd runs, after one that failed the chip is off, and after a
\* bt_disable that returned 0 everything is off.  Three ways out are known to
\* break this: the power attribute cannot be written, a socket cannot be had
\* (the power stays on), and bluetoothd cannot be started (the power is
\* switched off, and 0 from HCIDEVUP is returned) (bluetooth.c).
ResultIsState ==
  pc["switch"] = "idle" /\ cause \notin {"power", "socket", "bluetoothd"} =>
    /\ last.op = "enable" /\ last.ret = 0 => AllOn
    /\ last.op = "enable" /\ last.ret # 0 => ~power
    /\ last.op = "disable" /\ last.ret = 0 => AllOff

\* Every way out of the three calls closes the socket that was opened, and
\* only after a bt_enable ran out of attempts, and closed its last socket
\* again, can a call have closed another thread's descriptor (bluetooth.c).
SocketsBalanced ==
  /\ foreign => timedOut
  /\ ~timedOut => \A n \in Fd : \A t \in Thread :
       (fds[n] = t) => pc[t] # "idle" /\ hci_sock[t] = n
  /\ \A t \in Thread : \A n \in Fd : fds[n] = t => pc[t] # "idle"

=============================================================================
