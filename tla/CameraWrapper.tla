--------------------------- MODULE CameraWrapper ---------------------------
(***************************************************************************)
(* The wrapper around the vendor's camera HAL, libcamera/CameraWrapper.cpp.*)
(*                                                                         *)
(* A wrapper holds a vendor device and a table of operations that call it. *)
(* Opening and closing are serialized by gCameraWrapperLock; the number of *)
(* cameras and the operations of an open device are asked without it.  The *)
(* steps of an open are told apart, because each may fail.  An open        *)
(* without a name, which returns 0 and no device (CameraWrapper.cpp:480,   *)
(* 556), is left out: the service always gives one.                        *)
(*                                                                         *)
(* External: the vendor's module, which opens a camera it has and that is  *)
(* not open, and keeps the parameters it is given; and the camera service, *)
(* which opens no camera it holds and closes what it holds.                *)
(***************************************************************************)
EXTENDS Integers, FiniteSets

CONSTANTS
  Handle,       \* wrappers that may exist at the same time
  NumCameras,   \* what the vendor's get_number_of_cameras returns
  MaxStrings    \* bound: parameter strings a client holds at once

ASSUME CameraAssumption ==
  /\ NumCameras \in 1..2
  /\ MaxStrings \in Nat

\* Cameras the vendor has, and the rows of iso_values.
Camera == 0..NumCameras - 1
NoCamera == -1
\* What atoi may make of a name, -2 for every negative number.
Id == {-2} \cup 0..NumCameras + 1

\* iso_values: the modes a client is told it may set.
iso_values == [id \in 0..1 |->
  IF id = 0 THEN {"auto", "ISO50", "ISO100", "ISO200", "ISO400", "ISO800"}
            ELSE {"auto"}]
\* The same modes as the vendor names them.
VendorIso == {"auto", "50", "100", "200", "400", "800"}
IsoMode == VendorIso \cup iso_values[0]

\* Operations that only call the vendor's function of the same name.
Forwarded ==
  {"set_preview_window", "set_callbacks", "enable_msg_type", "disable_msg_type",
   "msg_type_enabled", "start_preview", "stop_preview", "preview_enabled",
   "store_meta_data_in_buffers", "start_recording", "stop_recording",
   "recording_enabled", "release_recording_frame", "auto_focus",
   "take_picture", "release", "dump"}
Operation == Forwarded \cup {"cancel_auto_focus", "cancel_picture", "send_command"}

VARIABLES
  module,       \* gVendorModule is set
  call,         \* the open in progress, which holds the lock
  wrapper,      \* wrapper_camera_device_t: .id, .vendor, .ops, .live
  client,       \* the wrappers the camera service was given
  vendorOpen,   \* cameras open at the vendor
  iso,          \* the iso mode the vendor keeps for each camera
  held,         \* parameter strings the client has of each wrapper
  copy,         \* the iso mode in the last of them, "auto" if there is none
  called,       \* the camera whose vendor device was called last
  stranded      \* history: cameras whose wrapper was freed and that stayed open

heap == <<wrapper, client, vendorOpen>>
params == <<iso, held, copy>>
vars == <<module, call, heap, params, called, stranded>>

NoWrapper == [live |-> FALSE, ops |-> FALSE, id |-> NoCamera, vendor |-> NoCamera]

TypeOK ==
  /\ module \in BOOLEAN
  /\ call \in [at : {"none", "check", "alloc", "vendor", "ops", "fail"},
               id : Id \cup {NoCamera}, w : Handle]
  /\ wrapper \in [Handle -> [live : BOOLEAN, ops : BOOLEAN,
                             id : (Id \ {NumCameras + 1}) \cup {NoCamera},
                             vendor : Camera \cup {NoCamera}]]
  /\ client \subseteq Handle
  /\ vendorOpen \subseteq Camera
  /\ iso \in [Camera -> IsoMode]
  /\ held \in [Handle -> 0..MaxStrings]
  /\ copy \in [Handle -> IsoMode]
  /\ called \in Camera \cup {NoCamera}
  /\ stranded \subseteq Camera

Idle == call.at = "none"

Init ==
  /\ module = FALSE
  /\ \E w \in Handle : call = [at |-> "none", id |-> NoCamera, w |-> w]
  /\ wrapper = [w \in Handle |-> NoWrapper]
  /\ client = {}
  /\ vendorOpen = {}
  /\ iso = [c \in Camera |-> "auto"]
  /\ held = [w \in Handle |-> 0]
  /\ copy = [w \in Handle |-> "auto"]
  /\ called = NoCamera
  /\ stranded = {}

-----------------------------------------------------------------------------
(* camera_device_open. *)

At(from, to) == call.at = from /\ call' = [call EXCEPT !.at = to]

\* Any name the service may come up with; it opens no camera twice.
Open(id, w) ==
  /\ Idle /\ ~wrapper[w].live
  /\ \A v \in client : wrapper[v].id # id
  /\ call' = [at |-> "check", id |-> id, w |-> w]
  /\ UNCHANGED <<module, heap, params, called, stranded>>

\* check_vendor_module; without a module the call returns.
OpenChecks ==
  /\ \/ At("check", "alloc") /\ module' = TRUE
     \/ call.at = "check" /\ ~module /\ UNCHANGED module
        /\ call' = [call EXCEPT !.at = "none", !.id = NoCamera]
  /\ UNCHANGED <<heap, params, called, stranded>>

\* (mutant) The id is not checked.
InBounds_unchecked(id) == id \in Id

InBounds(id) == id <= NumCameras   \* negative numbers pass, too

OpenAllocates ==
  LET new == [NoWrapper EXCEPT !.live = TRUE, !.id = call.id] IN
  /\ \/ InBounds(call.id) /\ At("alloc", "vendor")
        /\ wrapper' = [wrapper EXCEPT ![call.w] = new]
     \/ At("alloc", "fail") /\ UNCHANGED wrapper
  /\ UNCHANGED <<module, client, vendorOpen, params, called, stranded>>

OpenVendor ==
  /\ \/ call.id \in Camera \ vendorOpen /\ At("vendor", "ops")
        /\ vendorOpen' = vendorOpen \cup {call.id}
        /\ wrapper' = [wrapper EXCEPT ![call.w].vendor = call.id]
     \/ At("vendor", "fail") /\ UNCHANGED <<vendorOpen, wrapper>>
  /\ UNCHANGED <<module, client, params, called, stranded>>

\* Without memory for the operations the vendor's device is forgotten.
OpenOps ==
  /\ \/ /\ call.at = "ops"
        /\ wrapper' = [wrapper EXCEPT ![call.w].ops = TRUE]
        /\ client' = client \cup {call.w}
        /\ call' = [call EXCEPT !.at = "none", !.id = NoCamera]
        /\ UNCHANGED stranded
     \/ At("ops", "fail") /\ stranded' = stranded \cup {call.id}
        /\ UNCHANGED <<wrapper, client>>
  /\ UNCHANGED <<module, vendorOpen, params, called>>

\* (mutant) A failed open keeps the wrapper.
OpenFails_wrapper_kept ==
  /\ call.at = "fail"
  /\ call' = [call EXCEPT !.at = "none", !.id = NoCamera]
  /\ UNCHANGED <<module, heap, params, called, stranded>>

OpenFails ==
  /\ call.at = "fail"
  /\ wrapper' = [wrapper EXCEPT ![call.w] = NoWrapper]
  /\ call' = [call EXCEPT !.at = "none", !.id = NoCamera]
  /\ UNCHANGED <<module, client, vendorOpen, params, called, stranded>>

-----------------------------------------------------------------------------
(* camera_device_close, and the module's functions. *)

Close(w) ==
  /\ Idle /\ w \in client /\ held[w] = 0
  /\ vendorOpen' = vendorOpen \ {wrapper[w].vendor}
  /\ wrapper' = [wrapper EXCEPT ![w] = NoWrapper]
  /\ client' = client \ {w}
  /\ UNCHANGED <<module, call, params, called, stranded>>

\* camera_get_number_of_cameras and camera_get_camera_info, without the lock.
AskModule ==
  /\ module' = TRUE
  /\ UNCHANGED <<call, heap, params, called, stranded>>

-----------------------------------------------------------------------------
(* The operations of a device. *)

\* VENDOR_CALL: which function it is makes no difference here.
VendorCall(w) == called' = wrapper[w].vendor

\* Two operations are kept from the vendor, which does not survive them;
\* cancelling a picture calls its take_picture.
Operate(w, op) ==
  /\ w \in client
  /\ IF op \in {"cancel_auto_focus", "send_command"} THEN UNCHANGED called ELSE VendorCall(w)
  /\ UNCHANGED <<module, call, heap, params, stranded>>

\* (mutant) Only two of the client's names are translated.
camera_fixup_setparams_partly(mode) ==
  CASE mode = "ISO50" -> "50" [] mode = "ISO100" -> "100" [] OTHER -> mode

\* camera_fixup_setparams: the client's names become the vendor's, and what
\* is none of them is left as it is.
camera_fixup_setparams(mode) ==
  CASE mode = "ISO50" -> "50"
    [] mode = "ISO100" -> "100"
    [] mode = "ISO200" -> "200"
    [] mode = "ISO400" -> "400"
    [] mode = "ISO800" -> "800"
    [] OTHER -> mode

\* A client sets a mode it was told of, or the one it read, as often as it
\* likes.  The copy handed to the vendor is not freed.
SetParameters(w) ==
  /\ w \in client
  /\ \E mode \in iso_values[wrapper[w].id]
                   \cup (IF held[w] > 0 THEN {copy[w]} ELSE {}) :
       iso' = [iso EXCEPT ![wrapper[w].vendor] = camera_fixup_setparams(mode)]
  /\ VendorCall(w)
  /\ UNCHANGED <<module, call, heap, held, copy, stranded>>

\* The vendor's string goes back to the vendor, a copy to the client.
GetParameters(w) ==
  /\ w \in client /\ held[w] < MaxStrings
  /\ copy' = [copy EXCEPT ![w] = iso[wrapper[w].vendor]]
  /\ held' = [held EXCEPT ![w] = @ + 1]
  /\ VendorCall(w)
  /\ UNCHANGED <<module, call, heap, iso, stranded>>

\* The client's copy is freed here, without the vendor.
PutParameters(w) ==
  /\ w \in client /\ held[w] > 0
  /\ held' = [held EXCEPT ![w] = @ - 1]
  /\ copy' = [copy EXCEPT ![w] = IF held[w] = 1 THEN "auto" ELSE @]
  /\ UNCHANGED <<module, call, heap, iso, called, stranded>>

Next ==
  \/ \E id \in Id, w \in Handle : Open(id, w)
  \/ OpenChecks \/ OpenAllocates \/ OpenVendor \/ OpenOps \/ OpenFails
  \/ AskModule
  \/ \E w \in Handle :
       \/ Close(w)
       \/ \E op \in Operation : Operate(w, op)
       \/ SetParameters(w) \/ GetParameters(w) \/ PutParameters(w)

Spec == Init /\ [][Next]_vars

-----------------------------------------------------------------------------
(* Properties. *)

\* Between two opens, whatever opens failed and at which step, the wrappers
\* that exist are those the service holds, each whole and with a vendor
\* device of its own camera that no other has, and every camera that is open
\* at the vendor has one, except those an open gave up when it found no
\* memory for the operations (camera_device_open and camera_device_close).
NothingStranded ==
  Idle =>
    /\ \A w \in Handle :
         wrapper[w].live = (w \in client) /\ wrapper[w].ops = (w \in client)
    /\ \A w \in client : wrapper[w].vendor = wrapper[w].id
                         /\ wrapper[w].id \in vendorOpen
    /\ \A v, w \in client : v # w => wrapper[v].id # wrapper[w].id
    /\ vendorOpen = {wrapper[w].id : w \in client} \cup stranded

\* The vendor is only ever given names of iso modes it knows, also when a client
\* sets back what it read after it, or an earlier client, set another mode in
\* the client's own names; and it is only called for a camera that is open, by
\* operations that take no lock while another open is under way or fails
\* (camera_fixup_setparams and the operations of CameraWrapper.cpp).
VendorIsSpared ==
  /\ [](\A c \in Camera : iso[c] \in VendorIso)
  /\ [][called' # called => called' \in vendorOpen]_vars

=============================================================================
