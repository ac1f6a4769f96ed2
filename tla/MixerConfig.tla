---------------------------- MODULE MixerConfig ----------------------------
(***************************************************************************)
(* How mixer.c reads its configuration: the two expat callbacks, which     *)
(* build the lists of devices and controls out of the start and the end of *)
(* each element, and the freeing of those lists.                           *)
(*                                                                         *)
(* The document is made up as it is read, element by element, and kept in  *)
(* doc as the tree it is.  Elements nest as expat guarantees and as the    *)
(* callbacks expect: controls in a path, paths in a device, devices in an  *)
(* output, input or modem, or outside of any.  What the attributes say is  *)
(* free: device types that are unknown or missing, unknown path types,     *)
(* a second attribute of a device, controls without a name or a value, the *)
(* same path twice.                                                        *)
(***************************************************************************)
EXTENDS Integers, FiniteSets, SequencesExt

CONSTANTS
  OutNames,      \* names of output device types
  InNames,       \* names of input device types
  Cards,         \* values of the attribute card, which stands for all of
                 \* an io's attributes; 0 when it is missing
  Ctrls,         \* controls with a name and a value
  Null,          \* the null pointer
  MaxElements    \* bound: elements of a document, and their second attributes

Unknown == "unknown"
Missing == "missing"
Incomplete == "incomplete"     \* a control without a name or a value

IoElement == {"output", "input", "modem"}
TypeName == OutNames \cup InNames \cup {Unknown, Missing}
List == {"enable", "disable"}

\* The device types of the two name spaces.
Const(side, name) == <<side, name>>
NoType == <<"none", "none">>

ParsedDevice == [type : ({"out"} \X OutNames) \cup ({"in"} \X InNames),
                 enable : Seq(Ctrls), disable : Seq(Ctrls)]

ASSUME NamesAssumption ==
  /\ 0 \in Cards
  /\ (OutNames \cup InNames) \cap {Unknown, Missing} = {}
  /\ Incomplete \notin Ctrls
  /\ Null \notin ParsedDevice /\ Null \notin List
  /\ MaxElements \in Nat

VARIABLES
  mixer,         \* mixer[dir]: .devices and .card
  direction,     \* config_data: the fields of this name, except that
  io_card,       \*   io_props is its card,
  type,          \*   type is device_props.type,
  device,        \*
  list_start,    \*   list_start is the list of device it points at,
  list,          \*   and list says whether it is not NULL: the last element
                 \*   of the list list_start points at
  blocks,        \* blocks allocated with calloc and strdup, less those freed
  lost,          \* history: devices that were allocated again and lost
  status,        \* "parsing", "done", "failed", "closed"; "crashed" after a null
                 \* pointer was followed, "corrupted" after a block was read or
                 \* freed that was free already
  doc,           \* history: the document so far, a sequence of sections
  open,          \* history: the elements that are open
  elements       \* history: the number of elements and second attributes

config == <<direction, io_card, type, device, list_start, list>>
memory == <<blocks, lost>>
config_vars == <<mixer, config, memory, status, doc, open, elements>>

ConfigTypeOK ==
  /\ mixer \in [IoElement -> [devices : Seq(ParsedDevice \cup {Null}), card : Cards]]
  /\ direction \in IoElement
  /\ io_card \in Cards
  /\ type \in {NoType} \cup ({"out"} \X OutNames) \cup ({"in"} \X InNames)
  /\ device \in ParsedDevice \cup {Null}
  /\ list_start \in List \cup {Null}
  /\ list \in BOOLEAN
  /\ list => device # Null /\ list_start # Null /\ device[list_start] # <<>>
  /\ blocks \in Nat /\ lost \in 0..MaxElements
  /\ status \in {"parsing", "done", "failed", "crashed", "closed", "corrupted"}
  /\ elements \in 0..MaxElements

ConfigInit ==
  /\ mixer = [dir \in IoElement |-> [devices |-> <<>>, card |-> 0]]
  /\ direction = "output" /\ io_card = 0 /\ type = NoType
  /\ device = Null /\ list_start = Null /\ list = FALSE
  /\ blocks = 0 /\ lost = 0
  /\ status = "parsing"
  /\ doc = <<>> /\ open = <<>> /\ elements = 0

-----------------------------------------------------------------------------
(* The document grows. *)

In(elem) == open # <<>> /\ Last(open) = elem
InIo == open # <<>> /\ Last(open) \in IoElement

StartsWith(elem, attributes) ==
  /\ status = "parsing" /\ elements + attributes <= MaxElements
  /\ elements' = elements + attributes
  /\ open' = Append(open, elem)
Starts(elem) == StartsWith(elem, 1)
Ends(elem) ==
  /\ status = "parsing" /\ In(elem)
  /\ open' = Front(open)
  /\ UNCHANGED <<doc, elements>>

\* A sequence whose last element is changed.
WithLast(s, x) == [s EXCEPT ![Len(s)] = x]
LastSection == Last(doc)
LastDevice == Last(LastSection.devices)

NewDevice(name) == [name |-> name, paths |-> <<>>]
AddDevice(name) ==
  IF open = <<>>
  THEN Append(doc, [dir |-> "none", card |-> 0, devices |-> <<NewDevice(name)>>])
  ELSE WithLast(doc, [LastSection EXCEPT !.devices = Append(@, NewDevice(name))])
AddPath(name) ==
  WithLast(doc, [LastSection EXCEPT !.devices =
    WithLast(@, [LastDevice EXCEPT !.paths =
      Append(@, [name |-> name, ctrls |-> <<>>])])])
AddCtrl(c) ==
  LET p == Last(LastDevice.paths) IN
  WithLast(doc, [LastSection EXCEPT !.devices =
    WithLast(@, [LastDevice EXCEPT !.paths =
      WithLast(@, [p EXCEPT !.ctrls = Append(@, c)])])])

-----------------------------------------------------------------------------
(* tinyalsa_mixer_config_start. *)

StartIo(dir, card) ==
  /\ Starts(dir) /\ open = <<>>
  /\ direction' = dir
  /\ io_card' = card
  /\ doc' = Append(doc, [dir |-> dir, card |-> card, devices |-> <<>>])
  /\ UNCHANGED <<mixer, type, device, list_start, list, memory, status>>

\* The type an attribute gives in the present direction; an unknown name
\* leaves what the last device left.
TypeRead(name) ==
  CASE direction # "input" /\ name \in OutNames -> Const("out", name)
    [] direction = "input" /\ name \in InNames -> Const("in", name)
    [] OTHER -> type

\* The device is allocated in the loop over the attributes, once for each
\* that follows a type: with more attributes all but the last are lost.
StartDevice(name, more) ==
  /\ more => name # Missing
  /\ StartsWith("device", IF more THEN 2 ELSE 1) /\ (open = <<>> \/ InIo)
  /\ type' = TypeRead(name)
  /\ IF name # Missing /\ type' # NoType
     THEN /\ device' = [type |-> type', enable |-> <<>>, disable |-> <<>>]
          /\ blocks' = IF more THEN blocks + 2 ELSE blocks + 1
          /\ lost' = IF more THEN lost + 1 ELSE lost
     ELSE UNCHANGED <<device, memory>>
  /\ doc' = AddDevice(name)
  /\ UNCHANGED <<mixer, direction, io_card, list_start, list, status>>

\* The pointer is set whether or not there is a device.
StartPath(name) ==
  /\ Starts("path") /\ In("device")
  /\ list_start' = IF name \in List THEN name ELSE list_start
  /\ doc' = AddPath(name)
  /\ UNCHANGED <<mixer, direction, io_card, type, device, list, memory, status>>

\* The new control follows config_data->list, which is NULL at the start of
\* every path, also when the list already has elements.
Link(c) ==
  IF device[list_start] = <<>> \/ list
  THEN /\ device' = [device EXCEPT ![list_start] = Append(@, c)]
       /\ list' = TRUE
       /\ UNCHANGED status
  ELSE /\ status' = "crashed"
       /\ UNCHANGED <<device, list>>

\* (mutant) An incomplete control is dropped and not freed.
StartCtrl_incomplete_leaks(c) ==
  /\ status = "parsing" /\ In("path") /\ elements < MaxElements
  /\ elements' = elements + 1
  /\ doc' = AddCtrl(c)
  /\ IF device # Null /\ list_start # Null
     THEN /\ blocks' = blocks + 2 /\ UNCHANGED lost
          /\ IF c = Incomplete THEN UNCHANGED <<device, list, status>> ELSE Link(c)
     ELSE UNCHANGED <<device, list, status, memory>>
  /\ UNCHANGED <<mixer, direction, io_card, type, list_start, open>>

\* A control's node and data are two blocks.  The end of a control does
\* nothing and is part of the step.
StartCtrl(c) ==
  /\ status = "parsing" /\ In("path") /\ elements < MaxElements
  /\ elements' = elements + 1
  /\ doc' = AddCtrl(c)
  /\ IF device # Null /\ list_start # Null /\ c # Incomplete
     THEN Link(c) /\ blocks' = blocks + 2 /\ UNCHANGED lost
     ELSE UNCHANGED <<device, list, status, memory>>
  /\ UNCHANGED <<mixer, direction, io_card, type, list_start, open>>

-----------------------------------------------------------------------------
(* tinyalsa_mixer_config_end. *)

\* (mutant) The end of an io keeps the current direction.
EndIo_direction_kept(dir) ==
  /\ Ends(dir)
  /\ mixer' = [mixer EXCEPT ![dir].card = io_card]
  /\ io_card' = 0
  /\ UNCHANGED <<direction, type, device, list_start, list, memory, status>>

EndIo(dir) ==
  /\ Ends(dir)
  /\ mixer' = [mixer EXCEPT ![dir].card = io_card]
  /\ io_card' = 0
  /\ direction' = "output"
  /\ UNCHANGED <<type, device, list_start, list, memory, status>>

EndDevice ==
  /\ Ends("device")
  /\ mixer' = [mixer EXCEPT ![direction].devices = Append(@, device)]
  /\ blocks' = blocks + 1
  /\ device' = Null
  /\ list' = FALSE
  /\ UNCHANGED <<lost, direction, io_card, type, list_start, status>>

\* (mutant) The end of a path keeps the current list.
EndPath_list_kept ==
  /\ Ends("path")
  /\ list_start' = Null
  /\ UNCHANGED <<mixer, direction, io_card, type, device, list, memory, status>>

EndPath ==
  /\ Ends("path")
  /\ list_start' = Null
  /\ list' = FALSE
  /\ UNCHANGED <<mixer, direction, io_card, type, device, memory, status>>

-----------------------------------------------------------------------------
(* tinyalsa_mixer_config_parse and tinyalsa_mixer_close. *)

ParseDone ==
  /\ status = "parsing" /\ open = <<>>
  /\ status' = "done"
  /\ UNCHANGED <<mixer, config, memory, doc, open, elements>>

\* What the mixer and the document are when the call and the mixer are gone.
Gone ==
  /\ mixer' = [dir \in IoElement |-> [devices |-> <<>>, card |-> 0]]
  /\ doc' = <<>> /\ open' = <<>> /\ elements' = 0
  /\ direction' = "output" /\ io_card' = 0 /\ type' = NoType
  /\ device' = Null /\ list_start' = Null /\ list' = FALSE

\* A read error, or a document that is not well-formed: tinyalsa_mixer_open
\* frees the mixer, and nothing of what is in it.
ParseFails ==
  /\ status = "parsing"
  /\ status' = "failed"
  /\ Gone
  /\ UNCHANGED memory

\* tinyalsa_mixer_device_free: a device, and two blocks for each control.
DeviceBlocks(d) ==
  IF d = Null THEN 0 ELSE 1 + 2 * Len(d.enable) + 2 * Len(d.disable)

\* tinyalsa_mixer_io_free_devices: the blocks of every device, and its node, each
\* as often as it hangs in the lists.
BlocksOf(devices) ==
  UNION {{i} \X (1..DeviceBlocks(devices[i]) + 1) : i \in DOMAIN devices}
Freed(io) == Cardinality(BlocksOf(io.devices))

\* list_head_free frees a node and all that follow it, and is called for each
\* node: with a second node, what was freed is read and freed again.
FreedTwice(io) ==
  \/ Len(io.devices) > 1
  \/ \E i \in DOMAIN io.devices : LET d == io.devices[i] IN
       d # Null /\ (Len(d.enable) > 1 \/ Len(d.disable) > 1)

CloseMixer ==
  /\ status = "done"
  /\ IF \E dir \in IoElement : FreedTwice(mixer[dir])
     THEN status' = "corrupted" /\ UNCHANGED memory
     ELSE /\ status' = "closed" /\ UNCHANGED lost
          /\ blocks' = blocks - Freed(mixer["output"]) - Freed(mixer["input"])
                              - Freed(mixer["modem"])
  /\ Gone

Stopped ==
  status \in {"failed", "crashed", "closed", "corrupted"} /\ UNCHANGED config_vars

ConfigNext ==
  \/ \E dir \in IoElement, card \in Cards : StartIo(dir, card)
  \/ \E name \in TypeName, more \in BOOLEAN : StartDevice(name, more)
  \/ \E name \in List \cup {Unknown} : StartPath(name)
  \/ \E c \in Ctrls \cup {Incomplete} : StartCtrl(c)
  \/ \E dir \in IoElement : EndIo(dir)
  \/ EndDevice \/ EndPath
  \/ ParseDone \/ ParseFails \/ CloseMixer
  \/ Stopped

ConfigSpec == ConfigInit /\ [][ConfigNext]_config_vars

-----------------------------------------------------------------------------
(* What a document means, read off its tree. *)

SideOf(dir) == IF dir = "input" THEN "in" ELSE "out"
NamesOf(dir) == IF dir = "input" THEN InNames ELSE OutNames

\* The number of a place among others, in the order of the document.  A place is
\* a pair: a section and one of its devices, or a path and one of its controls.
Before(p, q) == p[1] < q[1] \/ (p[1] = q[1] /\ p[2] < q[2])
Number(P, p) == Cardinality({q \in P : q = p \/ Before(q, p)})

\* The complete controls of a device's paths of one type.
CtrlPlaces(d, which) ==
  UNION {{k} \X {l \in DOMAIN d.paths[k].ctrls : d.paths[k].ctrls[l] # Incomplete} :
           k \in {k \in DOMAIN d.paths : d.paths[k].name = which}}
ListIs(s, d, which) ==
  LET P == CtrlPlaces(d, which) IN
  /\ Len(s) = Cardinality(P)
  /\ \A p \in P : s[Number(P, p)] = d.paths[p[1]].ctrls[p[2]]

DeviceIs(x, dir, d) ==
  /\ x # Null /\ x.type = Const(SideOf(dir), d.name)
  /\ ListIs(x.enable, d, "enable") /\ ListIs(x.disable, d, "disable")

\* Devices outside of any section are output devices.
DevicePlaces(dir) ==
  UNION {{i} \X DOMAIN doc[i].devices :
           i \in {i \in DOMAIN doc : doc[i].dir = dir \/ (doc[i].dir = "none" /\ dir = "output")}}
DevicesAre(dir, P) ==
  /\ Len(mixer[dir].devices) = Cardinality(P)
  /\ \A p \in P : DeviceIs(mixer[dir].devices[Number(P, p)], dir, doc[p[1]].devices[p[2]])

\* The last of the first n sections that is the direction's own counts.
CardIs(dir, n) ==
  LET own == {i \in 1..n : doc[i].dir = dir} IN
  IF own = {} THEN mixer[dir].card = 0
  ELSE \E i \in own : (\A j \in own : j <= i) /\ mixer[dir].card = doc[i].card

\* Every device has a type its section knows, and no path twice.
Conforms ==
  \A i \in DOMAIN doc : \A j \in DOMAIN doc[i].devices :
    LET d == doc[i].devices[j] IN
    /\ d.name \in NamesOf(doc[i].dir)
    /\ \A k, l \in DOMAIN d.paths :
         k # l => d.paths[k].name # d.paths[l].name \/ d.paths[k].name \notin List

\* Whatever sections, devices and paths come in which order, a document that
\* conforms is parsed to the end, and to what its tree says: every direction
\* has its devices in order, each with its own two lists, and its attributes
\* (the callbacks of mixer.c).
ParsedIsDocument ==
  /\ status = "crashed" => ~Conforms
  /\ status = "done" /\ Conforms =>
       \A dir \in IoElement : DevicesAre(dir, DevicePlaces(dir)) /\ CardIs(dir, Len(doc))

\* Whatever a document that was parsed holds, conforming or not, every block the
\* parser allocated for it is in the mixer's lists, once, where closing finds it,
\* except the devices it allocated again for a second attribute and thereby lost
\* (mixer.c:450, and the two callbacks).  Closing the mixer frees them all if no
\* list has a second node; else it frees nodes twice (mixer.c:155, 169, 227 with
\* 49-59), and nothing is said of what becomes of them.
AllFreed ==
  /\ status = "done" =>
       blocks = lost + Freed(mixer["output"]) + Freed(mixer["input"]) + Freed(mixer["modem"])
  /\ status = "closed" => blocks = lost

=============================================================================
