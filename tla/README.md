# Verification of the smdk4210-tab device tree

TLA+ models of the hardware abstraction layers in this repository: the audio
HAL (`libaudio/`), the sensors HAL, the camera wrapper and Bluetooth power.
Each module is translated from the source; `PROJECT.json` names, for every
definition, the lines it stands for.

Contents: 1 the system, 2 the models, 3 the runs, 4 the proofs, 5 what is not
modelled, 6 the plan.

## 1. The system

The repository configures Android for Samsung's smdk4210 tablets. Most of it
is configuration; these are the parts with behaviour of their own.

### Audio (`libaudio/tinyalsa_audio`, `libaudio/yamaha-mc1n2-audio`)

AudioFlinger calls the HAL from several binder and playback threads.

| part | state | operations | talks to |
| --- | --- | --- | --- |
| device, `audio_hw.c` | mode, voice volume, mute, `stream_out`, `stream_in`, `ril_interface`, `device->lock` | set_mode, set_voice_volume, set_mic_mute, set_parameters, open/close | all below, under `device->lock` |
| playback stream, `audio_out.c` | pcm, standby, rate, format, resampler, device, `stream_out->lock` | open, write, standby, set_sample_rate, set_format, set_parameters, close | mixer (under `device->lock`), codec (under the stream's lock, except in close) |
| capture stream, `audio_in.c` | the same, and the resampler's buffer and `frames_left` | open, read, standby, the setters, close | mixer, codec |
| RIL interface, `audio_ril_interface.c` | client handle, `device_current`, a lock of its own | open, close, set_route, set_voice_volume, set_twomic, set_mic_mute | the RIL daemon, through libsecril-client |
| mixer, `mixer.c` | for output, input and modem: on or off, current device; the control lists of `tinyalsa-audio.xml` | set_*_state, set_device, volumes, gain, mutes | the sound card's controls |
| configuration parser, `mixer.c` 235-655 | the current device, list and entry while expat calls back | start and end of each element | fills the mixer's lists |
| codec library, `yamaha-mc1n2-audio.c` | one static record: three flags, two devices, the descriptor | start/stop of output, input, modem; set_route; init | ioctls on /dev/snd/hwC0D0 |

What is hard: three kinds of locks taken in different orders, one of them given
up in the middle of a section (`audio_out.c:107`, `audio_in.c:103`) or never
given back (`audio_ril_interface.c:100`); fields compared before the lock
(`audio_hw.c:75, 140`); a stream that is published before and freed before the
lock is taken; a codec library that is called under three different locks and
has none; routes that fail half-way. What makes these parts correct:

- device: mixer, codec and modem follow the mode, the route and the volume; one
  RIL client per call; `device->lock` is released;
- streams: `standby`, the pcm, the codec's flag and the mixer's state tell the
  same story whenever nobody is inside a call; every frame goes out once;
- mixer: `device_current` tells the truth about the card, and a direction that
  is off has left the card as it found it;
- codec: the registers hold the merge of what the flags and devices ask for.

### The rest

| part | state | what is hard | what makes it correct |
| --- | --- | --- | --- |
| poll loop, `libsensors/sensors.cpp` | poll descriptors with `revents`, a wake pipe | `activate` in one thread while another is in `poll`; an event pending in a driver and others in its ring | an enabled sensor's events come out, in order, and a pending event wakes the poller |
| drivers, `SamsungSensorBase.cpp`, `ProximitySensor.cpp`, `LightSensor.cpp` | enabled flag, pending event, last value | a flag set before the step that can fail | the flag is what the kernel was told |
| event ring, `InputEventReader.cpp` | buffer of `2n` events, head, curr, free space | wrap-around, partial reads | a FIFO |
| camera, `CameraWrapper.cpp` | the vendor module, devices | error paths of open, an id one past the end | one vendor device per open wrapper |
| Bluetooth, `bluetooth.c` | rfkill, hciattach, bluetoothd, the HCI device | retry loop, steps that fail one by one | is_enabled is honest; a failed enable or disable leaves a state that the next call can leave |
| settings, `DeviceSettings` (not modelled) | preferences, sysfs files | the value written is the one before the change is stored | after boot the hardware has what the preferences say |
| USB, `init.smdk4210.usb.rc` (not modelled) | properties, gadget attributes | triggers run after each other, and leave attributes of the previous one | the gadget is a function of the chosen configuration |

`sec_keyboard` attaches a line discipline once; `surfaceflinger_client`, the
overlays, `configs/` and `releasetools/` have no behaviour to model.

## 2. The models

They are written at the grain of what another thread can see: one action
per call where one lock covers it, one per lock operation, register or system
call where calls interleave or a later step may fail. Failures of the card, the
codec, the pcm, the RIL, a file, a socket or an allocation are nondeterministic
wherever the code handles them. Variables marked "history" observe and never
guard a step of the code, with one exception: after certain misuses (below)
nothing new is begun. Mutated forms of definitions, marked `(mutant)`, stand
before the definition they mutate and are used by none.

**Mixer** (`mixer.c`). `io[dir]` is `struct tinyalsa_mixer_io`, `hw` the card's
controls; `Enable` and `Disable` are the lists of the configuration file. An
entry point is one action, because every caller holds `device->lock` around it.
Every control write can fail, and leaves the prefix it wrote (`FailPoints`). The
outcome of a direction is a set of records computed by the operators
`set_route_list`, `set_route` and `set_state`, in the order of the code. The
audio devices of a set_device are the bits of one device.

**Mc1n2** (`yamaha-mc1n2-audio.c`). The static record is `state` and `device`;
`regs` is what the three ioctls last programmed. A merged route is represented
by the triple of routes that went into it. A call is: change the record, read
the three directions one at a time, program three registers, notify. `holds`
is the stream lock the caller has; the stop in `audio_hw_close_output_stream`
has none. The lazy open of the node is two steps, the open and the store.
`Reopen` is the HAL being closed and opened again: the record survives. In
between, `audio_hw_open` may have been tried and have found no mixer: it then
starts the library and never stops it, and leaves a descriptor (`Abandoned`).

**AudioOut** (`audio_out.c`, and the routing of `audio_hw.c`). Two threads, the
player that owns the stream and a control thread, each with a program counter
(`pc`, `op`, `arg`); `slock` and `dlock` are the two mutexes. An unlock frees the
lock whoever owns it, as bionic's normal mutex does; `robbed` remembers that it
was somebody else's. `life = "freed"` is the time between the free of
`close_output_stream` and the reset of `device->stream_out`; `uaf` remembers that
a route met it. After either, the calls in progress run to their end and no new
one begins: what the C program does then has no meaning. `mixer` is the output's
state and the device it was last told; switching it can fail, which an open
reports and a close does not look at (613). `failed` remembers that the last open
failed, or that the last close left the mixer on.

**AudioIn** (`audio_in.c`). As AudioOut for the locks of the stream, and the data
path of a read: the loop around the resampler with `get_next_buffer`
(`PullLeft`, `PullRead`) and `release_buffer`. The buffer holds nothing, unwritten
memory, or frames of capture session n, so that a read can tell whose frames it
returns. The resampler may take any number of frames. `dead` is a capture device
that cannot be read; the loop then goes round without a step of the model.

**AudioDevice** (`audio_hw.c`, `audio_ril_interface.c`). A call compares its field,
then takes `device->lock` with all it does up to its first request, then makes
its requests of the RIL one by one (`todo`), then sets the field and returns.
`path`, `volume`, `twomic` are what the modem was told in this call, `clients` the
RIL clients that are open. `PathOf` and `TypeOf` are the switches from a device to
an audio path and to the sound type of a volume; in the first the case of the
SCO devices has no break and ends in that of A2DP (187). `muted` is the last mute
of the call that the mixer took; the RIL's request for it is a stub. Each call of
the mixer (its modem state, a device, a mute) may fail and leave the mixer as it
was, and each RIL request may fail too; `audio_hw.c` looks at neither result.
`missed` is the history of that: the parts of which the last thing asked for was
refused or failed, or which nobody asks for although the device changed (the
sound type after a route). `ril_held` is the lock that
`audio_ril_interface.c:100, 162, 227` leave held, `lost` counts the clients that
were opened over. One binder thread sets modes, routes and volumes, the other
modes and the mute. Of the streams only `stream_out` and its device are kept,
with the same unlocked publishing and freeing as in AudioOut.

**MixerConfig** (`mixer.c` 200-655). The two expat callbacks are one action per kind
of element and end (`StartIo`, `StartDevice`, `StartPath`, `StartCtrl`, `EndIo`, ...),
on `struct tinyalsa_mixer_config_data` and the lists of the mixer. The document
is made up while it is read and kept as a tree in `doc`, so the run covers every
document up to its length. Elements nest as the callbacks expect; attributes are
free: types that are unknown or missing, unknown path types, a second attribute
of a device, controls without a name or value, a path twice. `blocks` counts the
allocations that are still to be freed, `lost` those nobody can free any more.
Where the code goes wrong the model does: a type it does not know leaves the type
of the last device (450), a path that comes again while the first has entries
follows a null pointer (503, status `"crashed"`), a parse that fails frees nothing
(1271), and closing the mixer ends in status `"corrupted"` as soon as one of its lists has two
nodes: `list_head_free` (49-59) frees a whole chain, and 155, 169 and 227 call it for
each node of one (`FreedTwice`).

**Fifo, InputEventReader, Sensors** (`libsensors/`). `InputEventReader` is the ring as
operators on a record, slot by slot: `fill` with its two-part read, `readEvent`,
`next`, the wrap-around of head and curr. `Sensors` is `pollEvents` and `activate` in
two threads over drivers built on `SamsungSensorBase`: each driver's `mEnabled`,
pending event and ring under its lock, the wake pipe, and the `revents` of the
last poll(2). The unlocked look at the pending flags, each event of `readEvents`,
poll(2) and each step of `enable` are actions of their own. `Fifo` is what the
reader of a device is promised, and `Sensors` is shown to implement it
(`RefinesFifo`): the abstract queue is what is in the ring followed by what is in
the device. External are the devices and the motion processing library (MPL).

**Bluetooth** (`bluetooth.c`). A thread that switches and one that asks, with a
program counter each. `FindId` and `FindPath` are the two stores of `init_rfkill`;
`bt_enable` is one action per system call, its retry loop `Retry`, and each may
fail. `fds` are the process's descriptors, which other threads use too, so a
second close of a number shows. The chip, init's daemons and the HCI device are
external: hciattach makes the device appear when it likes, bluetoothd may bring
it up.

**CameraWrapper** (`libcamera/CameraWrapper.cpp`). `camera_device_open` is told apart
into its checks, allocations and the vendor's open, with the error path
`OpenFails` from each; close, the operations and the parameters are one action
each. `held` counts the strings a client has, `copy` is the mode in the one it read
last, and `called` the camera whose vendor device was called last. Ids are what
`atoi` may make of a name, negative ones included. External are the vendor's
module and the camera service.

The modules do not share state. AudioOut and AudioDevice keep of the mixer and
the codec what they can see of it (state and device), and take the failures of
those from Mixer and Mc1n2, whose callers in turn are abstracted to the locks
they hold. Mixer starts from lists of devices such as MixerConfig shows the parser
to build.

## 3. The runs

| run | asks | bounds |
| --- | --- | --- |
| `mixer_routes` | any sequence of mixer calls with failing writes | 2 output devices and the default, 1 input device, 5 controls of which devices share two; unbounded otherwise (all states are reached) |
| `mixer_same_route` | a comment of the code that the code does not keep (below) | the same |
| `mixer_config` | the parser against the tree of the document | 6 elements, counting a device's second attribute: two devices with a path and a control each, or both paths of one; 1 known type per side, 2 controls, 2 values of an io's attribute |
| `mc1n2` | three overlapping callers of the codec library | `MaxCalls = 3`: any two calls overlapping a third, or preceded by one |
| `audio_out` | player and control thread in the playback stream | 1 device, 2 rates, `MaxPcm = 2`: one pcm too many is visible |
| `audio_in` | recorder and control thread in the capture stream | period of 2 frames, reads of 1 and 3, so a read may end inside a period and span two; 2 sessions |
| `audio_device` | two binder threads and the player around calls | 2 devices, earpiece and speaker, of different paths and sound types, of which the player asks for one; 2 volumes, 2 modes; `MaxClients = 2`: one client too many is visible; no new call once a client is forgotten (`MaxLost = 0`) or two parts missed what they were asked for (`MaxMissed = 1`), so any one failure is followed by any calls, and further ones by the calls under way |
| `two_mic` | a comment of the code that the code does not keep | 2 devices, both asked for by everybody |
| `sensors` | the poll thread and a thread that activates | a proximity sensor; a ring of 3 slots and reports of 2 events, so that reports wrap at every offset; room for 2 events in each poll, of which the MPL may take 1; 3 reports; a pipe of 2 bytes |
| `sensors_no_more_data` | a comment of the code that the code does not keep | a ring of 4 slots, 2 reports |
| `bluetooth` | enable and disable while another thread asks | 3 attempts (first, middle, last) for the code's 1000; 3 descriptors |
| `camera` | opens, closes and calls with every step failing | 2 cameras, 3 wrappers: one to spare for an open that fails; a negative id and ids beyond what the code's check lets through; a client holds 2 strings, and sets parameters without bound |

What they show:

- `mixer_routes`: `RouteInForce` says that `device_current` can be trusted unless the
  direction's last list failed; `OffIsSilent` that a direction that is off has
  forgotten its device and, if it never failed, has left the card as it was,
  whatever routes it went through; `SuccessMovesAll` that an output device
  is never set in one direction and left in the other with a return value of 0.
- `mixer_config`: `ParsedIsDocument` compares the lists with the meaning of the tree,
  read off it directly: every device in its direction, in order, with its own
  two lists, and never a crash, for documents without unknown types and repeated
  paths (`Conforms`). A control's place is a path and a number in it, a device's a
  section and a number in it; `Number` counts the places before. `AllFreed` needs no
  such condition: every block is in a list where closing looks for it, once, but
  the devices lost to a second attribute, and a close that meets no list of two
  nodes frees them all. Of one that does, and frees nodes twice, it says nothing.
- `mc1n2`: `CodecFollowsRecord` holds whenever the last call ran alone, also when
  a device changed while everything was off. With overlapping calls it does not
  hold for all directions, but `OwnRouteIsFresh` does: a caller always programs its
  own direction right, because the stream lock it holds keeps the fields still.
  `OneDescriptor`: the unguarded lazy open is harmless unless the library could
  not open the node when it started; an abandoned open is the other exception.
- `audio_out`: `PlayingIsReady`, `MixerFollowsStream`, `RouteIsTold` hold between calls:
  a stream that plays has its pcm open, its codec on and, at a rate that is not the
  native one, the resampler of that rate if it could get one (going back to the
  native rate keeps the old one, 178 and 287). The mixer is on for every stream, and
  off without one unless the last open failed or the last close could not switch
  it off, which it does not notice. `PcmsAreClosed` holds except after the steps
  its comment names, which leak a pcm. `LockHeldInSection` shows that the double unlock of a route to
  device 0 is the only way out of mutual exclusion. `CallsReturn`: no order of the
  two locks blocks a caller.
- `audio_in`: `RecordingIsReady` is the same for capture; `EachFrameOnce` holds across
  reads, standbys and new resamplers; `FreshFrames` pins stale frames on
  `frames_left` surviving the pcm. `ReadReturns`: the loop ends while the device can
  be read.
- `audio_device`: `ModemFollowsMode` in all interleavings: the codec's modem side
  always, the mixer's unless its last switch failed; a later change of mode
  switches it whatever it missed before. `OneClient`: a client is forgotten, and
  stays open for ever, only when two set_mode of a call overlap or a close fails;
  the one the device knows is gone after the call unless it could not be
  closed. `VolumeInForce` and `RoutesAgree` hold for a part that did what it was last
  asked for, whatever failed before or elsewhere. The exceptions are those of the
  code: a new sound type has no volume after a route, since none is asked for
  (309) and an equal one is not passed on (75); a volume of 0 (171) and a mute from
  before the call are not sent; the mixer refuses a mute for the device 0; and a
  device that the mixer failed to switch to is not asked for again, since the
  stream has it already (304). `DeviceLockReleased` fails to hold only through
  `ril_held`.
- `sensors`: `RefinesFifo`: events come out of the ring once and in the order of the
  reports, and none is lost between two calls. `NoLostWakeup` and `PendingIsTaken`:
  the wake byte, written after the flag is set, closes the race of `activate`
  with the unlocked look at the flags. `SleepKnowsValue`: when the thread sleeps
  and nothing is left in the device, the value told last is the sensor's own,
  unless handleEnable could not read it.
- `bluetooth`: `ResultIsState`, for all sequences of calls that failed half-way, but
  for three ways out: the power attribute cannot be written; no socket can be
  had, and the power stays on (179); bluetoothd cannot be started, and the power
  is switched off while the 0 of HCIDEVUP is returned (204-208).
  `SocketsBalanced`: the one double close is that of an enable that ran out of
  attempts (190, 213).
- `camera`: `NothingStranded`: after any failed opens, wrappers and vendor devices
  belong to each other, but for the vendor's device that is given up when there
  is no memory for the operations (513). The id that is let through one too far
  (487) is stopped by the vendor only, as is a negative one. `VendorIsSpared`:
  parameters read, changed or not, and set back, by one client after another,
  reach the vendor under its own names; and only an open camera is called, though
  the operations take no lock.

Three runs are expected to find a violation, each of a comment in the source:

- `mixer.c:765`, "No need to disable and enable the same route": after a route
  that failed half-way, the old device is still `device_current`, and setting it
  again returns 0 with its controls off (`SameRouteIsInForce`).
- `audio_hw.c:167`, "Only enable dualmic for earpiece.": routing a call that
  began on the earpiece to the speaker leaves two-mic on (`TwoMicOnlyForEarpiece`).
- `sensors.cpp:288`, "no more data for this sensor": a driver that hands out its
  pending event returns without looking at its ring, so values of an earlier,
  full read stay there and `revents` is cleared. They come out when the sensor
  reports again, not with the next poll (`NoMoreData`).

Met on the way and not made a run: `bluetooth.c:175` says the loop tries for 10
seconds, and 1000 attempts of 100 ms are 100. `camera_set_parameters` never frees
the copy the fixup made for it (350-357). `tinyalsa_mixer_device_free` and
`tinyalsa_mixer_io_free_devices` free the nodes of a list of two or more twice
(`mixer.c:49-59` with 155, 169, 227). The case of the SCO devices in
`audio_ril_interface_set_route` lacks its break, so calls on them get the path of
A2DP, without noise reduction (187). A negative id passes the check of
`camera_device_open` too.

Fairness. A thread inside a call is scheduled (`WF_vars(Step(t))`); nothing makes a
thread begin one, and nothing is asked of the microphone or the RIL daemon.
AudioOut adds `SF_vars(Lock(t))`: a thread that waits for a mutex which is released
again and again gets it. Linux futexes do not promise this, but the alternative
is starvation by the scheduler, not a fault of the HAL. Sensors has weak fairness of
the poll thread, whose caller polls in a loop, and of an `activate` that has
begun (`EnableHandle`, `WakeWrite`), and the same strong fairness at the driver's
lock (`ReadPending`, `ReadBegin`). Neither an activation nor a report nor an answer
of the MPL is fair: a pending event is taken without them. The MPL is taken to hand
out fewer events than the caller has room for; one that filled it at every read
would keep the loop from the drivers behind it. Mixer, Mc1n2,
MixerConfig, Bluetooth and CameraWrapper state safety only, and no fairness.

Deadlock is checked in every passing run but `mc1n2`, which stops at `MaxCalls`, and
`audio_device`, which really stops when the RIL's lock is left held. MixerConfig
has a step for the end of a parse (`Stopped`).

## 4. The proofs

Every invariant that a passing run checks is proved of its specification by TLAPS,
for every value of the constants that the module's assumptions admit; so is the
refinement of Fifo. Each component has a proof module of its own, but for the
two of `mixer.c`, which share MixerProofs.

| module | theorem | states |
| --- | --- | --- |
| MixerProofs | `MixerCorrect` | the inductive invariant `MixerIInv` |
| | `TypeCorrect`, `RouteCorrect`, `SuccessCorrect` | `TypeOK`, `RouteInForce`, `SuccessMovesAll` |
| | `OffCorrect` | `OffIsSilent`, for a configuration that is `Tidy` |
| | `ConfigCorrect` | the inductive invariant `ConfigIInv` of MixerConfig |
| | `ConfigTypeCorrect`, `ParsedCorrect`, `FreedCorrect` | `ConfigTypeOK`, `ParsedIsDocument`, `AllFreed` |
| Mc1n2Proofs | `TypeCorrect`, `NodeOpenedOnce`, `CodecCorrect`, `OwnRouteCorrect` | `TypeOK` with `FdCount`, `OneDescriptor`, `CodecFollowsRecord`, `OwnRouteIsFresh` |
| AudioOutProofs | `StreamCorrect` | the inductive invariant `StreamIInv` |
| | `TypeCorrect`, `LockCorrect`, `PlayingCorrect`, `PcmsCorrect`, `MixerCorrect`, `RouteCorrect` | `TypeOK`, `LockHeldInSection`, `PlayingIsReady`, `PcmsAreClosed`, `MixerFollowsStream`, `RouteIsTold` |
| | `OrderCorrect` | `LocksAreOrdered`: no order of the two locks can block the callers |
| AudioInProofs | `StreamCorrect` | the inductive invariant `StreamIInv` |
| | `TypeCorrect`, `RecordingCorrect`, `FramesCorrect`, `FreshCorrect` | `TypeOK`, `RecordingIsReady`, `EachFrameOnce`, `FreshFrames` |
| AudioDeviceProofs | `DeviceCorrect` | the inductive invariant `DeviceIInv` |
| | `TypeCorrect`, `ModemCorrect`, `OneClientCorrect`, `VolumeCorrect`, `RoutesCorrect` | `TypeOK`, `ModemFollowsMode`, `OneClient`, `VolumeInForce`, `RoutesAgree` |
| SensorsProofs | `SensorsCorrect` | the inductive invariant `SensorsIInv` |
| | `TypeCorrect`, `WakeupCorrect`, `SleepCorrect` | `TypeOK`, `NoLostWakeup`, `SleepKnowsValue` |
| | `RingIsFifo` | `RefinesFifo`: Sensors implements Fifo |
| BluetoothProofs | `TypeCorrect`, `SocketsCorrect`, `ResultCorrect` | `TypeOK`, `SocketsBalanced`, `ResultIsState` |
| CameraWrapperProofs | `CameraCorrect` | the inductive invariant `CameraIInv` |
| | `TypeCorrect`, `NothingIsStranded`, `VendorGetsItsOwn` | `TypeOK`, `NothingStranded`, `VendorIsSpared` |

The bounds of the runs (`MaxCalls`, `MaxPcm`, `MaxSession`, `MaxReports`, `MaxStrings`,
`MaxElements`, `MaxClients`, `MaxLost`, `MaxMissed`, the numbers of devices, callers' arguments, ring slots, attempts, descriptors)
are arbitrary in the proofs, which therefore hold for behaviours of any length;
only the sensors are the two the source has, and the cameras one or two.
Each inductive invariant was checked by TLC on the constants of its module's run
too (that of MixerConfig with one element less); it is no property of the run,
because the theorem says more.

### The arguments

Hardly any invariant of the runs is inductive as it stands. Most speak of moments
when nobody is in a call; what has to be added is what holds within one.

**Mixer.** `DirectionIs(dir, i, h, f)` says what a direction's record `i` and its fault
`f` have to do with a card that holds `h`: with a current device whose last list
did not fail, its enable list is in force; without any failure, a control of the
direction's own is as it was found unless a device that is enabled writes it
(`Residue`). Every outcome of `set_route` and `set_state`, after any prefix of a list,
meets `Contract`, which carries these two across (`RouteKeepsContract`,
`StateKeepsContract`). The lemmas `OwnStep`, `CloseStep`, `OtherStep` and `Elsewhere` carry
it from one direction to all three, since no direction's own controls are in
the lists of another. `OffIsSilent` needs that disable lists undo enable lists: the
hypothesis `Tidy`, which the configuration of the runs meets (`TidyConfig` in
MCMixer) and which is a demand on the configuration file, not on the code.

**MixerConfig.** The properties speak of a parse that is over; `ParserInv` says what
holds after each element. `TreeIsOpen`: the open elements nest, and are the last of
the tree. `DataIsOpen`: the direction, card, device and list that the callbacks keep
between them are those of the open elements, and null outside. `BlocksAreHeld`:
every block is in a list of the mixer, of the current device, or lost; this part
holds for every document, and gives `AllFreed` at both its moments. As long as
the document conforms, `EndedIsParsed` (the
lists of the mixer are the devices that have ended) and `OpenIsParsed` (the current
device is the last of the tree, and the list pointer is the end of the list its
open path feeds, which is empty at the start of a path because none comes twice).
Two facts carry the steps. What ends or is read comes behind everything before
it, so it gets the next number and changes no other (`NumberOfNext`, `CtrlIsNext`,
`OpenIsNext`); with that, lists and tree are compared place by place and no induction
over the document is needed. And a document that conforms did so before its last
element (`ConformedBefore`), since elements are only added (`TreeGrows`). What is
freed is a count of a union of pairs, a block of a device, to which an appended
device adds its own (`BlocksOfAppended`).

**Mc1n2.** `CodecFollowsRecord` speaks of a moment when nobody is in a call. `IInv`
adds `SoloIsAlone` (a call that ran alone so far is alone now) and `SoloProgress`
(what such a call has read is still what the record holds, and what it has
programmed is what it read, register by register). Each kind of step has a lemma:
beginning, reading, programming, leaving, routing with everything off, reopening.
`OwnRouteIsFresh` needs `OwnInv`, which extends it to the reads and says which lock
each kind of caller holds; the case that matters is a route in the control
thread, which takes the lock that the stream's caller would need. `OneDescriptor`
follows from `FdCount`, the count of descriptors.

**AudioOut, AudioIn.** `StreamIInv` says at which points of which call each lock is
held (`CallsAreInPlace`, `DeviceLockIsHeld`, `StreamLockIsHeld`), which calls may be in
progress in each phase of the stream's life (`LifeOfCalls`), and what stream, pcm,
mixer and codec agree on at every point, not only between calls (`PlayingIsSetUp`,
`PcmsAreCounted`, `MixerIsSet`, `RouteIsSet`). The route to device 0, which gives the
stream's lock up twice, is the reason for the points named one by one. That who
owns a lock has it by one of these points needs no exception for that double
unlock, which is why `LocksAreOrdered`, the safety half of `CallsReturn`, has none. For
capture `FramesAreFresh` ties the frames left in the buffer to the pcm that is
open, `carried` apart.

**AudioDevice.** While a caller holds `device->lock` the modem, the mixer and the
device disagree, and `todo` is how they will agree again. `DeviceIInv` says that
whatever is not in line yet is among the requests still to be made: the volume
(`VolumeComes`), the path and the stream's device (`RouteComes`), the client that is to
be closed (`Clients`), the codec's modem side (`ModemSide`); and that requests are
those of the call that holds the lock (`RequestsOfCall`). A part in `missed` is
promised nothing until it is asked again, and every step that asks it again is
shown to bring it back; that is how the properties survive failures that the
code does not look at.

**Sensors.** The ring comes first. For a ring of any size and any offset, `NextIs`
says that `next` takes the head of the contents, `FillIs` that `fill`, in one part or
in two around the end of the buffer, puts what is read behind them, and
`ReadTakesHead` that a turn of readEvents takes the oldest event a driver holds,
whether it was in the ring or still at the device. `RingIsFifo` follows: a report
is `Put`, a turn of readEvents is `Take`, and every other step leaves the queue
alone. `SensorsIInv` then follows the last value that a device measured
(`HeldIsRead`, `PendingIsNow`, `ToldOrHeld`): it is at the device, in the ring, pending
or told, and where it is held either poll(2) or the `revents` will lead the
thread to it. `PassedIsRead` is the race of `activate` with the unlocked look at the
flags: once the scan is past a driver, its pending event comes with a wake byte.

**Bluetooth.** What a call returns is right because of what it has done when it
gets to each of its points: `EnableSoFar`, `DisableSoFar`, `OutIsState`. A close is that of
the thread's own descriptor because the thread carries it from the open to there
(`OpenedIsKnown`, `KnownIsOpened`), the loop that ran out of attempts apart.

**CameraWrapper.** `OpenSoFar` says what an open has built at each of its steps,
`ClientsAreWhole` that all other wrappers are complete, `OpenIsOwned` that an open
camera is somebody's or given up; the first two give that only open cameras are
called (`CallsAreOpen`). `CopiesAreVendors` makes the round trip of
parameters safe.

### The assumptions

They are the named ASSUMEs of the modules, and TLC evaluates them on every run.
Mostly they keep null values (`NoDevice`, `Zero`, `NoOne`, `NoStream`, `Freed`,
`NoResampler`) apart from what they stand in for, and say that counts are numbers.
The others: `OutDevices` and `InDevices` are disjoint (an input device has the bit
AUDIO_DEVICE_BIT_IN); `Earpiece` is an output device; a mixer configuration has an
enable and a disable list for each of its devices, since the parser makes both; the
compiled-in sensors are among light and proximity, their values are naturals, and
a caller of poll has room for at least one event; the ring has room for an
event (`NumEventsAssumption`); in MixerConfig the markers of a missing or unknown
type and of an incomplete control are no names, and 0, the card of an io that names
none, is among the cards; a period and a read have at least one frame. The
camera's `IsoMode` is the table of iso modes with the vendor's names for them.

### Only model-checked

- `CallsReturn`, `ReadReturns`, `DeviceLockReleased`, `PendingIsTaken`: liveness under
  fairness, and ENABLED, are out of the prover's reach.
- The three properties that are expected to be violated.

## 5. Not modelled

In the modules:

- The rest of `audio_hw_open` and `audio_hw_close`, which allocate, fill and free one
  object, and a call in progress while the device is closed. The master volume,
  and the mute outside a call, are one call of the mixer each (module Mixer).
- An open of a camera without a name, which returns 0 and no device
  (`CameraWrapper.cpp:480, 556`), and the memory after a list was freed twice.
- That a mute is not repeated for the device a call is routed to later: the
  configuration decides whether devices share the control.
- The dlopen and dlsym of the RIL client library.
- The data of a merge (`yamaha_mc1n2_audio_params_*_merge`): a merged route is
  represented by the routes that went into it, in order.
- The bytes of audio, and the arithmetic of frame sizes.
- In Sensors: a poll(2) that fails, a partial event (an input device returns whole
  ones), setDelay, which writes an attribute and changes nothing in the process,
  and closing the device. The light sensor is a parameter of the module; the run
  has the proximity sensor, whose values say more about order.
- In MixerConfig: documents that nest elements as the callbacks do not expect.
- Memory after a use of a freed stream, and what two owners of one mutex do.

Whole parts:

- `device/smdk4210.c`, `mcdriver.h`, `mc1n2.h`: tables and vendor headers, no control.
- `DeviceSettings`: each preference writes one value to one file; what is worth
  stating (the old value at a listener, `DockAudio.java:52`, and what is restored at
  boot) is planned.
- `init.smdk4210.usb.rc`: triggers of init, planned.
- The other init scripts, `ueventd`, `sec_keyboard`, `surfaceflinger_client`, overlays,
  `configs/`, build files and `releasetools/`: declarations, or programs without a
  state of their own.

## 6. The plan

Done: the models of the audio HAL, the parser, sensors, Bluetooth and camera, and the
proofs of all their safety properties. What is left, in this order:

1. `PathMerge`: the merge of codec fields as an operator, with the order in which
   init, output, input and modem are merged.
2. `DeviceSettings`: preference changes, the old value at the listener, boot.
3. `UsbGadget`: triggers and properties.
