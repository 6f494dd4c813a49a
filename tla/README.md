# A formal model of the wbr_control firmware

TLA+ modules, model-checking configurations and machine-checked proofs about the robot
firmware in `src/`: a Zephyr application of one board that reads an operator's remote over a
UART, turns it into commands for four actuator modules, and drives motors over CAN and servos
over a serial bus. Line numbers refer to the sources as they are; paths are relative to `src/`.

- [The system](#the-system): components, state, interactions, what is hard
- [The modules](#the-modules): what each models and how it corresponds to the code
- [The runs](#the-runs): what TLC checks, with which bounds, and what it shows
- [Fairness](#fairness)
- [The proofs](#the-proofs)
- [Disagreements with the documentation](#disagreements-with-the-documentation)
- [Not modelled](#not-modelled) and [the plan](#the-plan)

## The system

One thread per component, all module threads at the same preemptible priority
(`K_PRIO_PREEMPT(8)`) with time slices of a millisecond, the main thread above them, the shell
at the lowest priority; interrupts for CAN and UART. Threads communicate through zbus channels
(one mailbox each, read and written with `K_NO_WAIT`), message queues (`k_msgq`, put with
`K_NO_WAIT`) and, in one place, a mutex.

```
 UART irq --> uart_dispatch --> queue --> remote_input --+--> channel --> chassis --> CAN1 0x200
                 |                                       +--> channel --> arm -----> CAN3 0x200, DM
                 +--> queue --> referee                  +--> channel --> gantry --> CAN3 0x200, ...
                 +--> queue --> MAVLink mode             +--> channel --> gimbal --> serial servos
 CAN irq --> rx queue --> can_dispatch --> module queues --> chassis, arm, gantry
 shell --> chassis tuning service --> chassis (pid_mutex_)      shell --> littlefs
 main --> bootstrap --> infrastructure, module manager --> all of the above
```

| Component | State it keeps | Operations | What is hard | What makes it correct |
|---|---|---|---|---|
| `uart_dispatch`, UART queues | three bounded queues of chunks | cut received bytes, put without waiting | chunks cut frames anywhere; a full queue loses the newest chunk | every consumer recovers from any cut and any loss |
| `remote_input` | `binary_buf_`, `line_buf_`, `latest_input_`, sequence numbers | drain the queue, decode DR16, VT03 and text lines, compose and publish four commands | two decoders over one stream; three frame lengths tried on one buffer; a latch that is never cleared | accepts exactly the frames and lines of the stream; publishes the newest; the inner loop ends |
| command channels | the last message | publish, read | both may fail; a read does not say whether the message is new | — |
| `chassis` | command, idle count, wheel targets, four `Pid`s, tuning | read the command, time out, kinematics, speed control, send | stale commands; the operator changes the tuning while the loop computes | stops when told to; one tuning per round |
| `arm` | joint angles, wrist target, feedback | read, integrate deltas, send DM and DJI frames | shares the frame 0x200 on CAN3 with the gantry | never drives what is disabled |
| `gantry` | axis distances, feedback, frame budget | read, integrate, send; nothing at all while disabled | the Y axis is stopped only by the arm's zero slots; the budget of feedback frames | no feedback left behind for ever |
| `gimbal` | angles, `servo_enable_`, `servo_stopped_`, idle count | find two servos, send positions, send Stop once | Stop is suppressed after the first one; late answers on the serial bus | Stop is the last packet; each servo gets its own id |
| `can_dispatch`, CAN queues | rx queue, module queues | receive callback, routing thread, send | two queues in a row that overflow; the same table in two places | feedback gets lost but never goes back |
| tuning service, shell | list of providers; local copies | set, reset, save, load | torn files, failing file operations, a reboot at any step | what is reported as saved is saved |
| `littlefs_service` | `g_mounted` | mount, else format and mount | formats on every failure; test and set without a lock | does not format a healthy file system |
| bootstrap, module manager, registry, runtime init | modules, `builtins_registered_`, status | register, initialise, start, report | a thread that starts too early; a start that fails half way | all initialised before any runs; a failed boot moves nothing |
| `referee` | `g_stream_buf`, `g_state` | drain the queue, find frames, publish the state | frames cut anywhere; a length byte that lies; a chunk that overwrites an incomplete frame | the state is what the last complete frames say; the parser ends |
| `sys_state` | LEDs and buzzer | show the state | loop without a sleep | — |
| MAVLink mode | mode flag, two threads, three counters, a queue | switch on and off; send heartbeats, parse | the shell sets the flag, clears the counters and creates the threads one after the other; a queue that nobody reads while the mode is off | the counters are the session's; nothing is sent after off; a full queue harms no other reader |
| `usb_session` | `g_tx_busy`, `g_tx_buffer`, two read buffers, a queue | initialise, send, receive; callbacks for bus events and both endpoints | test, copy, claim and start are four statements; a reset comes between any two; a message of whole packets needs an empty one | the host gets whole messages in order; not busy for ever; no packet twice |
| motor and remote protocols, PC link | none | encode and decode frames | fields that straddle bytes, signs, quantisation, limits | a receiver reads what the sender meant |
| motors' start-up, in `arm` and `gantry` | `feedback_` | control frames once, then positions or speeds | results ignored; control frames share ids with data | motors end up on and follow; a grip is kept |
| algorithms | none or one controller's | pure functions | floating point | — |

`PROJECT.json` lists every component with its status, and every hazard with the line at which
it bites and the properties that guard it.

## The modules

### The UART line: `LossyLine`, `UartFanout`

The receive callback cuts bytes into chunks and queues them (`Arrive`), the dispatcher's thread
takes a chunk (`Take`) and puts a copy into each of the three queues, one after the other
(`Route`, `Put`), and the readers take them out (`Dequeue`). A put into a full queue loses the
chunk for that reader alone. `ReceiverStops` is the callback's answer to `UART_RX_DISABLED`,
whose result the code ignores. A chunk is its number on the line; its bytes are the matter of
`RemoteInputStream` and `RefereeStream`. `LossyLine` is the promise: each reader gets the line
in order, with gaps.

### Operator input: `InputSource`, `RemoteInputStream`, `RemoteInputHistory`

`RemoteInputStream` is `remote_input_module.cpp` from the queue to the latch, one step per program
point: `Route` is the dispatcher's put; `Dequeue`, `AppendByte`, `DecodeStep` (one iteration of
`TryDecodeBinaryFrames`), `DecodeDone`, `TextStep` (the text decoder on the same byte), `ChunkDone`,
`Publish` and `Wake` are the thread. `published` is the input that the commands of a round are
composed from; whether their four publications succeed is in `CommandPath`. `bin` is `binary_buf_`
up to `binary_len_`, `line` is `line_buf_` up to `line_pos_`. Bytes are abstract; which windows are
valid frames and what they say are four functions, so that the theorems hold of every validity
check. The frame lengths are parameters ordered as 18 < 21 < 39.

`InputSource` is what the rest of the robot relies on: from time to time the latched input is
replaced by some member of `OperatorInput`, once per round it is published, and there is no way
back to "no input". The decoder implements it with DR16 frames and text lines as the only
sources; `CommandPath` uses it with any set of sources and inputs.
`RemoteInputHistory` adds the past (bytes handled, inputs accepted) so that the incremental
decoder can be compared with `Reading`, a definition over the whole stream, one byte after the
other, in which chunks, queue and buffers do not occur.

### The remotes' frames: `RemoteFrames`

The bytes that `RemoteInputStream` leaves abstract: `dr16_protocol.cpp`, `vt03_protocol.cpp` (the
remote's frame, and the custom controller's, which always enables the chassis) and `pc_link.cpp`,
shift by shift, against a definition in terms of bits in the order in which they are sent. Axes are
whole numbers of 660ths (DR16) or 132000ths (VT03), in which the code's floating-point quotients and
limits are exact.

### Referee data: `RefereeStream`, `RefereeHistory`

`referee_client.cpp` and the module's loop: `Feed` dequeues a chunk and copies all of it into
the buffer, then `SkipByte`, `ParseFrame` and `ParseDone` are the iterations and the end of
`TryParseStream`, and `Publish` and `Wake` end the round. `DataLen` is the meaning of the two
length bytes and `Update` what a frame sets; both are arbitrary functions. `RefereeHistory`
records the bytes and finds the frames of the whole stream at once: `Boundaries` are the positions
at which a frame may begin, `LastReport` what the last frame about a part of the state says. When
a chunk overwrites bytes of an incomplete frame, the comparison starts again with what is left.

### Commands: `CommandPath`

The latched input (an instance of `InputSource`), the four publications of a round in their
order, the four mailboxes, and the loops of chassis, arm, gimbal and gantry, each split at the
point where the code goes from reading to sending. Every zbus call and every transmission takes
a Boolean: whether it succeeded. Commands are reduced to what they allow (`enable`, `move`,
`wrist`), accumulated setpoints to a distance from zero, motors to what they were last told:
`off`, `hold` or `drive`. The 0x200 frame on CAN3 has slots for the wrist and for the gantry's
Y axis, and each sender fills the other's with zero, as the code does. `Configs` are the builds:
which of the four modules exist.

### Motors: `MotorFrames`, `MitMotors`

`MotorFrames` is the arithmetic of the three motor protocols: the two ways in which the code
writes a frame of four currents, feedback with its signs, and the five quantised fields of an
MIT frame, with C's integer widths and physical values in whole hundredths. The length of a frame
is its `dlc`: a report with too few bytes is `Rejected`, as the decoders do.

`MitMotors` is what arm and gantry do with them. `Startup` are the control frames that
`SendDmStartupSequence` and `SendCubemarsStartupSequence` send once, every result ignored; then each
round first drains the queue of reports (`DecodeCanFramesInQueue`) and then reads the command, moves
the setpoints within their limits, holds the claw while its current says so, and sends a position
(DM) or a speed (Cubemars) per motor (`ArmRound`, `GantryRound`). Reports and commands come at any
moment, also between the two halves, where a report is too late for the round. `closings` is
history: how often the claw has closed further since its reports show the holding current. The
motors are external: one that is off, on or in an error obeys control frames and takes an MIT frame
for its orders, read with `ReadMit`, the counterpart of the packing in the code. `Send(FALSE)` is a
frame that is lost.

### Servo discovery: `ServoBus`

`GimbalModule::Initialize` from the point where the serial servos are ready, down to the
bytes. `Send` is the query of `ReadId`; `ReadByte`, `Tick` and `TimedOut` are the three outcomes
of an iteration of `PollOneByte`; `NextGot` and `Complete` are `ReceivePacket` on the bytes
collected so far. `query` says which of the three `ReadId` calls is under way. Bytes have their
real values, because the question is what the checksum lets through. The bus is external: any
set of servos is present, a servo asked answers once, whenever it likes or never, bytes are
lost from the receiver and stray ones appear. `faults` and `losses` record what went wrong.

`Actuators` puts the three modules that bring up their actuators themselves side by side: a
behaviour is that of arm, gantry or gimbal, since they share neither a bus nor a motor.

### Feedback: `LossyFeedback`, `CanFeedback`

The receive callback (`Arrive`), the routing thread (`Take`, `Route`), the module queues and
the drain loops (`Decode`, `Drained`), then the rest of the round (`Compute`). The routing table
and the three decoders are translated separately, because they are separate in the code. The
gantry's budget is counted as the code counts it: twice for a DJI frame, once for a Cubemars
frame, not at all for one that does not decode. `LossyFeedback` is the promise: reports get
lost but are never seen out of order.

### Tuning: `TuningRegister`, `ChassisTuning`, `ProviderList`, `TuningProviders`, `TuningService`

`ChassisTuning`: the shell's `chassis pid` commands, the chassis loop and `pid_mutex_`, wheel by
wheel, and the file with open, write, sync and close. `Reboot` may happen at any step and keeps
only the flash. A tuning has the two limits, each positive, not positive or not a number, because
`SetSpeedPidTuning` rejects what compares at most zero (`chassis_module.cpp:58`) and a NaN does not;
the gains are one field that nothing looks at. `Accepted` are the tunings that pass that test, and
nothing else keeps the others out. Of an integral the model keeps the tunings under which it was
accumulated, which is what tells a clean change from a mixed one. `TuningRegister` is the promise:
one atomic register of accepted tunings.

`TuningProviders` is the table in `chassis_tuning_service.cpp`: slots with priorities, which are any
integers, and orders of registration, a count kept beside them, and calls in two steps, because the
provider is looked up under the mutex and called after it. `ProviderList` is the promise: a list in
the order of registration whose best entry a call reaches. The refinement maps the slots in use, in
the sequence of their orders (`ByOrder`), to the list (`Listed`). `TuningService` extends both
halves of a command, the table and the provider, and interleaves their steps.

### MAVLink mode: `MavlinkMode`

`mavlink_mode_shell.cpp` on top of `UartFanout`. `OnSteps` are the statements of `mavlink on` in
their order; the sending and receiving threads run at a higher priority than the shell, so that a
command starts while both sleep and may be preempted after each of its statements. `TxThread`
and `RxThread` are the threads from one test of the flag to the next. Counters wrap.
`session` is history: what was really sent and received since the last "on".

### USB: `LossyQueue`, `UsbSession`

`usb_session.cpp`: `Send` statement by statement (test, copy, claim, start, release), the event
handler, both endpoint callbacks and `Receive`. `HostTakes` is the host, which takes a transfer
packet by packet out of `g_tx_buffer` as it is then, so that a buffer overwritten too early
shows. A message that fills its last packet is followed by an empty one, which
`UsbBulkInCallback` starts, perhaps in vain. `LossyQueue` is the promise of the way in.

### Boot: `Startup`

`Bootstrap::Run` with `InitializeInfrastructure`, `RegisterApplicationModules`,
`ModuleManager::Initialize` and `Start` as loops over an index, the sys_state module's `ready_`,
thread creation and the entry of threads into `RunLoop`. Each step that may fail ends the boot: a
service, a full table, the chassis' Initialize (`InitializeFails`; it is the only one that returns
anything but 0, when its registration or its own tuning is refused), sys_state's Start. The
configuration is the initial state: any subset of modules and services. `RepeatSpec` adds a caller
that runs the manager a second time, as the lifecycle policy allows.

`MC*.tla` instantiate these modules for TLC; `*_proofs.tla` hold the theorems. Operators
commented "A mutation of ..." are variants of a definition with a plausible bug; they are not
part of any specification and document what each property is sensitive to.

## The runs

| Run | Configuration | Properties | Bounds, and why they are enough |
|---|---|---|---|
| `remote_input` | `MCRemoteInput.cfg` | `AcceptedAreTheStreamsFrames` `FramesReadAsSent` `InputsArePublished` `SourceSpec` | Six byte values (line feed, the three header bytes of which one is printable, a printable one, another), frames of 2, 3 and 4 bytes, a line buffer of 3, a queue of 2 chunks, chunks of 1 or 2 bytes, five bytes in all: enough for two frames out of step, overlapping frames, a line that overruns, a frame that is also text, a lost chunk. Layouts: every single bit set or clear in frames of the real length, the extremes of every axis and switch, payloads around the limits of one byte. |
| `remote_vt03` | `MCRemoteInputVt03.cfg` | `Vt03RemoteIsAnInput`, violated | Three bytes: one VT03 remote frame. |
| `referee` | `MCReferee.cfg` | `StateIsTheStreams` `SingleBytesOverwriteNothing` `ReportsArePublished` | Three byte values that are length digits too, one of them the start byte; frames of 3, 4 and 5 bytes (without data, on two parts of the state, not handled), a buffer of 5, headers that announce 6 and more; chunks of 1 or 2, eight bytes in all: a long frame overwritten, resynchronisation, and a frame after it. |
| `commands` | `MCCommandPath.cfg` | `WristAndYExclude` `StoppedServosStay` `DisabledOutputsDoNotGrow` `DisableStopsWristAndY` `ReleaseStopsWheels` `DisableStopsServos` | Three builds: arm with gantry (the two senders of the shared frame), the chassis, the gimbal. Both remotes and all inputs (for arm and gantry one remote that moves everything or nothing), an idle limit of two rounds (1 would not tell "before" from "at"), setpoints of 0 and 1. |
| `idle_watchdog` | `MCCommandPathWatchdog.cfg` | `TargetsReturnToZero`, violated | The chassis alone; the publisher may stop. |
| `can_feedback` | `MCCanFeedback.cfg` | `RoutedToItsDecoder` `ComputesOnNewest` `LossySpec` `RoutedReportsAreSeen` | One arm motor and two gantry motors that cost the budget differently, two frames each, good or bad; an rx queue of 1 and module queues of 2 overflow; a budget of 2 is used up by one DJI frame. |
| `tuning` | `MCTuningService.cfg` | `NoForeignIntegral` `SavedMeansSaved` `SavesWhatIsInForce` `RegisterSpec` `RegistrySpec` `CommandsAndRoundsEnd` | Two wheels (a change between them shows), the default tuning, one that is accepted because its limit is not a number, and one that is rejected, each from the shell and from a torn file; any number of commands, rounds and reboots. Three providers for a table of two, a positive and a negative priority, two callers, four registrations: slots are refused, reused in the other order, and left between lookup and call. |
| `actuators` | `MCActuators.cfg` | `AxesFindTheirServos` `ToldIsMeant` `CurrentsAndReportsArrive` `DiscoveryEnds` `MotorsFollow` `GripHolds` | Servos at the two default ids and at another (every subset), a timeout of two ticks, two answers on the wire at once (a late one and a timely one), two lost bytes; stray bytes are frame heads, which confuse most, or zeros, which a stuck line reads as and which can keep the search for a head busy for ever (one kind per behaviour: mixtures only multiply the payloads of packets that fail). An arm with the claw and the yaw motor, changes that leave each setpoint's range in either direction, currents of either sign at the holding current, reports before, between and after the two halves of a round, motors that start off, on or in an error, every frame lost or not. |
| `usb_session` | `MCUsbSession.cfg` | `HostSeesMessages` `BusyEnds` `ReceptionSpec` | Packets of 2 bytes and a buffer of 4: messages of one packet and an empty one, of a packet and a half, and too long ones; three calls, three packets from the host, a queue of one, any number of resets. |
| `mavlink` | `MCMavlinkMode.cfg` | `CountsTheSession` `QuietWhenOff` `LineSpec` `QueuesDrain` | An interrupt queue of one chunk, bursts of two and reader queues of two overflow with three chunks; counters of one bit wrap; any number of commands. |
| `startup` | `MCStartup.cfg` | `ThreadsFindAllInitialised` `RunningIsComplete` `FailedBootIsQuiet` `BootEnds` | No bound: all 128 sets of modules and 16 sets of services with the real table size. |
| `lifecycle_repeat` | `MCStartupRepeat.cfg` | `OneThreadEach`, violated | The manager runs twice. |

The type invariants are theorems (see below). `InputsArePublished` and `ReportsArePublished`
include that the inner loops of the two parsers end. `FramesReadAsSent` and
`CurrentsAndReportsArrive` are about functions of bytes; they are stated of the states in which
something has been accepted and of the modules that have motors.

What the passing runs show, beyond types:

- *Operator input.* Whatever the cuts, the decoder accepts exactly the reference's frames and
  lines, each once and in order, with one exception that the reference shares with the code:
  it finds DR16 frames and lines only. `binary_buf_` never holds more than one DR16 frame, so
  its 256 bytes and its overflow branch are never used. Every accepted input is published
  unless a newer one replaces it. The decoders read each field of a frame in the bits in which
  it was sent.
- *Referee data.* The published state is what the last complete frames of the stream say,
  wherever chunks are cut and wherever the stream starts. Byte by byte, nothing of an incomplete
  frame is overwritten; longer chunks may overwrite it, and parsing goes on correctly then.
- *Commands.* The wrist and the gantry's Y axis never have current together. A motor starts,
  or a setpoint changes, only under an enabling command in the hands of its own module. After
  the operator lets go, wheels, wrist, Y axis and servos stop and stay stopped, although
  publications, reads and transmissions fail now and then. The gimbal's single Stop is never
  followed by a position.
- *Feedback.* Routing and decoding agree. Chassis and arm compute on the newest report that
  got into their queue; the gantry need not, but never loses sight of one for ever, and no
  reader ever goes back to an older report.
- *Tuning.* The controllers behave as one register: no round mixes two tunings, no integral outlives
  its tuning. A tuning whose limit is not a number gets into that register like any other, because
  the code's test lets it pass. "Saved" is true when it is said and stays true across reboots until
  the next save or a format. Every command and every round ends.
- *Servos.* With up to two lost bytes, an axis goes online only with the id of a servo that is
  on the bus, and never both axes with the same one. The pitch axis can be given the yaw
  servo, but only when that servo's answer was late or stray bytes intervened; on a clean bus
  every servo at its default id is found. Three lost bytes are beyond the checksum: when
  servo 1's answer loses its parameter and the answer after it both head bytes, they make a
  packet that reports id 235. Whatever arrives, discovery ends.
- *Motors.* If no frame is lost, each motor ends up on, also a DM motor that starts in an
  error, and stays on; the arm's motors then come to rest where a lasting command takes
  the joints. What a
  motor takes for its orders is a position or speed within the module's limits, even when frames
  are lost. From the first report of the holding current until one below it the claw closes
  further once at most, in the round that was past its last look into the queue; that round is
  reachable. No later round or command closes it, whether or not further reports come. A lost
  start-up frame is not repeated: that motor stays off.
- *MAVLink.* Every reader of the line gets it in order; a queue that is full because its reader
  is off costs the other readers nothing. The counters that `mavlink status` prints are those of
  the session, even though threads of the last session wake up inside the command. After "off"
  nothing is sent and nothing is taken from the queue: the chunks that wait there are parsed when
  the mode is switched on again.
- *USB.* The host gets whole messages, in the order of the calls, at most once, through resets
  and failing starts. Two exceptions are part of the properties because the code has them: a reset
  between claim and start clears the flag under the transfer that is about to start, and an
  empty packet that cannot be started leaves the session busy until the next reset.
- *Providers.* However providers come, go and change their priority, a call reaches the best of
  those registered at its lookup, and the status is the length of the list and that provider.
- *Boot.* No module thread runs before all modules are initialised; "running" is reported only
  when it is true; a boot that fails, at whatever step, has started nothing; every boot ends.

Deadlock is checked everywhere except in the two boot runs and in `actuators`: the boot and
the discovery are over at some point, and nothing follows them in those modules.

## Fairness

- `RemoteInputHistory`: weak fairness of the thread's steps. The thread sleeps one millisecond
  per round and shares its priority round-robin with the others. Nothing makes bytes arrive.
- `RefereeHistory`: weak fairness of the thread's steps, for the same reason; it sleeps 20 ms.
- `CommandPath`: weak fairness of each module's loop, for the same reason, and strong fairness
  of the *successful* read, publication and transmission: they fail only while the peer is
  preempted inside the channel's lock or the CAN controller has no free buffer. Both pass, and
  a caller that tries every round does not meet them for ever. `ModuleSpec` leaves out the
  fairness of the publisher, to ask what happens when it falls silent. `MCCommandPath` states
  the same fairness in fewer conjuncts: the actions it joins belong to modules of different
  builds, of which a behaviour has one. Nothing is assumed of
  the operator: the premises of the properties say that he has let go.
- `CanFeedback`: weak fairness of dispatcher and loops. Nothing makes a motor send.
- `ChassisTuning`: weak fairness of both threads; strong fairness of taking the mutex, which is
  free during the millisecond in which the chassis thread sleeps. Commands and reboots are free.
- `Actuators`: for the gimbal weak fairness of time, of the query and of the timeout; the main
  thread outranks the others. Reading has none: the deadline ends the discovery, not the bytes.
  For arm and gantry weak fairness of the thread. That frames get through is a hypothesis of
  `MotorsFollow`, not an assumption.
- `MavlinkMode`: weak fairness of the dispatcher, of the two other readers and of the two threads.
  The shell has none, so that a command may stop for ever in the middle; nothing makes bytes arrive.
- `UsbSession`: weak fairness of a call of Send that is under way, and of a host that has
  configured the device and takes packets. Bus events, calls and packets are free.
- `Startup`: weak fairness of the main thread, whose priority is above all others.

## The proofs

All theorems are proved for every value of the constants under the assumptions named next to them
(`StreamAssumption`, `NoInputAssumption`, `RefereeAssumption`, `PathAssumption`,
`FeedbackAssumption`, `TuningAssumption`, `ProvidersAssumption`, `StartupAssumption`,
`FanoutAssumption`, `ModeAssumption`, `SessionAssumption`, `MotorAssumption`, `ServoAssumption`),
which TLC evaluates in each run. They are as weak as the code justifies; in particular queue depths,
buffer sizes, the number of wheels, the size of the table of providers, the width of counters, the
length of messages and packets, the sets of senders, inputs, tunings, joints, deltas, currents and
speeds are arbitrary. Each file proves `Init => IInv`, `IInv /\ [Next]_vars => IInv'` and then what
follows from `IInv`. A file proves about the module it is named for and about the modules that one
extends: `RemoteInputHistory_proofs` also about `RemoteFrames`, `Links_proofs` about `UartFanout`
with `MavlinkMode` and about `UsbSession`, `Actuators_proofs` about `MitMotors`, `MotorFrames` and
`ServoBus`.

| Module | Theorems | The inductive invariant, and why it is needed |
|---|---|---|
| `RemoteInputHistory_proofs` | `TypeCorrect` `BacklogBounded` `Vt03BinaryNeverAccepted` `StreamImplementsSource` | Types, the backlog and the routes together: that no VT03 frame is found needs the backlog's bound, and the bound needs that every iteration with a full DR16 frame consumes. |
| | `AcceptedAreAlwaysTheStreamsFrames` | `HInv` says where the code is in the reference: between two bytes (`Between`) the binary buffer is the window that the reference has open and the line is the text modulo the buffer's length; within a byte (`Within`) one or both of the decoders have still to see it. |
| | `Dr16ReadsEveryFrame` `Vt03ReadsEveryFrame` `PcLinkReadsEveryFrame` `CustomControllerSharesThePcLink` | No state: how eleven-bit fields lie in bytes (`HoldsChannels`), and that the decoders' shifts and masks give them back. The run tries single bits and extreme values; the theorems hold for every value of every field and every payload. |
| | `FieldsAreBitsOfEveryFrame` `FramesAreAlwaysReadAsSent` | That a field put together bit by bit (`HasBits` names the eight bits of each byte) is what the shifts compute, for all bytes; the checked property follows. |
| `RefereeHistory_proofs` | `TypeCorrect` `NothingOverwritten` | `RoomForAByte`: between two chunks the buffer is not full, because no header that is waited for announces more than the buffer holds. |
| | `StateIsAlwaysTheStreams` | `HInv`: the buffer is the end of the stream (`Remainder`), its first byte stands at a boundary, and the state is what the frames before it tell (`Settled`). A longer stream has the same boundaries where the shorter one is decided. |
| `CommandPath_proofs` | `TypeCorrect` `Exclusion` `StopIsLast` `NoDisabledGrowth` | `TargetsFollowCommands`: a target that is set was set by the command the module still holds, also after a failed read and after the timeout. Without it an output could be driven towards a target whose command is gone. |
| | `StandsUntilInput` `OnlyVt03MovesGimbal` | `Untouched` and `WithoutVt03` follow a command the whole way, from the latch over mailbox and local copy to the motor: nothing on the way allows what the input does not. |
| `CanFeedback_proofs` | `TypeCorrect` `RoutingAgrees` `FeedbackIsLossyChannel` | `Ordered`: within every queue, and from the module's queue over the dispatcher's hand to the interrupt's queue, the reports of one source increase, and all are newer than what the reader holds and were sent. |
| | `LoopsComputeOnNewest` | `NewestWaits`: the newest valid report that was routed is the last one of its source in the queue or, when the queue has none, the one held. |
| `TuningService_proofs` | `TypeCorrect` `NoForeign` `SaveIsTrue` `SaveIsCurrent` `TuningIsARegister` | Who may hold the mutex at which step; which wheels a Set under way has reached; what this round's outputs stem from; what a save under way has in its hands; and that a reported save is not being overwritten. `TypeCorrect` says that of all tunings, typed or read from a torn file, only the accepted ones (`OnlyAccepted`) get into force, into a wheel, behind an output or into the file: between the test and the mutex, and between file and register, nothing lets another one in. |
| | `ServiceKeepsProvider` `RegistryTypeCorrect` `RegistryIsAList` | `RegistryInv`: orders are smaller than the next one and the slots in use have a listing as long as the count. That there is only one makes `ByOrder` a function of the slots; then each operation is followed on the listing: registration appends, unregistration removes one entry, and the best slot is the first of the highest priority. The two halves of the service leave each other's variables alone, so that each theorem about one holds of both. |
| `Links_proofs` | `TypeCorrect` `CountsTheSessionHolds` `QuietWhenOffHolds` `FanoutImplementsLossyLine` | `Ordered` for the line: from a reader's hand over its queue and the dispatcher's hand to the interrupt's queue the chunks increase. `ModeInv` for the mode: while it is off both threads are between two rounds, and what the shell has done so far is what its statement says. |
| | `SessionTypeCorrect` `MessagesArriveWhole` `ReceptionIsAQueue` | `SessionInv`: unless a reset came between claim and start, either no transfer is under way and the host is between two messages (`Quiet`), or a transfer owns the buffer and the host has whole packets of the message in it (`Sending`), or a message lacks its empty packet (`Unended`). |
| `Actuators_proofs` | `TypeCorrect` `OrdersAreMeant` `MotorsStayOn` `GripAlwaysHolds` | `WantBounded` and `OrdersMeant`: orders do not follow from what the module wants now, so both are kept within their limits. `GripSoFar`: past its look into the queue a round either knows the holding current (`Grips`) or the claw has not closed further since it is reported, so that only a round under way can close it. Lemmas show that quantising and packing are undone by the motor's reading to half a step, and that no MIT frame is a control frame. |
| | `PartsAreKept` `FramesCarryEveryValue` `CurrentsAlwaysArrive` | That the composition's steps are steps of its parts, and that splitting a number into bytes and joining them again are inverse, for each field of each frame; a frame cut short is rejected. |
| | `ServoTypeCorrect` `ServosAreFound` | `Steady` and `Undisturbed`: see below. |
| `Startup_proofs` | `TypeCorrect` `InitialisedFirst` `QuietFailure` | How far each of the three loops has come: the registration covers the registry below `k`, initialisation the modules below `k`, threads exist only from the start loop on; and the indicator is the first entry or absent. |
| | `RunningIsTrue` | `CInv`: no module is in the table twice (`Distinct`), the start loop has one thread behind it for each entry and none ahead (`StartedSoFar`), and "running" is announced with the table's length (`Announced`). |
| | `OneThreadOnEachStack` | The start loop has started nothing at or ahead of `k`, so that a thread it creates is its module's first. Under `RepeatSpec` this fails (`lifecycle_repeat`). |

*Servos.* `ServosAreFound` says of every set of ids, every timeout and every stray byte what
the run says of three ids and two stray bytes, as long as no byte is lost (stray bytes of one kind,
while the line is idle, as in the model). The invariant labels each byte between the bus and
`ReceivePacket` with the servo that sent it and its place in the answer, or as stray: there is a
labelling in which the bytes of an answer follow each other whole. A packet that passes the tests
of `ReceivePacket` is then a whole answer of one servo, and what the axes hold follows from the
order of the three queries. On a bus without a fault the one answer under way is that of the servo
asked. A lost byte breaks the labelling, and with it the property: an answer with a hole may be
completed so that the additive checksum is right.

Induction over data appears where a reference is a recursive function of the byte stream and where
two listings of the slots, or the maximum of a list, are compared. `NaturalsInduction` takes the
predicate as a parameter; the proofs use sets instead (`NatSetInduction`: a set that holds 0 and
with every number its successor holds all of them), which follows from the well-foundedness of the
subsets of a finite set. That the recursive functions exist is proved that way as well.

Only model-checked:

- every liveness property, because fairness and ENABLED are outside the prover's reach:
  `InputsArePublished`, `ReportsArePublished`, `DisableStopsWristAndY`, `ReleaseStopsWheels`,
  `DisableStopsServos`, `RoutedReportsAreSeen`, `CommandsAndRoundsEnd`, `DiscoveryEnds`,
  `MotorsFollow`, `BusyEnds`, `QueuesDrain`, `BootEnds`;
- `AxesFindTheirServos` with one or two lost bytes: the checksum is additive, so that the property is
  then not true of all ids (a stray byte of the right value makes up for a lost one); it is a fact
  about the ids and the faults that the run allows.

## Disagreements with the documentation

1. *VT03 remote* (`remote_vt03`). `docs/CHASSIS_SPEED_MIGRATION_MAP.md:10` gives DR16 and VT03 as
   the sources of the speed in the project that this one was migrated from; line 4 asks the
   migration to keep the behaviour, and line 42 maps that input to `remote_input`, whose decoder has
   branches for both VT03 frames. The decoder runs after every byte and at 18 bytes accepts a DR16
   frame or drops a byte; the VT03 tests need 21 and 39 bytes and are never reached
   (`remote_input_module.cpp:159,179,214`). Only text lines can bring a VT03 input. The theorem
   `Vt03BinaryNeverAccepted` says so for every stream.
2. *Idle timeout* (`idle_watchdog`). `docs/MIGRATION_BASELINE_CHECKLIST.md:14` expects the idle
   count to grow and the targets to return to zero when no command arrives. `zbus_chan_read`
   succeeds on an old message, so the count stays at zero (`chassis_module.cpp:137`).
3. *Repeated life cycle* (`lifecycle_repeat`). `docs/MODULE_LIFECYCLE_POLICY.md:67` wants Initialize and
   Start repeatable. Initialize clears `started_` without stopping the thread; the next Start
   creates a second one on the same stack. The code itself never does this.

Two observations that contradict no document, and that `RemoteFrames` lets one evaluate:

- From its third byte on, a VT03 remote frame is laid out like a DR16 frame with the mode switch in
  the place of the right switch. When the windows that begin within the VT03 header are no DR16
  frames, the decoder drops those two bytes, and accepts the rest as a DR16 frame if the bits where
  the DR16 has its left switch and its wheel (buttons and checksum) are in range. The enable then
  means the opposite: `dr16_protocol.cpp:69` enables on 1, `vt03_protocol.cpp:70` on anything but 1.
- `DecodeAxis` subtracts 364 and divides by 1320 (`vt03_protocol.cpp:13`), so that a centred stick
  (1024) reads 0.5, and no stick reads less than -0.28.

## Not modelled

- Arithmetic of kinematics, PID and filters, a controller's with a NaN in its tuning included. The
  models say which command, report or tuning an output stems from, not its value. Overflow of an
  output cast to `int16_t` is listed as a hazard.
- `sscanf` of the remote's text line and of the shell's arguments: which texts are valid is a
  parameter.
- Time in units: rates, baud rates and periods appear as "the next round" only.
- The steps inside `littlefs_service::Initialize` and the pacing of `sys_state`'s loop: see the plan.
- `Send` of the USB session with several callers at once: the header promises nothing about them.
- What a chunk's bytes do to the MAVLink parser, which is a library: a chunk completes some messages.
- `can_dispatch`'s lookup of devices and set-up of filters, which happen once during boot.
- How fast the serial receiver overruns: `PollOneByte` sleeps a millisecond between two polls,
  and how many bytes that costs depends on the baud rate and the UART's buffer. `ServoBus`
  loses at most two.
- Code without a caller in this application: estimators, filters, the other controllers,
  `pwm_servo`, `SetSpeed` of the serial servo, `dji::IngestCanFrame`.
- The kernel, zbus, CAN and UART drivers and littlefs are external; the models use what
  the code in `src/` relies on.

## The plan

Order: what moves the robot first, what supports it next, what only observes it last.

1. Done: `RemoteInputStream`, `RefereeStream`, `CommandPath`, `CanFeedback`, `ChassisTuning`, `Startup`
   with their abstract specifications and proofs, and `ServoBus`.
2. Done: `UartFanout` with `MavlinkMode`, `MitMotors` with `MotorFrames`, their proofs; `UsbSession`,
   `TuningProviders`, `RemoteFrames`.
3. `StorageMount`: the steps of `littlefs_service::Initialize` with the boot thread and the shell as
   callers, the boot thread blocked inside the driver.
4. The pacing of `sys_state`'s loop under the scheduler's priorities, on a board with a buzzer and
   without LEDs.
5. Done: theorems for every safety and action property that the runs check, with the restriction
   named under [the proofs](#the-proofs).
6. Theorems still to prove: that `CommandPath` with `InputSource` replaced by `RemoteInputStream`
   keeps its invariants; `AxesFindTheirServos` with lost bytes for the ids the code uses.
