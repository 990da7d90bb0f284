# A verification model of OSCC

OSCC (Open Source Car Control) puts a control module between each of a car's
control sensors and the car: throttle, brake, steering. A module that is
enabled over the control CAN bus replaces the sensor's signal by one computed
from the commands of a client program; it must hand the signal back when the
client says so, when the operator takes over, when a sensor fails, and when
another module reports a fault. This directory holds TLA+ specifications of
that program, the TLC configurations that check them and TLAPS proofs about
them. Paths below are relative to the repository.

## 1. Inventory

| Component | State it keeps | Operations | Interacts through |
|---|---|---|---|
| Fault debouncer, `firmware/common/libs/fault_check` | per condition: monitored or not, start time | `condition_exceeded_duration`, `check_voltage_grounded` | called by every `check_for_faults`; reads `millis()` |
| Throttle module, `firmware/throttle` | `enabled`, `operator_override`, `dtcs`; relay pin; DAC channels; two debouncers | receive one frame (enable, disable, command, fault report), check for faults, publish report (timer interrupt) | CAN frames; shared state with its interrupt |
| Brake module EV/Niro, `firmware/brake/kia_soul_ev_niro` | the same, and the brake light | the same | the same |
| Brake module Petrol, `firmware/brake/kia_soul_petrol` | the same flags, commanded position, PID state, three fault counters; accumulator, release and master cylinder solenoids, pump, lamp | receive one frame, maintain pressure, check for override, regulate; check sensors (timer 1 interrupt); publish report (timer 2 interrupt) | CAN frames; flags, DTC byte and pins shared by main loop and interrupt |
| Steering module, `firmware/steering` | the flags, one debouncer, a moving average of the torque difference | as the throttle module | CAN frames; interrupt |
| CAN receive path, `firmware/common/libs/mcp_can`, `can` | two receive buffers, masks, filters, rollover bit | `readMsgBufID`, `sendMsgBuf`, `init_can` with retries | polled by the main loops, written by the controller |
| CAN gateway, `firmware/can_gateway` | display state of each module | parse reports, republish OBD frames, update display (timer interrupt), watchdog | both CAN buses; shared state with its interrupt |
| Client API, `api/src/oscc.c` | two socket descriptors, five callbacks | init, open, close, enable, disable, publish, subscribe, SIGIO handler, channel detection | SocketCAN; signals |
| Algorithms | none but the PID integral | timer prescaler choice, PID, ADC to pressure, interpolation, clamping and conversion of commands, OBD parsers | called by the above |
| Diagnostics tool, `utils/diagnostics_tool` | a table of frames, the state shown of each module | read a frame, analyse and draw | listens on the control bus |
| Displays, serial port, bench utilities, null firmware, tests, hardware | - | - | not part of the control path |

What is hard in this program:

* **Interrupts.** Every module publishes its state from a timer interrupt that
  comes between any two instructions of the main loop. The petrol brake also
  disables control from an interrupt, and its `cli`/`sei` pairs do not nest:
  the first `sei` inside a critical section ends it.
* **Handlers of many steps.** Enabling and disabling write DAC, relay, lamp and
  flag one after the other; a fault is handled by disabling, setting a DTC,
  announcing it and (for an override) latching it.
* **Time.** Faults are debounced with a counter that wraps, with state that
  outlives the period in which anything is checked.
* **Failure.** Frames are lost or overtaken in the controllers' buffers, a
  controller may refuse a mode change that nobody checks, a client's write may
  fail half-way through enabling or disabling the modules.
* **Signals.** The client library does all its reading in a SIGIO handler that
  comes between any two system calls of the main program.

What makes each component correct: an override excludes control and is always
released again; faults end control in bounded time; pins, flags and reports
agree; a fault is announced after control was released; the petrol brake's
solenoids are never in a dangerous combination; a frame is handled whole, once,
and overtaken only where the buffers allow it; what the display, the diagnostics
tool and the client library say is true of what they have heard. `PROJECT.json`
lists the hazards at their lines with the properties that cover them.

## 2. Modules

    FaultCheck                 the debouncer, as operators on its state
      ControlModule            throttle and EV/Niro brake firmware
        MCControlModule        + timing assumptions, exposure, liveness
          ControlModuleProofs
        MCControlClaims        + history variables for a documented claim
      SteeringModule           steering firmware
        MCSteeringModule       + history variable, liveness
          SteeringModuleProofs
      PetrolBrake              petrol brake firmware
        PetrolBrakeProofs
    ControlPromise             what each of the three promises the system
    CanController              MCP2515 and its driver, as operators
      ModuleCan                an actuator module's CAN interface
        ModuleCanProofs
      Gateway                  the CAN gateway
        GatewayProofs          (extends ModuleCanProofs)
    FrameChannel               what ModuleCan promises its program
    DiagnosticsTool            the diagnostics tool
    ControlBus                 ModuleCan, Gateway and DiagnosticsTool on one bus
      MCControlBus
      ControlBusProofs         the tool alone, then the three on the bus
    OsccApi                    the client library and its signal handler
      MCOsccApi
      OsccApiProofs
    Vehicles                   constants and conversions, command to DAC
    Timers                     prescaler and compare value
    BrakeRegulator             pressures, PID and duty cycles of the petrol brake
    ObdFrames                  identifiers and OBD parsers
      MCConversions            the four above, evaluated over samples
      ConversionProofs         and proved

`ControlModule`, `SteeringModule` and `PetrolBrake` each instantiate
`ControlPromise` with a refinement mapping and state `ImplementsPromise`;
`ModuleCan` instantiates `FrameChannel` and states `ImplementsChannel`.
`MCSteeringModule` extends `MCConversions`, so TLC evaluates its assumptions at
the start of that run. Definitions commented as mutants are the faults with
which each property is shown to be violable; the specifications do not use them.

**FaultCheck.** `Monitor` is the state `condition_exceeded_duration` leaves,
`Exceeded` the value it returns. Time is counted in ticks, a fixed number of
milliseconds; `now` ranges over `0 .. ClockMod - 1` and durations are taken
modulo `ClockMod`, as unsigned subtraction does.

**ControlModule.** The main loop is cut into the steps after which something
that outlives the handler has changed: `pc` is the next step and `job` what the
running handler works for. `ReceiveNothing`, `ReceiveEnable`, `ReceiveDisable`
and `ReceiveCommand` are `check_for_incoming_message` with the frames
`process_rx_frame` tells apart (a fault report of another module does what a
disable frame does); `Smooth`, `CloseRelay`, `SetEnabled` and `Smooth`,
`OpenRelay`, `ClearEnabled` are the bodies of `enable_control` and
`disable_control`; `CheckSkipped`, `Check`, `SetDtc`, `PublishFaultReport`,
`Latch`, `ClearOverride` are `check_for_faults`. `PublishReport` is the timer
interrupt: it is enabled in every state. `SensorChange` and `Tick` are the
world. `Unit` selects the brake light of the brake module; nothing else differs
between the two firmwares. Voltages become the facts the code derives from
them: the pedal is pressed (the average reaches the threshold) or not, an input
reads zero or not, and which signal a DAC channel carries. Frames come in any
order and number, so every property here holds whatever the bus loses.

**SteeringModule.** The same program around another decision. Only the grounded
wires are debounced; an override is the moving average of the difference of the
two torque readings, an integer that is cut off at every step, seeded with a
reading whenever it is zero and set to zero by `disable_control`. The average is
modelled exactly: the code's `float` product of an alpha of 1/100 is
`(x + 99 a) \div 100` for every pair of values the ADC can produce, so `Weight`
is a parameter. `STEERING_OVERRIDE` is the build option. A report is a state of
the model, since the interrupt reads the three flags as they are.

**PetrolBrake.** The same granularity with two program counters, one for the
main loop and one for the sensor-check interrupt; the main loop steps only
while the interrupt is idle, the interrupt starts between any two steps. A
step is what runs with interrupts really off (from a `cli` to the next `sei`,
wherever that is), or one access to a shared byte: `DTC_SET` and `DTC_CLEAR` of
the main loop are a load and a store. `disable_control` is written once, for
whichever actor runs it. The PID controller is abstracted to its three outcomes
(too high, too low, in band), chosen freely; the startup checks to a verdict
chosen in `Init`. The timer 2 report reads its three fields with interrupts
off, so a report is a state of the model and needs no variable. `FaultCount`
also bounds the fault counters: only the comparison with it matters (the 16-bit
overflow of a counter is listed as a hazard).

**ControlPromise.** Three variables: who drives, what was announced, whether an
override is latched. A module takes control only while none is latched,
announces only while the vehicle drives, and latches only what it has
announced. The mapping takes the relay (`ControlModule`, `SteeringModule`) or
the `enabled` flag (`PetrolBrake`) as the driver and the last fault report as
the announcement.

**CanController.** Operators on three records: the chip (mode, masks, filters,
two receive and three transmit buffers), the fields of the `MCP_CAN` object that
reading and sending share, and the locals of a `sendMsg` in progress. The chip
is modelled from how the driver uses it: a full buffer is never overwritten,
`BUKT` rolls a frame for a full buffer 0 over into buffer 1 whatever the filters
of buffer 1, and of equal priorities the highest transmit buffer goes first.

**ModuleCan.** `init_can` and the mask and filter calls of `init.cpp` one by
one, each of which the chip may refuse and whose result nobody looks at; a
received frame in the steps head, body, release and copy; the report interrupt
with `sendMsg` polling for a buffer and for its end. Filters 3 to 5 are never
written and hold anything at power-up (`PowerUp`). `handled` is what
`process_rx_frame` gets; from there on `ControlModule` and its like take over,
with frames in any order. A fault report is sent by the main loop with
interrupts off; as a sender it does what the report interrupt does.
`ModuleHears(f)` takes any frame, so `ModuleSpec` is the module on a bus that
carries anything. The properties need to name frames, and the code's frames have
no numbers: the history variables `mSent` (every frame of the bus, in order),
`held` (which of them each receive buffer got) and `taken` (which of them the
driver found, in order) number them, and no guard reads them.

**FrameChannel.** A channel with two places that loses frames but neither
changes nor doubles one and empties the first place first. The mapping takes a
receive buffer whose frame nobody has found as a place, the frame being read in
the steps head to copy as the hand, and `handled` as what was received; start-up,
masks, filters and the report interrupt, which uses the same fields of the
driver, are invisible to it.

**Gateway.** The main loop reads one report, parses it in the four steps of
`parse_..._report`, then takes one OBD frame and sends it on; `UpdateDisplay` is
the timer interrupt, kept out only while a send has interrupts off. The history
variable `gFrom` numbers the vehicle's frame in hand and in each transmit
buffer, and `gOut` keeps what went out with its number.

**DiagnosticsTool.** The run with `-d`: `ToolHears` is the driver's queue,
`ReadFrame` and `ReadNothing` are the two ways through the loop, either of which
may find the terminal due, `Interrupted` the signal. The table search returns the
first slot that is empty or has the identifier, as the code does, for both
purposes.

**ControlBus.** What one node sends the others hear in the same step. Which
nodes are attached and what is sent is one of `Topologies`, chosen at the start;
`BusAssumption` says that these are frames and that the tool's table of
identifiers knows them. The next-state relation is made of the nodes' own
actions, so each node's specification can be compared with what it does here.

**OsccApi.** Every call of the library cut at each system call and each write to
a global, and the handler `oscc_update_status` with its two read loops and its
callbacks; the handler suspends the main program and blocks its own signal. The
calls come in any order, opening again after a close or without one included.
The kernel is a table of descriptors whose lowest free number is given out, a
queue per socket and one pending signal. A detection may find any subset of
what a channel carries; any `write`, `socket`, `bind` or `fcntl` may fail.
`Interfaces` stands for what `construct_interfaces_list` reads (a `fopen` that
fails is followed by `fclose(NULL)`). A fault callback may call `oscc_disable`;
other calls from a callback and the application's own files are left out.
A socket knows the channel it is bound to, so `Reaches` tells whether a write
through a descriptor gets to the modules: `oscc_close` keeps the numbers of the
sockets it closes, and a number may since have been given to another socket.
`found` keeps what the search of `oscc_init` has seen until the next call; no
guard reads it then.

**Vehicles, Timers, BrakeRegulator, ObdFrames.** The arithmetic, in integers of
a fixed unit. `Vehicles` allows a conversion to be off by 0.0026 of a DAC step
either way, more than single-precision rounding adds up to. A command that is
no number passes both comparisons of `CONSTRAIN`; its conversion to an integer
is undefined, so it is any 16-bit number. In `BrakeRegulator` a float is a set:
of its value, or empty when it is no number.

## 3. Runs

| Run | Module, instance | Shows |
|---|---|---|
| `control_safety` | `MCControlModule`, brake, hysteresis 2, clock 5 | the safety properties and the refinement |
| `control_liveness` | `MCControlModule`, throttle, hysteresis 1, clock 3 | the operator prevails, faults heal |
| `steering` | `MCSteeringModule`, weight 4, threshold 4, four differences | override earned, a pull prevails, letting go heals, refinement; the arithmetic modules over samples |
| `petrol` | `PetrolBrake`, one input, fault count 2, hysteresis 1, clock 2 | solenoids, pedal, latch, refinement, sensor faults end control |
| `control_bus` | `MCControlBus`, nine topologies | frames whole, in order and not lost, the refinement of the channel; display, forwarding and diagnosis true |
| `api` | `MCOsccApi`, two devices, two modules, three descriptors | no wake-up lost, no signal without handler, answers true |
| `claim_debounce` | `MCControlClaims`, hysteresis 3, clock 9 | violation: an interrupted press counts as continuous |
| `claim_dac` | `ControlModule`, hysteresis 2, clock 7 | violation: DAC channels are crossed while the relay moves |
| `claim_pressure` | `PetrolBrake` | violation: accumulator left open without control |
| `claim_dtc` | `PetrolBrake` | violation: the sensor DTC is lost |
| `claim_blocking` | `MCOsccApi`, one opening | violation: the handler waits in `read` on the vehicle's blocking socket |
| `claim_init` | `MCOsccApi`, a client that only calls `oscc_init` and `oscc_close` | violation: the vehicle's socket taken for OSCC's |

`ControlModule`: `OverrideLocksOut`, `LatchIsReleasable`, `PinsFollowState`,
`ReportsAnnounced`, `FaultReportAfterRelease`, `ImplementsPromise`.
`ReportsAnnounced` compares the module's two voices: wherever the timer interrupt
comes, a status report shows no fault that the fault reports have not named,
except the one the main loop is about to name.
`MCControlModule` adds `FaultsEndControl`, the promise of the debouncer in real
time: with one loop pass shorter than a tick, a pedal pressed (or a wire lost)
while the relay is closed has the vehicle back within the hysteresis and three
ticks, whatever frames come in. Its `exposure` variable counts by itself, not
with the debouncer's state, and stops one tick beyond that bound; so the bound
can be exceeded in the model, and is when the comparison in `Exceeded` is off by
one.

`SteeringModule`: `OverrideLocksOut`, `PinsFollowState` (relay and flag agree, and
a commanded torque is on the DAC only in control), `ImplementsPromise`; `MCSteeringModule` adds
`OverrideIsEarned` (no override without a reading above the threshold, whatever
the seed and the reset do), `PullPrevails` and `LetGoHeals`.

`PetrolBrake`: `SolenoidsExclusive`, `PedalConnected`, `OverrideLocksOut`,
`OverrideIsReported`, `ImplementsPromise`, `SensorFaultEndsControl`.

`ControlBus`: of the module, `FrameIntact`, `OvertakenOnlyInBuffer1`,
`NothingVanishes`, `ImplementsChannel`; of the gateway, `ScreenFollowsReports`, `GreenIsEarned`,
`RepublishedFaithfully`, `LoopComesRound`; of the tool, `TableFaithful` and
`DiagnosisIsLatest`.

`OsccApi`: `NoFrameStranded`, `SignalIsHandled`, `OrdersTold`, `OpenTold`; and
the violated `HandlerNeverBlocks` and `InitTellsApart`. `OpenTold` says on which
bus the armed socket is: the channel given to `oscc_open`, or one with OSCC if
the search of `oscc_init` found it. The case it leaves out, an `oscc_init` that
found no OSCC and answers OSCC_OK, is the one `InitTellsApart` is violated by.
`OrdersTold` likewise speaks of sockets that reach the modules.

**Bounds.** The hysteresis needs two ticks for the debouncer to be caught
running in the safety run, and a clock a little longer than the hysteresis for
durations to cross the wrap in both directions; the runs with small clocks wrap
all the time. Fault count 2 distinguishes one bad reading from a fault. One
group of inputs is enough for the petrol brake because the counters are
independent and only their disjunction is used; the proofs are for any set.
`MCSamples` has a difference of zero, one below the threshold, one in the dead
zone above it (see 4) and one beyond. `MaxOrders` 3 frames to a module fill both
buffers and overtake; `TimeoutValue` 3 leaves a poll before the last; a table of
3 slots fills up; four OBD frames find all transmit buffers full (`obdMax`). In
`OsccApi` two frames (`MaxFrames`) arrive before, during and after a handler,
two openings (`MaxOpens`) reuse a closed number, and three descriptors are one
fewer than detection and a reopening can ask for, so running out happens.
`claim_blocking` allows one opening: an opening without a close before it would
also leave the handler on a fresh blocking socket, but that is another story
than the order of the two `oscc_async_enable` calls. The rest of the state is finite as it stands. No constraint cuts the search.

**Deadlock** is checked in the firmware runs: that code never stops. It is not
in `control_bus`, where the bounded frames end, nor in `api`, where the handler
may wait in `read` for ever.

**Fairness.** `control_liveness` assumes that the main loop keeps running (it
has no blocking call) and that the clock ticks; the environment is not fair.
`ComesRound` excludes behaviours in which a condition is monitored for the full
range of the counter, 49.7 days of the real one; without that, the small clock
would let a fault be taken back at every wrap. `steering` assumes the main loop
only: a filter needs no clock. `petrol` assumes that timer 1 keeps firing and
its handler runs to its end, which is what the hardware does; the main loop
needs no fairness for `SensorFaultEndsControl`. `control_bus` assumes that the
gateway's processor runs, and nothing of the bus: it may never take a frame.

**Granularity and time.** `MCControlModule` and `MCControlClaims` let at most
one tick pass per loop pass: the longest part of a pass is the forty ADC samples
of the smoothing, a few milliseconds, and a tick stands for tens of
milliseconds. The other safety properties and every theorem but
`FaultsEndControlInTime` do without it. `LongClockAssumption` adds that the
counter's range exceeds the hysteresis by more than a tick. A read of a
chip is cut in `ModuleCan` and one step in `Gateway`: a full buffer is not
touched by the bus, and there the interrupt uses neither the buffer nor the
driver's fields.

## 4. What the models show of the code

Disagreements with a document or a comment, each with its run:

1. `condition_exceeded_duration` promises a fault "active for longer than
   max_duration", but its state is frozen while a module is disabled without a
   DTC: press, disable, release, wait, enable, touch is an override at once.
2. Throttle and EV brake pass the low sensor pin first to
   `prevent_signal_discontinuity`, which loads the DAC channels crossed;
   steering passes them in the order `update_*` uses.
3. The petrol brake's interrupt can disable control inside `update_brake`, which
   then energises the accumulator solenoids of a disabled module, and nothing
   closes them until control is enabled again.
4. The petrol brake's main loop can overwrite the DTC byte the interrupt has
   just changed; the sensor fault then vanishes from the reports for good,
   because a disabled module without that DTC does not check its sensors.
5. `oscc_open` and `oscc_init` make the OSCC socket raise signals before the
   vehicle socket is non-blocking. A frame in between starts a handler that
   waits in `read` and cannot return to the call that would change the mode.
6. `oscc_close` keeps the numbers of the closed sockets. An `oscc_init` after it
   that misses OSCC but finds the vehicle may give the vehicle's socket the
   number the OSCC global still holds; it then arms that socket and answers
   OSCC_OK, although it should have detected "which channel is OSCC control".

Behaviour worth knowing, without a run of its own:

* `README.md` (line 284) and `CONTRIBUTING.md` (line 406) describe a
  loss-of-communication timeout of 200 to 250 ms. No firmware has one: nothing
  records when the last command came, and a module that hears nothing stays in
  control.
* The steering filter stops up to 99 short of a steady difference, so a pull has
  to exceed the threshold of 2000 by as much to be sure of an override; a filter
  that reaches zero takes the next reading whole.
* "Accept only CAN Disable when buffer overflow occurs" (`init.cpp` of the
  modules) is not what the chip does: every frame for a full buffer 0 rolls over
  into buffer 1, the filter of buffer 1 is set for extended identifiers, and
  filters 3 to 5 hold what they had at power-up. A frame in buffer 1 waits while
  buffer 0 is refilled: an enable can be handled after a later disable.
* A mode change the chip does not confirm at start-up is ignored and can leave a
  module deaf. A free buffer found by the last of `sendMsg`'s polls counts as a
  time-out, and frames waiting in several transmit buffers go out highest first.
* The gateway forwards with a length of 8 and zeros behind a short frame, drops
  the extended flag and checks no magic bytes. Its green LED may stay lit for up
  to a second after all modules are disabled.
* The tool shows a module that has never reported as it is initialised, ignores
  the throttle's DTCs, and ends when its table is full; full with a command in
  it but no report, it follows a null pointer.
* Steering's two channels stand for the same torque only for commands from
  -0.927 to 0.825: beyond, one has reached its end while the other goes on.
* Timer 2 cannot run at 50 Hz: the petrol brake reports at 61 Hz. Its pedal
  command is never clamped, and one that is no number makes the integral of the
  controller no number until a restart. The first step after a minute's pause
  fills the integral.

## 5. What is proved

For all values of the constants that satisfy the named assumptions (positive
hysteresis shorter than the counter's range, one of the two units, positive
fault count, a finite set of inputs, positive weight, and so on), with the
specifications free of fairness:

* `ControlModuleProofs`: `TypeCorrect`, `OverrideSafety`, `OverrideReleasable`,
  `PinsConsistent`, `StatusIsAnnounced`, `FaultReportOrder`, `Refinement`;
  `FaultsEndControlInTime` of `MCControlModule`; `PassiveWhileLatched` of
  `ControlPromise`.
* `SteeringModuleProofs`: `TypeCorrect`, `OverrideSafety`, `PinsConsistent`,
  `OverrideEarned`, `Refinement`.
* `PetrolBrakeProofs`: `TypeCorrect`, `SolenoidSafety`, `PedalSafety`,
  `OverrideSafety`, `OverrideReported`, `Refinement`, `SensorFaultsBounded`.
* `OsccApiProofs`: `TypeCorrect`, `NoWakeUpLost`, `SignalSafety`, `OrdersTrue`,
  `OpenTrue`, for any devices, modules, queues and numbers of calls.
* `ModuleCanProofs`: `ModuleTypes`, `FramesIntact`, `OvertakingBounded`,
  `OwnFramesKept`, `InterfaceIsChannel`, for any module, any filters at power-up,
  any number of poll turns and any frames in any number.
* `GatewayProofs`: `GatewayTypes`, `ScreenIsTrue`, `GreenIsTrue`,
  `ForwardedFaithfully`, `RoundsAreBounded`.
* `ControlBusProofs`: `ToolTypes`, `TableIsFaithful`, `DiagnosisIsTrue` of the
  tool alone; `NodesKeepTheirSpecs`, `BusTypes`, `BusIsSafe` of the bus.
* `ConversionProofs`: the arithmetic for every command, voltage, pressure and
  frame, where `MCConversions` evaluates samples.

Every invariant, action property and refinement a passing run checks is thereby
also a theorem.

The argument is an inductive invariant each time. In `ControlModuleProofs` it is
`IInv`: the properties themselves say nothing of a handler that is half done,
so `JobInv` says which job belongs to which program counter, `HandlerInv` what
the handler's earlier steps have established (an enable in progress still finds
the module disabled and not overridden; the relay differs from `enabled`
exactly between the two writes), `FaultInv` that the DTC precedes the
announcement and the announcement the latch, and `AnnouncedInv` what the last
announcement says of the DTCs and the latch a status report would show. `SteeringModuleProofs` is built the
same way; `OverrideEarned` adds that an average above the threshold whose
predecessor was not can only come from a reading above it (`FilteredBound`). In
`PetrolBrakeProofs` the invariant must hold with the interrupt in the middle of
the main loop: `ControlInv` therefore says nothing of `enabled` while the main
loop disables (its work may be done already), `DtcInv` that the override DTC
survives the interrupt, `SolenoidInv` that an interrupt which opens the release
solenoids closes them before it returns, so that the main loop's earlier
decision is still safe, and `MasterInv` that each actor opens the master
cylinder before it clears `enabled`. The refinement theorems map each step to a
step of `ControlPromise` or to a stutter (in the petrol brake, a second
`disable_control` stutters).

`OsccApiProofs` needs five invariants: `TypeInv`; `WakeInv`, that a socket which
raises signals is a global or the one being set up and that the handler which is
past a socket has a signal pending for what came after; `OrderInv`, what the
loops of `oscc_enable` and `oscc_disable` have written so far; `OpenInv`, what
each step of opening has established of the descriptor in hand; `FoundInv`, that
once the search of `oscc_init` has found OSCC the global holds either no number
or that of an open socket on a channel with OSCC, so that neither a later
detection nor the vehicle's socket can get it.

`FaultsEndControlInTime` compares two clocks: the debouncer's, which wraps and
starts only when a check sees the condition, and the `exposure` of the pedal or
wire itself. `TimeInv` says how far apart they are at each step of the loop: until
a check has seen the condition, at most the ticks of two passes have gone by;
from then on the exposure is at most two ticks ahead of the debouncer's age; and
once a check has found the fault, at most the ticks of that pass remain. It is
the one theorem that needs a pass to be shorter than a tick.

`ModuleCanProofs` ties the lists of frames to the chip and the driver. `SeqInv`
and `HoldInv` say which frame of the bus a full buffer holds and that nobody has
found it yet; `ReadInv` how much of it the driver's fields hold at each step of a
read; `SendInv` that the report interrupt, which overwrites those fields, is not
there meanwhile; `OrderInv` what is older than the frame waiting in each buffer;
`SetupInv` and `VanishInv` which registers the start-up has written, unless the
chip refused, and therefore what may be missing. `InterfaceIsChannel` maps each
step of driver, chip and interrupt to a step of `FrameChannel` or to a stutter;
`BootInv` adds that the buffers are empty until the chip first listens.

`GatewayProofs` says of each field of the display whether it belongs to the last
report or to the one in hand, by the step the parser has reached. For
forwarding, `SendingInv` says what the driver holds at each step of `sendMsg` and
`BuffersInv` what each transmit buffer holds and that no frame of the vehicle is
in two of them or already sent: a `sendMsg` that gives up may leave its frame
behind in a buffer. `ControlBusProofs` rests for the tool on the search returning
the first slot that fits (`IndexFirst`). For the bus it proves that every frame a
node sends is one the others take (`BusInv`) and that each step of the bus is a
step of every node's own specification or leaves the node alone
(`NodesKeepTheirSpecs`); all that was proved of a node alone then holds of the
system (`BusIsSafe`).

Liveness is out of the prover's reach, since it needs fairness and `ENABLED`.
`OperatorPrevails`, `FaultsHeal`, `PullPrevails`, `LetGoHeals`,
`SensorFaultEndsControl` and `LoopComesRound` are only model-checked. Of three of
the conclusions the theorems give the bounded core, which needs no fairness:
`FaultsEndControlInTime` bounds in ticks how long a fault leaves a module in
control; `SensorFaultsBounded` shows a measure of at most `FaultCount` + 7 that
every step of the petrol brake's interrupt lowers while an input stays grounded,
and that nothing raises while the module is in control; `RoundsAreBounded` does
the same for the gateway's round, with at most 2 `TimeoutValue` + 7 steps. Also
left to TLC are the six claims of section 4, which are false.

## 6. Not modelled

* DAC writes torn by an interrupt's SPI transfer; a chip's other errors.
* The three actuator programs in one state space: they share nothing but
  frames, each is checked against every order and number of them, and
  `ControlBus` checks what the CAN interfaces make of those orders.
* The remote-request bit of a CAN frame: the driver keeps it, nobody reads it.
* The functions of `mcp_can`, `DAC_MCP49xx` and `ssd1325` that OSCC does not
  call; drawing, fonts, serial port, board start-up.
* Of the diagnostics tool the statistics, the raw dump, the options and the
  gateway entry that nothing fills.
* The petrol brake's bench programs, which replace the firmware and keep no
  state of interest; test code, build files, null firmware, hardware.
* The 16-bit overflow of the petrol brake's fault counter after nine hours, and
  the wrap of the debouncer's clock after 49.7 days of one condition.

## 7. Plan

Done: all modules above with their runs; the theorems of section 5. Left, in
order:

1. The measures of section 5 for the two override properties: how many passes of
   the loop a held pedal, or a pull on the wheel, leaves a module in control
   without the assumption that a pass is shorter than a tick.
2. The DAC writes that a report's SPI transfer may tear, as steps of
   `ControlModule`.
3. The stale command and the stale integral of the petrol brake's first update
   after an enable, as a property that names how old they may be.
4. `OsccApi` with callbacks that call more of the library than `oscc_disable`.
