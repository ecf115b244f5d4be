# A TLA+ model of the stmdsp firmware

stmdsp turns an STM32 board into a teaching platform for signal processing: it
samples an analog input, hands each half of a double buffer to an algorithm the
user compiled and loaded over USB, and plays what the algorithm returns. This
directory models the firmware of `src/source` and the few parts of ChibiOS 20.3.2
its correctness rests on. The host program is not in the repository.

## Inventory

| part | state | operations | interacts with |
|---|---|---|---|
| pipeline (`conversion.cpp`) | `m_mailbox` (2 messages), monitor and runner threads | `start`, `stop`, `startMeasurement`, `abort`, the two ADC handlers | ADC interrupt, commands, fault handlers |
| system calls and faults (`handlers.cpp`) | none of their own | `svc 0..3`, `MemManage_Handler`, `HardFault_Handler` | runner, algorithm, `abort` |
| errors (`error.cpp`) | `m_queue`, `m_index` | `add`, `assert`, `hasError`, `pop` | called by commands and, in handlers, by `abort`; no lock |
| sampling clock (`sclock.cpp`) | `m_runcount`, the timer, `m_div` | `start`, `stop`, `setRate` | ADC and both DAC channels |
| ADC, DAC (`periph/`) | driver states, `m_operation`, `dacIsDone` | `start`, `stop`, `readAlt`, `sigGenWantsMore` | clock, pipeline, DMA interrupts |
| commands (`communication.cpp`) | `run_status` | one handler per letter | everything |
| USB link (`usbserial.cpp`, `usbcfg.c`) | queues each way, suspended or not | `read`, `write`, bus events | commands, host |
| loader (`elfload.cpp`) | `m_entry`, the algorithm's memory | `loadFromInternalBuffer`, `unload` | commands, runner, `abort` |
| sample buffers (`samplebuffer.cpp`) | sizes, data, freshness mark | `modify`, `midmodify`, `modified`, `setSize` | runner, interrupt, commands |
| status thread (`monitor.cpp`) | lights, button, `isidle`, `erroron` | one loop, which can lock the kernel | reads `run_status` and `EM`, stops everything |
| CORDIC, board files | | | |

What is hard here: four threads of different priorities, interrupts and two
fault handlers share this state with almost no locks; the code that runs at the
highest priority is the user's; the only cure for it, `abort`, rewrites the
interrupted thread from inside a handler; a missed wake-up or a wrong count of
the clock's users stops processing silently; the byte stream from the host has
no packets, so one byte too many or too few changes the meaning of all that
follow. What makes the system correct: no request is lost between interrupt and
runner, Idle means nothing uses what commands then change, the clock runs exactly
while someone uses it, an algorithm that overruns is stopped, a stop completes,
an error that was recorded is reported, a half that is streamed is not overwritten
meanwhile, host and device agree on what a byte is and do not wait for each
other. `PROJECT.json` lists each hazard at its line.

## Modules

* **SClock** - the clock's count and timer. `started` and `stopped` are the two
  calls as functions of the clock, so that a command can apply them in turn. The
  count wraps at `UINT_RANGE` (2^32 on the target).
* **ErrorStack** - what `ErrorManager` promises: a bounded stack.
* **Pipeline** - what the signal-processing pipeline promises, without threads:
  halves become requests, requests are worked on one at a time, once and in
  order, and are given up only together with the algorithm.
* **Conversion** (extends SClock and ErrorStack) - the pipeline with every actor
  that touches it. A step is a section under the kernel lock or one access
  another actor can see. `Running(t)` is the scheduler: a thread steps only when
  no ready thread has a higher priority; the interrupt may come between any two
  steps. The control state of each thread is a variable (`monitor`, `runner`,
  `comm`) whose values are places in the code: for the runner, `svc0`, `pick`,
  `test`, `store` are in `threadRunner` (the read-only section `.convcode`),
  `algo` is the algorithm, `stray` an algorithm that has jumped to where it may not
  execute or has moved its stack pointer off the runner's stack, and the rest are
  system calls, on the privileged stack. That distinction decides what `abort` does.
  `Algos` is what the loaded algorithm may do: return; return a pointer of which
  the runner can read nothing, or the first sample, which is all it tests, but not
  the last; call `svc 1` or `2` (both `math`: they return at once), `svc 3` or an
  undefined service; go astray; fault. It is assumed not to call `svc 0`, the
  runner's own call, which would take a request away from the runner. `Deadline`
  restricts the interrupt to come only when the previous half is done with, the
  condition the user's guide puts on algorithms. `hung` records a handler that
  never returns. `pending`, `working` and `P` are the refinement mapping to
  Pipeline: a request the monitor holds comes before the queued ones.
* **ErrorManager** (extends ErrorStack) - `add` and `pop` in the loads and stores
  of the unoptimised build (the Makefile compiles with `-O0`), with `abort`'s
  `add` between any two. `stack`, `expected`, `torn`, `owed` are history
  variables; the byte after `m_queue` is the low byte of `m_index`, which is why
  a store one past the end changes `m_index`.
* **Peripherals** (extends SClock) - one step per command, for a host that sends
  anything: sizes, rates, starts and stops in any order, and the checks of the
  ADC, DAC, timer and serial drivers, which halt the firmware (`chconf.h` enables
  them). `idleStops` counts stops of an idle generator, `lateRate` notes a rate
  set while the timer runs.
* **Streams** (instantiates Pipeline) - the sample buffers as the host streams
  them, sample by sample and chunk by chunk, with the ADC and DAC interrupts and
  the runner between any two steps. The pipeline's part of an action is the
  action of Pipeline itself (`P!Accept`, `P!Overrun`, `P!Begin`, `P!End`), which
  Conversion implements, so Streams holds of the threads as well. Offsets and
  extents are modelled, sample values are not; `since`, `stored` and `torn` in
  `tx` record what has happened to the half being sent.
* **CommandLink** - the command protocol as a stream of bytes: a host that keeps
  to it, the driver's two queues, the communication thread at each read and
  write, refused commands, and a bus that is suspended, resumed or set up anew,
  which cuts waiting reads and writes short. `isActive` and the read of the
  command it leads to are two steps, as in `threadComm`: the link may go down
  between them, and what is queued is delivered all the same.
* **StatusMonitor** - the loop of `monitor.cpp`.
* **Device** (extends CommandLink and StatusMonitor) - both threads together: the
  status thread runs only while the communication thread sleeps or waits in the
  driver, and stops it while the kernel is locked. `starved` says that the
  pipeline, above both in priority, has taken the processor for good, as an
  undefined service call does; interrupts and the host go on.
* **ConversionProofs**, **RefinementProofs**, **PeripheralsProofs**,
  **StreamsProofs**, **ErrorStackProofs**, **ErrorManagerProofs**,
  **DeviceProofs**, **FramingProofs** - theorems.

Definitions ending in `_something` after a name of the code, commented "Mutant",
are faulty variants used to confirm that the properties can fail; no
specification uses them.

## Runs

| run | question | result |
|---|---|---|
| `conv_safety` | all algorithm behaviours, all commands, no deadline | seven invariants hold; `ImplementsPipeline` and `OverrunStopsAlgorithm` hold |
| `conv_deadline` | algorithm meets its deadline | `DeadlineSuffices`, `StopCompletes`, `MeasureServed` hold, no deadlock |
| `error_manager` | aborts between any two instructions | stack implemented when undisturbed, damage contained otherwise |
| `peripherals` | any command sequence | clock's debts, the rate in use and the possible halts are exactly as stated |
| `streams` | streaming against interrupts, runner and DAC | no access leaves a buffer; how long the host may take |
| `device` | host, link, both threads | framing kept, no standoff, nobody waits for ever, errors shown |
| `conv_patch` | does `abort` always reset the thread? | no: a hang when the runner is in its own code |
| `conv_hardfault` | is a hard fault of the algorithm recovered from? | no: the condition is inverted, and recovery would not return |
| `conv_stop` | does a stop complete if the algorithm reads the second ADC? | no: it can wait on the stopped clock |
| `conv_input` | is an unhandled request answered by an abort? | only the second: the input can be overwritten under the runner |
| `error_lost` | is every recorded abort reported? | no: the unlocked update loses it |
| `link_desync` | is the first byte `threadComm` reads a command? | no: it may be a parameter of a refused one |

`conv_safety` is the main one. `IdleIsQuiet` is the protection `setBufferSize`
and `loadAlgorithm` rely on; `NoStrandedRequest` covers wake-ups through resets
and aborts; `MeasureMeetsQuietPipeline` explains why the unguarded post of the
measuring handler loses nothing (the command runs only when the pipeline sleeps,
because the communication thread has the lowest priority of the three);
`QueueIsRecent` ties queued messages to the half being filled;
`StaleWhileOneQueued` says exactly when the DMA writes to the half the runner works
on, the other side of the finding of `conv_input`: while one request is queued,
which `adcReadHandler` lets pass because its test asks for two; `ClockServesUsers`
holds at every step inside start and stop; `ImplementsPipeline` says that each
half is worked on once and in order unless an overrun gives it up.

`conv_deadline` adds what an algorithm must do for the comment in
`adcReadHandler` to be true after all: with one that is done before the next half
is full, no half is written while it is read and no second request is ever queued
(`DeadlineSuffices`).

`streams` states the deadlines nothing in the protocol states. A transfer of an
input half is intact unless another half fills meanwhile (`InputOutlivesHalf`).
An output half lasts one half longer (`OutputOutlivesTwoHalves`), except that
`modify` rounds its copy up to 16 samples and can write over the beginning of a
second half that is being sent. The refill of the generator never goes into the
half that was playing when it was chosen (`RefillMissesPlaying`).
`BuffersInBounds` covers the rounded copies and the marks that survive a resize.

`device` shows what keeps host and device in step. `FramingKept` names the only
two ways to lose the framing, a refusal with bytes still to come and a link that
goes down once the thread has found it active (in the middle of a command, or
between `isActive` and the read that begins one), and that a new configuration
with the thread back in its loop repairs both. `NoStandoff` excludes a mutual wait
over full or empty queues as a state, and `NobodyWaitsForever` says that every wait
ends, as long as the kernel is not locked and the processor not taken for good.
`LockSeesIdle` is what the stale `isidle` still promises. `RedFollowsErrors` has
two exceptions besides the lock, both real: while it polls for an acknowledgement
over a suspended link the communication thread never sleeps, and a runner that
spins at the highest priority leaves nobody to show the error its abort has added.

`CHECK_DEADLOCK FALSE` is given where the system really stops: a hung handler,
an undefined service call, a halted driver, or, in `device`, such a spin after
the framing was lost, where the model of the link ends.

Bounds. The mailbox has its real size, 2. The error stack has its real size, 8,
in the ErrorManager runs; `Conversion` needs only that it can be empty, partly
full and full, so 1 or 2, and `Device` only tells empty from not empty, so a
count of at most 1. `UINT_RANGE` is 16 or 256: at most three users and
`MaxIdleStops` (4) surplus stops are counted, and the range must merely be wider
than that. Buffers of at most 8 samples give zero, one, odd, even and largest
sizes. In `Streams` a copy group of 2 and a chunk of 3 samples, against halves of
1, 3, 4 and (refused) 5, give a half shorter than a group, one that is no
multiple of it, a chunk that ends with the half and one that does not; ages are
told apart up to `Old` (2). In `Device` one byte of queue each way makes every
wait happen; one byte of data and two chunks give a first and a last one; one
suspension (`MaxDrops`) may hit any step and be followed by a resume or a new
configuration. Host errors are one value, `NotIdle`, in ErrorManager: which of
them is added changes only the value an overflowing store leaves in `m_index`.

Fairness (`FairSpec` of Conversion). The timer is hardware: the interrupt keeps
coming while it is enabled (weak). The scheduler runs the highest ready thread:
monitor and runner steps are weakly fair, and a system call returns. The
communication thread is pre-empted by both others, so its enabledness comes and
goes: between two halves it does get the processor, hence strong fairness of the
steps that finish a command already begun; a new command is never forced. That
the algorithm returns is assumed only with `Deadline`.

Fairness of Device. Unless it takes the processor for good (`Starve`, after which
neither thread steps and nothing is promised), the pipeline leaves it between two
halves. The communication thread then gets on when it can (weak). The host
goes on with what it has begun: it sends the rest of a command, takes answers and
acknowledges chunks (weak); it need not start a command, and neither suspensions,
resumes nor the button are forced. The status thread has the lowest priority and
runs if the other sleeps again and again (strong), which the sleep in
`threadComm`'s loop provides.

`OverrunStopsAlgorithm` is about the algorithm's own code. An interrupt that finds
the runner inside a system call does not reset it, and an undefined service call
spins there for ever. Nor can `abort` help an algorithm that is astray: with the
program counter at an address it may not execute, the patch either faults, which
ends in `HardFault_Handler`'s loop, or is written where it cannot be executed
either, and the thread faults again for ever; with the stack pointer elsewhere
`abort` does not take the thread for the runner. The property names these as where
the algorithm may end up. The escape for `hung = "hardfault"` is the finding of
`conv_hardfault`.

## Proofs

Each theorem holds for every value of the constants its module declares, under
the module's `ASSUME`s: `UIntAssumption`, `ErrorQueueAssumption`,
`AlgoAssumption`, `PeripheralsAssumption`, `StreamsAssumption`,
`HostErrorAssumption`, `RoomAssumption` (an error's number fits the queue's
index), `LinkAssumption`.

`ConversionProofs` proves that `Spec` implies each of the seven invariants of
`conv_safety` and that of `conv_deadline`, for every size of the error stack,
every counter width and every set of algorithm behaviours, with or without the deadline. None is inductive
alone. The invariant `IInv` adds where the communication thread is in a start or
stop and which driver states go with it (the thread's place determines `adc`,
`dac[0]`, `m_operation` and `run_status`), and that a runner at work implies the
ADC is on. The argument then follows the priorities: `CommRunsQuiet` says that a
communication step sees a sleeping monitor and runner, so a command cannot
overtake a request; `MonitorRunsAlone` that a monitor step sees a waiting runner,
so `chMsgSend` always delivers at once; the lemmas per actor show `IInv` kept.
`StaleWhileOneQueued` and `DeadlineSuffices` need more, `Pace`: the half of the
request at hand, the runner's or the one the monitor holds, is the one being
filled just when one request is queued (`InStep`), which each interrupt turns over
on both sides and which an overrun breaks; and with a deadline a request is
queued only until the monitor it wakes has run (`Prompt`), so there is no overrun.

`RefinementProofs` proves `Spec => ImplementsPipeline` from that invariant. The
interrupt is `Accept` or `Overrun`; a fetch of the monitor is a stutter because
what it holds is still pending; its send is `Begin`; the store, or a fault in the
algorithm, is `End`; a command is a stutter, `Restart` or `Load`, which need the
quiet pipeline of `CommKeepsPipeline`. A fault in the runner's own test read or
copy, or of an algorithm astray, is `Load` (it unloads, and then hangs or is
repeated).

`PeripheralsProofs` proves all five invariants of its run for every even buffer
size, every set of host sizes and rates and every counter width larger than the
surplus stops; `DriversFollowStatus` is the strengthening.

`StreamsProofs` proves the five of `streams`. `GenInv` places `dacIsDone`
and `more` opposite the playing half until the DAC turns; `BufInv` bounds a mark
by the largest half, which makes an old mark plus a new size stay inside; `PipeInv`
types the pipeline's part; `FreshInv` says that a mark, and a transfer begun from
one, is for the half that is not being filled until the age counts up. `RecentInv`
is its counterpart for the output: while at most one half has filled since the mark
was set, the pipeline holds nothing but that half (`Behind`), and its copy misses
the half being sent unless it is rounded up into it (`CopyMisses`).

`ErrorManagerProofs` proves all three of `error_manager`. `IndexInv` bounds the
index at each instruction, one past its range only where the store that repairs
it follows; `StackInv` says how far an operation no abort has hit still is from
the stack it is to produce.

`DeviceProofs` proves `TypeOK` and `LockSeesIdle` for every queue size, payload,
number of chunks and number of suspensions. `HostCounts` (a host that awaits a
chunk has one due) and `LedInv` (what `isidle` still says of `run_status`) are the
strengthenings.

`FramingProofs` proves `FramingKept` and `NoStandoff` for the same constants. The
invariant `FrameInv` compares two views of the thread. `Whereabouts` is where it
is, with no difference between its loop and the read of a command; `Believed` is
where the host takes it to be once all its bytes have arrived.
The bytes in between, `rx \o out`, lead from the one to the other (`Leads`): there
is a sequence of places, one per byte and one more, along which each byte is one
the thread expects at its place (`Expects`) and takes it to the next (`Reads`).
Because `Leads` asserts that sequence instead of computing it, no induction over
the queue is needed: the thread takes the first byte off (`LeadsTail`), the host
adds a whole command at the end (`LeadsCommand`, `LeadsOn`), and moving a byte from
`out` to `rx` changes nothing (`PassesOn`). Otherwise an answer is on its way and
no byte is (`Answering`). Refusals, and suspensions that find the thread outside
its loop, break the invariant, and are what sets `disturbed`; before one, the byte
`isActive` has seen is still in the queue (`ReadFinds`). `NoStandoff` follows: when
both wait nothing is on its way in either direction, so the two views agree, and
they can only agree, with the thread not writing, between two commands.

Every invariant of the passing runs, and the refinement, is stated by a theorem.
Only model-checked are the liveness properties, `StopCompletes`, `MeasureServed`,
`OverrunStopsAlgorithm`, `NobodyWaitsForever` and `RedFollowsErrors`: they need
fairness and ENABLED, which are out of the prover's reach. What the violation
runs check is false and has no theorem.

## Not modelled

Sample values; the registers of the ADC's PLL and of the board; CORDIC numerics,
floating point in a hardware unit with no shared state; the ELF header walk, whose
offsets come unchecked from the file, so that success or failure is all the model
tells apart; ADC overflow errors, for which the driver configuration has no
callback; USB descriptors. In Device the generator is on or off for a whole
behaviour, and the pipeline appears only through the errors its aborts add and
the processor it may take for good (`starved`); what it does then is the overrun
question of `conv_safety`. An algorithm that calls `svc 0` itself is excluded, and
so is what one astray may do to memory the MPU lets it write. Most of the
repository is ChibiOS for all its ports; of that
only the mailbox, synchronous messages, priorities, buffer queues, serial driver
and driver checks the firmware uses are modelled. The model follows the L4 board;
the H7 build differs in peripherals, not in control.

## Plan

The modules planned at the outset are in place, in the order pipeline, errors,
peripherals, streams, link, status thread, abstract pipeline. Left:

1. The ELF loader as an operator on a small file, checked against a reference
   definition of which bytes of the algorithm's memory it may write.
2. `Device` with the generator started and stopped inside a behaviour.
