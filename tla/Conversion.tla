----------------------------- MODULE Conversion -----------------------------
(***************************************************************************)
(* The signal-processing pipeline of the firmware, at the granularity at   *)
(* which the processor can be pre-empted:                                  *)
(*                                                                         *)
(*   ADC DMA interrupt --m_mailbox--> monitor thread --message--> runner   *)
(*                                                                         *)
(* driven by the communication thread, which starts, measures and stops    *)
(* conversions and loads and unloads the algorithm, and cut short by       *)
(* ConversionManager::abort, called from the interrupt when the queue      *)
(* overruns and from the fault handlers when the algorithm misbehaves.     *)
(*                                                                         *)
(* One processor; a thread takes a step only while it has the highest      *)
(* priority of the ready threads.  The ADC interrupt is taken between any  *)
(* two steps.  A step is a section the kernel lock makes atomic or a single*)
(* access to state another actor can see.                                  *)
(***************************************************************************)
EXTENDS Integers, Sequences, ErrorStack, SClock

CONSTANTS
    Algos,        \* what the loaded algorithm may do, a subset of AlgoSteps
    Deadline      \* TRUE: the algorithm returns, before the next half is full

\* "math" is svc 1 or svc 2, which return at once, and "stray" a jump to where it
\* may not execute or a stack pointer off the runner's stack.  It is assumed not
\* to make the runner's own call, svc 0, which would take a request from it.
AlgoSteps == {"return", "badptr", "math", "readAlt", "badsvc", "stray",
              "memfault", "hardfault"}

ASSUME AlgoAssumption == Algos \subseteq AlgoSteps /\ Deadline \in BOOLEAN

VARIABLES
    run_status,   \* main.cpp
    m_entry,      \* ELFManager::m_entry
    em,           \* EM's stack of errors
    adc,          \* state of the ADC driver of the sampled input
    m_operation,  \* ADC::m_operation, called back by the interrupt
    half,         \* the half of Samples::In the DMA is filling
    inflight,     \* the clock stopped with a triggered sample still converting
    dac,          \* states of the two DAC drivers: 0 output, 1 generator
    m_mailbox,    \* requests posted by the interrupt
    monitor,      \* control state of the monitor thread
    sending,      \* the message the monitor has fetched
    runner,       \* control state of the runner thread
    message,      \* the message the runner is working on
    samples,      \* how much the runner can read of what the algorithm returned
    comm,         \* control state of the communication thread
    hung          \* the processor is stuck in a handler, and why

driverVars == <<adc, m_operation, half, inflight, dac, m_runcount, timer>>
algoVars == <<m_entry, em>>
pipeVars == <<m_mailbox, monitor, sending, runner, message, samples>>
vars == <<run_status, m_entry, em, adc, m_operation, half, inflight, dac,
          m_runcount, timer, m_mailbox, monitor, sending, runner, message,
          samples, comm, hung>>

-----------------------------------------------------------------------------
(* Messages and halves.                                                    *)

Half == {"first", "second"}
Other(h) == IF h = "first" THEN "second" ELSE "first"

MSG_CONVFIRST == 1
MSG_CONVSECOND == 2
MSG_CONVFIRST_MEASURE == 3
MSG_CONVSECOND_MEASURE == 4
Msg == 1 .. 4

MSG_FOR_FIRST(msg) == msg % 2 = 1
MSG_FOR_MEASURE(msg) == msg > 2

HalfOf(msg) == IF MSG_FOR_FIRST(msg) THEN "first" ELSE "second"

-----------------------------------------------------------------------------
(* Threads and their priorities.                                           *)

\* The runner's code: in .convcode, which the MPU makes read-only; in the
\* loaded algorithm, which is writable memory; or astray in neither.  They use the
\* runner's own, unprivileged stack.  In a system call it is on its privileged one.
InConvcode == {"svc0", "pick", "test", "store"}
OnRunnerStack == InConvcode \union {"algo", "stray"}
InSyscall == {"wtmsg", "tmstart", "tmstop", "math", "readAlt", "badsvc"}

RunnerPCs == OnRunnerStack \union InSyscall
MonitorPCs == {"fetch", "wtmb", "send", "sndq"}
CommPCs == {"cmd", "adcStart", "adcClock", "dacStart", "dacClock",
            "dacStop", "dacUnclock", "adcUnclock", "adcStop", "adcOp", "idle",
            "elfRead", "elfUnload", "elfLoad", "genClock", "genUnclock"}

\* HIGHPRIO, NORMALPRIO + 1, NORMALPRIO.
Priority == [runner |-> 3, monitor |-> 2, comm |-> 1]

Thread == {"runner", "monitor", "comm"}

Ready(t) ==
    CASE t = "runner" -> runner # "wtmsg"
      [] t = "monitor" -> monitor \notin {"wtmb", "sndq"}
      [] OTHER -> TRUE

\* t is the thread the processor is executing.
Running(t) ==
    /\ hung = "no"
    /\ Ready(t)
    /\ \A u \in Thread : Ready(u) => Priority[u] <= Priority[t]

-----------------------------------------------------------------------------
(* Aborting the algorithm.                                                 *)

\* Mutant: unloads, and leaves the running algorithm alone.
abort_unloadOnly(inMemManage) ==
    /\ m_entry' = "null"
    /\ em' = add(em, "ConversionAborted")
    /\ UNCHANGED <<hung, runner>>

\* ConversionManager::abort.  It unloads the algorithm, records the error and,
\* when the interrupted code is on the runner's stack, patches the interrupted
\* instruction to return to the start of the runner's loop.  The patch is a store:
\* in the algorithm it succeeds; in .convcode it faults inside the handler.  From
\* an interrupt that fault is a MemManage fault, which aborts once more; in
\* MemManage_Handler it escalates to HardFault_Handler, which spins because
\* run_status is Running.  Of an algorithm astray the store faults, in either way,
\* or changes nothing: what it wrote may not be executed, or there was no patch.
abort(inMemManage) ==
    /\ m_entry' = "null"
    /\ \/ /\ runner \notin InConvcode
          /\ em' = add(em, "ConversionAborted")
          /\ runner' = IF runner = "algo" THEN "svc0" ELSE runner
          /\ UNCHANGED hung
       \/ /\ runner \in InConvcode \union {"stray"}
          /\ \/ /\ inMemManage \/ runner = "stray"
                /\ em' = add(em, "ConversionAborted")
             \/ /\ ~inMemManage
                /\ em' = add(add(em, "ConversionAborted"), "ConversionAborted")
          /\ hung' = "patch"
          /\ UNCHANGED runner

-----------------------------------------------------------------------------
(* The ADC interrupt.                                                      *)

\* Mutant: the waiting reader is not woken.
chMBPostI_noWakeup(msg) ==
    IF Len(m_mailbox) < 2
      THEN m_mailbox' = Append(m_mailbox, msg) /\ UNCHANGED monitor
      ELSE UNCHANGED <<m_mailbox, monitor>>

\* chMBPostI: a full mailbox refuses the message; a waiting reader is woken.
chMBPostI(msg) ==
    IF Len(m_mailbox) < 2
      THEN /\ m_mailbox' = Append(m_mailbox, msg)
           /\ monitor' = IF monitor = "wtmb" THEN "fetch" ELSE monitor
      ELSE UNCHANGED <<m_mailbox, monitor>>

\* chMBResetI followed by chMBResumeX under the same lock: the queued messages
\* are lost and a waiting reader is woken with MSG_RESET, which makes
\* threadMonitor fetch again.
chMBReset ==
    /\ m_mailbox' = <<>>
    /\ monitor' = IF monitor = "wtmb" THEN "fetch" ELSE monitor

\* Mutant: the test for a slow algorithm comes one request late.
adcReadHandler_late(h) ==
    /\ chMBPostI(IF h = "first" THEN MSG_CONVFIRST ELSE MSG_CONVSECOND)
    /\ UNCHANGED <<m_entry, em, hung, runner, m_operation>>

\* Mutant: a slow algorithm loses its requests and stays.
adcReadHandler_noAbort(h) ==
    /\ \/ /\ Len(m_mailbox) > 1
          /\ chMBReset
       \/ /\ Len(m_mailbox) <= 1
          /\ chMBPostI(IF h = "first" THEN MSG_CONVFIRST ELSE MSG_CONVSECOND)
    /\ UNCHANGED <<m_operation, m_entry, em, hung, runner>>

\* Mutant: the halves are confused.
adcReadHandler_swapped(h) ==
    /\ Len(m_mailbox) <= 1
    /\ chMBPostI(IF h = "first" THEN MSG_CONVSECOND ELSE MSG_CONVFIRST)
    /\ UNCHANGED <<m_entry, em, hung, runner, m_operation>>

\* ConversionManager::adcReadHandler for the half h just filled.
adcReadHandler(h) ==
    /\ \/ /\ Len(m_mailbox) > 1
          /\ chMBReset
          /\ abort(FALSE)
       \/ /\ Len(m_mailbox) <= 1
          /\ chMBPostI(IF h = "first" THEN MSG_CONVFIRST ELSE MSG_CONVSECOND)
          /\ UNCHANGED <<m_entry, em, hung, runner>>
    /\ UNCHANGED m_operation

\* Mutants: it stays the handler; it posts an ordinary request.
adcReadHandlerMeasure_stays(h) ==
    /\ chMBPostI(IF h = "first" THEN MSG_CONVFIRST_MEASURE
                                ELSE MSG_CONVSECOND_MEASURE)
    /\ UNCHANGED <<m_operation, m_entry, em, hung, runner>>
adcReadHandlerMeasure_ordinary(h) ==
    /\ chMBPostI(IF h = "first" THEN MSG_CONVFIRST ELSE MSG_CONVSECOND)
    /\ m_operation' = "adcReadHandler"
    /\ UNCHANGED <<m_entry, em, hung, runner>>

\* ConversionManager::adcReadHandlerMeasure: posts whatever the queue holds,
\* then hands the following halves back to adcReadHandler.
adcReadHandlerMeasure(h) ==
    /\ chMBPostI(IF h = "first" THEN MSG_CONVFIRST_MEASURE
                                ELSE MSG_CONVSECOND_MEASURE)
    /\ m_operation' = "adcReadHandler"
    /\ UNCHANGED <<m_entry, em, hung, runner>>

\* The DMA has filled a half: the driver's interrupt calls ADC::
\* conversionCallback, which calls m_operation with that half.  The trigger is
\* the sampling clock; when it has stopped, the sample already triggered can
\* still complete a half.  With Deadline the previous half is done with.
AdcInterrupt ==
    /\ hung = "no"
    /\ adc = "ADC_ACTIVE"
    /\ Ticking \/ inflight
    /\ Deadline => runner = "wtmsg" /\ monitor = "wtmb"
    /\ half' = Other(half)
    /\ inflight' = FALSE
    /\ \/ m_operation = "adcReadHandler" /\ adcReadHandler(half)
       \/ m_operation = "adcReadHandlerMeasure" /\ adcReadHandlerMeasure(half)
    /\ UNCHANGED <<run_status, adc, dac, clockVars, sending, message,
                   samples, comm>>

-----------------------------------------------------------------------------
(* The monitor thread: ConversionManager::threadMonitor.                   *)

\* chMBFetchTimeout(TIME_INFINITE).
MonitorFetch ==
    /\ Running("monitor")
    /\ monitor = "fetch"
    /\ IF m_mailbox # <<>>
         THEN /\ sending' = Head(m_mailbox)
              /\ m_mailbox' = Tail(m_mailbox)
              /\ monitor' = "send"
         ELSE /\ monitor' = "wtmb"
              /\ UNCHANGED <<sending, m_mailbox>>
    /\ UNCHANGED <<run_status, algoVars, driverVars, runner, message,
                   samples, comm, hung>>

\* chMsgSend(m_thread_runner, message).  A runner waiting in chMsgWaitS takes
\* the message and releases the monitor before the kernel lock is left.
MonitorSend ==
    /\ Running("monitor")
    /\ monitor = "send"
    /\ IF runner = "wtmsg"
         THEN /\ message' = sending
              /\ runner' = "pick"
              /\ monitor' = "fetch"
         ELSE /\ monitor' = "sndq"
              /\ UNCHANGED <<runner, message>>
    /\ UNCHANGED <<run_status, algoVars, driverVars, m_mailbox, sending,
                   samples, comm, hung>>

Monitor == MonitorFetch \/ MonitorSend

-----------------------------------------------------------------------------
(* The runner thread: ConversionManager::threadRunner and the system calls *)
(* of handlers.cpp it and the algorithm make.                              *)

\* svc 0: take the message of a parked sender, or sleep until one comes.
RunnerSvc0 ==
    /\ Running("runner")
    /\ runner = "svc0"
    /\ IF monitor = "sndq"
         THEN /\ message' = sending
              /\ runner' = "pick"
              /\ monitor' = "fetch"
         ELSE /\ runner' = "wtmsg"
              /\ UNCHANGED <<message, monitor>>
    /\ UNCHANGED <<run_status, algoVars, driverVars, m_mailbox, sending,
                   samples, comm, hung>>

\* Steps that change only where the runner is and what it has in samples.
RunnerGoes(from, to) ==
    /\ Running("runner")
    /\ runner = from
    /\ runner' = to
    /\ UNCHANGED <<run_status, algoVars, driverVars, m_mailbox, monitor,
                   sending, message, comm, hung>>

\* Select the half and the algorithm.  Without one the input itself is stored.
RunnerPick ==
    /\ RunnerGoes("pick", IF m_entry = "null" THEN "store"
                          ELSE IF MSG_FOR_MEASURE(message) THEN "tmstart"
                          ELSE "algo")
    /\ samples' = "readable"

\* svc 2 before and after a measured call.
RunnerStartTimer == RunnerGoes("tmstart", "algo") /\ UNCHANGED samples
RunnerStopTimer == RunnerGoes("tmstop", "test") /\ UNCHANGED samples

\* The algorithm returns a pointer to its samples, of which the runner may read
\* all, the first but not the last, or none.
AlgoReturn ==
    /\ RunnerGoes("algo", IF MSG_FOR_MEASURE(message) THEN "tmstop" ELSE "test")
    /\ \/ "return" \in Algos /\ samples' = "readable"
       \/ "badptr" \in Algos /\ samples' \in {"partly", "unreadable"}

\* The algorithm goes astray.  It may put its stack pointer right again.
AlgoStrays ==
    /\ "stray" \in Algos
    /\ RunnerGoes("algo", "stray") \/ RunnerGoes("stray", "algo")
    /\ UNCHANGED samples

\* The algorithm calls svc 1, 2 or 3 or an undefined service, which spins.
AlgoSyscall ==
    \E call \in {"math", "readAlt", "badsvc"} \intersect Algos :
        RunnerGoes("algo", call) /\ UNCHANGED samples

\* svc 1 and 2 return; svc 3 returns once the second ADC has been triggered by the
\* sampling clock often enough.
SyscallReturn ==
    /\ \/ RunnerGoes("math", "algo")
       \/ Ticking /\ RunnerGoes("readAlt", "algo")
    /\ UNCHANGED samples

\* A MemManage fault: a forbidden access of the algorithm; its next instruction or
\* access when it is astray; the runner's test read of the first sample, or its
\* copy of the others.
MemManage_Handler ==
    /\ Running("runner")
    /\ \/ runner = "algo" /\ "memfault" \in Algos
       \/ runner = "stray"
       \/ runner = "test" /\ samples = "unreadable"
       \/ runner = "store" /\ samples = "partly"
    /\ abort(TRUE)
    /\ UNCHANGED <<run_status, driverVars, m_mailbox, monitor, sending,
                   message, samples, comm>>

\* A fault of the algorithm that is not a MemManage fault.  The handler spins
\* in every case: the call of MemManage_Handler returns into it.
HardFault_Handler ==
    /\ Running("runner")
    /\ runner = "algo"
    /\ "hardfault" \in Algos
    /\ m_entry' = IF run_status = "Running" THEN m_entry ELSE "null"
    /\ em' = assert(em, run_status = "Running", "ConversionAborted")
    /\ hung' = "hardfault"
    /\ UNCHANGED <<run_status, driverVars, pipeVars, comm>>

\* testRead, then Samples::Out.modify or midmodify.
RunnerTest ==
    /\ samples # "unreadable"
    /\ RunnerGoes("test", "store")
    /\ UNCHANGED samples

RunnerStore ==
    /\ samples # "partly"
    /\ RunnerGoes("store", "svc0")
    /\ UNCHANGED samples

\* The steps the firmware takes of its own accord, and the algorithm's.
RunnerFirmware == RunnerSvc0 \/ RunnerPick \/ RunnerStartTimer
                    \/ RunnerStopTimer \/ RunnerTest \/ RunnerStore
Algorithm == AlgoReturn \/ AlgoStrays \/ AlgoSyscall \/ SyscallReturn
               \/ MemManage_Handler \/ HardFault_Handler

-----------------------------------------------------------------------------
(* The communication thread: the command handlers of communication.cpp and *)
(* the calls they make, one step per access another actor can see.         *)

CommGoes(from, to) ==
    /\ Running("comm")
    /\ comm = from
    /\ comm' = to
    /\ UNCHANGED <<pipeVars, hung>>

\* The clock stops with or without a triggered sample still converting.
SClockStopped ==
    /\ SClockStop
    /\ IF timer' = "GPT_READY" /\ adc = "ADC_ACTIVE"
         THEN inflight' \in BOOLEAN
         ELSE UNCHANGED inflight

\* 'R': ConversionManager::start = Out.clear, ADC::start, DAC::start(0).
startConversion ==
    /\ CommGoes("cmd", IF run_status = "Idle" THEN "adcStart" ELSE "cmd")
    /\ run_status' = "Running"
    /\ em' = assert(em, run_status = "Idle", "NotIdle")
    /\ UNCHANGED <<m_entry, driverVars>>

startADC ==
    /\ CommGoes("adcStart", "adcClock")
    /\ m_operation' = "adcReadHandler"
    /\ adc' = "ADC_ACTIVE"
    /\ half' = "first"
    /\ UNCHANGED <<run_status, algoVars, inflight, dac, clockVars>>

startADCClock ==
    /\ CommGoes("adcClock", "dacStart")
    /\ SClockStart
    /\ UNCHANGED <<run_status, algoVars, adc, m_operation, half, inflight, dac>>

startDAC ==
    /\ CommGoes("dacStart", "dacClock")
    /\ dac' = [dac EXCEPT ![0] = "DAC_ACTIVE"]
    /\ UNCHANGED <<run_status, algoVars, adc, m_operation, half, inflight,
                   clockVars>>

startDACClock ==
    /\ CommGoes("dacClock", "cmd")
    /\ SClockStart
    /\ UNCHANGED <<run_status, algoVars, adc, m_operation, half, inflight, dac>>

\* Mutant: run_status is Idle before the conversion has been stopped.
stopConversion_idleFirst ==
    /\ CommGoes("cmd", IF run_status = "Running" THEN "dacStop" ELSE "cmd")
    /\ run_status' = "Idle"
    /\ em' = assert(em, run_status = "Running", "NotRunning")
    /\ UNCHANGED <<m_entry, driverVars>>

\* 'S': ConversionManager::stop = DAC::stop(0), ADC::stop.
stopConversion ==
    /\ CommGoes("cmd", IF run_status = "Running" THEN "dacStop" ELSE "cmd")
    /\ em' = assert(em, run_status = "Running", "NotRunning")
    /\ UNCHANGED <<run_status, m_entry, driverVars>>

stopDAC ==
    /\ CommGoes("dacStop", "dacUnclock")
    /\ dac' = [dac EXCEPT ![0] = "DAC_READY"]
    /\ UNCHANGED <<run_status, algoVars, adc, m_operation, half, inflight,
                   clockVars>>

stopDACClock ==
    /\ CommGoes("dacUnclock", "adcUnclock")
    /\ SClockStopped
    /\ UNCHANGED <<run_status, algoVars, adc, m_operation, half, dac>>

\* ADC::stop stops the clock before the conversion.
stopADCClock ==
    /\ CommGoes("adcUnclock", "adcStop")
    /\ SClockStopped
    /\ UNCHANGED <<run_status, algoVars, adc, m_operation, half, dac>>

stopADC ==
    /\ CommGoes("adcStop", "adcOp")
    /\ adc' = "ADC_READY"
    /\ inflight' = FALSE
    /\ UNCHANGED <<run_status, algoVars, m_operation, half, dac, clockVars>>

clearOperation ==
    /\ CommGoes("adcOp", "idle")
    /\ m_operation' = "null"
    /\ UNCHANGED <<run_status, algoVars, adc, half, inflight, dac, clockVars>>

\* Mutant: run_status is not updated.
setIdle_forgotten ==
    /\ CommGoes("idle", "cmd")
    /\ UNCHANGED <<run_status, algoVars, driverVars>>

setIdle ==
    /\ CommGoes("idle", "cmd")
    /\ run_status' = "Idle"
    /\ UNCHANGED <<algoVars, driverVars>>

\* 'M': ConversionManager::startMeasurement.
measureConversion ==
    /\ CommGoes("cmd", "cmd")
    /\ m_operation' = IF run_status = "Running" THEN "adcReadHandlerMeasure"
                                                ELSE m_operation
    /\ em' = assert(em, run_status = "Running", "NotRunning")
    /\ UNCHANGED <<run_status, m_entry, adc, half, inflight, dac, clockVars>>

\* 'E': the size and the file are read from the host, then loaded.
loadAlgorithm ==
    /\ CommGoes("cmd", IF run_status = "Idle" THEN "elfRead" ELSE "cmd")
    /\ em' = assert(em, run_status = "Idle", "NotIdle")
    /\ UNCHANGED <<run_status, m_entry, driverVars>>

\* The host's link fails, the size is refused, or the file is received.
readAlgorithm ==
    /\ \/ \E error \in {"BadParamSize", "BadUserCodeSize"} :
            CommGoes("elfRead", "cmd") /\ em' = add(em, error)
       \/ CommGoes("elfRead", "elfUnload") /\ UNCHANGED em
    /\ UNCHANGED <<run_status, m_entry, driverVars>>

\* ELFManager::loadFromInternalBuffer clears m_entry first and sets it last,
\* after the memory of the algorithm has been overwritten.
loadBegin ==
    /\ CommGoes("elfUnload", "elfLoad")
    /\ m_entry' = "null"
    /\ UNCHANGED <<run_status, em, driverVars>>

loadEnd ==
    /\ CommGoes("elfLoad", "cmd")
    /\ \/ m_entry' = "algorithm" /\ UNCHANGED em
       \/ em' = add(em, "BadUserCodeLoad") /\ UNCHANGED m_entry
    /\ UNCHANGED <<run_status, driverVars>>

\* 'e': at any time.
unloadAlgorithm ==
    /\ CommGoes("cmd", "cmd")
    /\ m_entry' = "null"
    /\ UNCHANGED <<run_status, em, driverVars>>

\* 'I'.
readStatus ==
    /\ CommGoes("cmd", "cmd")
    /\ em' = pop(em)
    /\ UNCHANGED <<run_status, m_entry, driverVars>>

\* 'W' and 'w' from a host that starts a stopped generator and stops a running
\* one; Peripherals.tla has the host that does not.
startGenerator ==
    /\ dac[1] = "DAC_READY"
    /\ CommGoes("cmd", "genClock")
    /\ dac' = [dac EXCEPT ![1] = "DAC_ACTIVE"]
    /\ UNCHANGED <<run_status, algoVars, adc, m_operation, half, inflight,
                   clockVars>>

startGeneratorClock ==
    /\ CommGoes("genClock", "cmd")
    /\ SClockStart
    /\ UNCHANGED <<run_status, algoVars, adc, m_operation, half, inflight, dac>>

stopGenerator ==
    /\ dac[1] = "DAC_ACTIVE"
    /\ CommGoes("cmd", "genUnclock")
    /\ dac' = [dac EXCEPT ![1] = "DAC_READY"]
    /\ UNCHANGED <<run_status, algoVars, adc, m_operation, half, inflight,
                   clockVars>>

stopGeneratorClock ==
    /\ CommGoes("genUnclock", "cmd")
    /\ SClockStopped
    /\ UNCHANGED <<run_status, algoVars, adc, m_operation, half, dac>>

\* A new command of the host, and the rest of the command being executed.
Command == startConversion \/ stopConversion \/ measureConversion
             \/ loadAlgorithm \/ unloadAlgorithm \/ readStatus
             \/ startGenerator \/ stopGenerator
CommContinues ==
    \/ startADC \/ startADCClock \/ startDAC \/ startDACClock
    \/ stopDAC \/ stopDACClock \/ stopADCClock \/ stopADC
    \/ clearOperation \/ setIdle
    \/ readAlgorithm \/ loadBegin \/ loadEnd
    \/ startGeneratorClock \/ stopGeneratorClock

-----------------------------------------------------------------------------
\* main: the peripherals configured, the threads created, nothing requested.
Init ==
    /\ run_status = "Idle"
    /\ m_entry = "null"
    /\ em = <<>>
    /\ adc = "ADC_READY"
    /\ m_operation = "null"
    /\ half = "first"
    /\ inflight = FALSE
    /\ dac = [channel \in {0, 1} |-> "DAC_READY"]
    /\ SClockBegin
    /\ m_mailbox = <<>>
    /\ monitor = "fetch"
    /\ sending = MSG_CONVFIRST
    /\ runner = "svc0"
    /\ message = MSG_CONVFIRST
    /\ samples = "readable"
    /\ comm = "cmd"
    /\ hung = "no"

Next == AdcInterrupt \/ Monitor \/ RunnerFirmware \/ Algorithm
          \/ Command \/ CommContinues

Spec == Init /\ [][Next]_vars

\* The timer keeps triggering; a thread that stays the one to run gets on; the
\* communication thread gets on if it is the one to run again and again; a
\* system call returns when it can; an algorithm that meets its deadline makes
\* finitely many calls and returns.
Fairness ==
    /\ WF_vars(AdcInterrupt)
    /\ WF_vars(Monitor)
    /\ WF_vars(RunnerFirmware)
    /\ WF_vars(SyscallReturn)
    /\ SF_vars(CommContinues)
    /\ SF_vars(Deadline /\ AlgoReturn)

FairSpec == Spec /\ Fairness

-----------------------------------------------------------------------------
(* Safety.                                                                 *)

\* Types; the mailbox, the error stack and the clock's count stay in bounds.
TypeOK ==
    /\ run_status \in {"Idle", "Running"}
    /\ m_entry \in {"null", "algorithm"}
    /\ em \in ErrorStacks
    /\ adc \in {"ADC_READY", "ADC_ACTIVE"}
    /\ m_operation \in {"null", "adcReadHandler", "adcReadHandlerMeasure"}
    /\ half \in Half
    /\ inflight \in BOOLEAN
    /\ dac \in [{0, 1} -> {"DAC_READY", "DAC_ACTIVE"}]
    /\ ClockTypeOK
    /\ m_mailbox \in Seq(Msg) /\ Len(m_mailbox) <= 2
    /\ monitor \in MonitorPCs
    /\ sending \in Msg
    /\ runner \in RunnerPCs
    /\ message \in Msg
    /\ samples \in {"readable", "partly", "unreadable"}
    /\ comm \in CommPCs
    /\ hung \in {"no", "patch", "hardfault"}

\* The pipeline has nothing to do.
Quiet == m_mailbox = <<>> /\ monitor = "wtmb" /\ runner = "wtmsg"

\* While run_status is Idle no request is queued or under way and the ADC is
\* off: that is what lets setBufferSize resize the sample buffers and
\* loadAlgorithm overwrite the algorithm's memory with no other protection
\* than the test of run_status.
IdleIsQuiet ==
    run_status = "Idle" =>
        /\ adc = "ADC_READY" /\ m_operation = "null"
        /\ m_mailbox = <<>> /\ monitor \in {"fetch", "wtmb"}
        /\ runner \in {"svc0", "wtmsg"}

\* The monitor never sleeps on a mailbox that holds a request, and is never
\* left waiting for the runner to take its message: the runner abort throws
\* back to its start owes nobody a release.
NoStrandedRequest ==
    /\ monitor = "wtmb" => m_mailbox = <<>>
    /\ monitor # "sndq"

\* adcReadHandlerMeasure posts without looking at the queue; the measurement
\* is not lost because the pipeline is idle until that interrupt.
MeasureMeetsQuietPipeline ==
    m_operation = "adcReadHandlerMeasure" => Quiet

\* Queued requests are for successive halves and the newest is for the half
\* just filled, the one the DMA is not writing to.
QueueIsRecent ==
    m_mailbox # <<>> =>
        /\ HalfOf(m_mailbox[Len(m_mailbox)]) = Other(half)
        /\ Len(m_mailbox) = 2 => HalfOf(m_mailbox[1]) = half

\* How late the test for a slow algorithm comes.  The DMA writes to the half the
\* runner works on just while one request is queued; adcReadHandler gives up at
\* the next half but one, when that half has been overwritten.  True until it
\* gives up: from then on there is no algorithm.
StaleWhileOneQueued ==
    runner \notin {"svc0", "wtmsg"} /\ m_entry # "null" =>
        (HalfOf(message) = half <=> Len(m_mailbox) = 1)

\* The sampling clock's count is the number of conversions that have asked for
\* it and not yet given it up, and it runs exactly while there is one: no
\* conversion loses its clock because another ends.
One(b) == IF b THEN 1 ELSE 0
ClockServesUsers ==
    /\ m_runcount = One(adc = "ADC_ACTIVE" /\ comm \notin {"adcClock", "adcStop"})
                  + One((dac[0] = "DAC_ACTIVE" /\ comm # "dacClock")
                          \/ comm = "dacUnclock")
                  + One((dac[1] = "DAC_ACTIVE" /\ comm # "genClock")
                          \/ comm = "genUnclock")
    /\ Ticking <=> m_runcount > 0

-----------------------------------------------------------------------------
(* Refinement.                                                             *)

\* The request the monitor holds comes before the queued ones; the runner
\* works on its message until it asks for the next one.
pending == IF monitor \in {"send", "sndq"} THEN <<sending>> \o m_mailbox
                                           ELSE m_mailbox
working == IF runner \in {"svc0", "wtmsg"} THEN 0 ELSE message

P == INSTANCE Pipeline WITH Request <- Msg, None <- 0,
                            loaded <- (m_entry # "null")

\* The threads, the mailbox and the interrupts implement Pipeline: each half
\* that fills is worked on once, in order, or given up in an overrun that
\* unloads the algorithm; loading and restarting find nothing under way.
ImplementsPipeline == P!Spec

-----------------------------------------------------------------------------
(* Liveness.                                                               *)

\* A requested stop ends with run_status Idle.
StopCompletes == comm = "dacStop" ~> run_status = "Idle"

\* A requested measurement reaches the runner, which times the algorithm if there
\* is one, unless the conversion is stopped first.
MeasureServed ==
    m_operation = "adcReadHandlerMeasure" ~>
        \/ runner = "pick" /\ MSG_FOR_MEASURE(message)
        \/ m_operation = "null"

\* An algorithm running while the clock ticks is not left to run for ever: it
\* returns, or makes a call, or the overrunning queue aborts it.  abort cannot help
\* when the algorithm has jumped or moved its stack pointer to where no instruction
\* of it can be patched, nor once HardFault_Handler has stopped the processor.
OverrunStopsAlgorithm ==
    (runner = "algo" /\ Ticking) ~>
        \/ runner \in {"svc0", "tmstop", "test"}
        \/ runner \in {"math", "readAlt", "badsvc"}
        \/ runner = "stray" \/ hung = "hardfault"

-----------------------------------------------------------------------------
(* What comments and documents say, which the code does not do.            *)

\* "we can force the algorithm to exit": aborting never hangs the processor.
AbortNeverHangs == hung # "patch"

\* "If previous request hasn't been handled, then we're going too slow. We'll
\* need to abort": while the runner works on a half, the DMA is not writing it.
InputIsStable ==
    adc = "ADC_ACTIVE" /\ runner \notin {"svc0", "wtmsg"} =>
        HalfOf(message) # half

\* What it takes for that to be true: an algorithm that is done before the next
\* half is full reads no half being written, and does not make the queue overrun.
DeadlineSuffices == Deadline => InputIsStable /\ Len(m_mailbox) <= 1

\* "If coming from the algorithm, attempt to recover".
HardFaultRecovers == hung # "hardfault"

=============================================================================
