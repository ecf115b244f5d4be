---------------------------- MODULE Peripherals -----------------------------
(***************************************************************************)
(* The ADC, the two DAC channels and the sampling clock they share, under  *)
(* the commands of a host that may send any command at any time.  Only the *)
(* communication thread starts and stops peripherals, so a command is one  *)
(* step here; Conversion.tla has the interleaving.  The drivers check their*)
(* arguments and their state; a check that fails halts the firmware.       *)
(***************************************************************************)
EXTENDS Integers, SClock

CONSTANTS
    MAX_SAMPLE_BUFFER_SIZE,
    Sizes,          \* the sizes the host asks for
    Rates,          \* what 'r' selects: SClock::Rate, and what lies past the
                    \* table, for the byte that selects is not checked
    MaxIdleStops    \* bound: stops of an idle generator in a behaviour

ASSUME PeripheralsAssumption ==
    /\ MAX_SAMPLE_BUFFER_SIZE \in Nat /\ MAX_SAMPLE_BUFFER_SIZE % 2 = 0
    /\ MAX_SAMPLE_BUFFER_SIZE > 0
    /\ Sizes \subseteq Nat
    /\ "R32K" \in Rates
    /\ MaxIdleStops \in Nat /\ MaxIdleStops + 8 < UINT_RANGE

VARIABLES
    run_status,
    adc, dac,       \* driver states
    size,           \* m_size of Samples::In and Samples::Out
    generatorSize,  \* m_size of Samples::Generator
    rate,           \* the rate last set: m_div, and the ADC's PLL
    timerRate,      \* the rate the timer was last started with
    lateRate,       \* a rate was set since then, with the timer running
    halted,         \* the driver check that failed, or "no"
    idleStops       \* how often the host stopped an idle generator

sizeVars == <<size, generatorSize>>
rateVars == <<rate, timerRate, lateRate>>
vars == <<run_status, adc, dac, m_runcount, timer, size, generatorSize,
          rate, timerRate, lateRate, halted, idleStops>>

\* setSize clips; the buffers start at their full size.
setSize(n) == IF n < MAX_SAMPLE_BUFFER_SIZE THEN n ELSE MAX_SAMPLE_BUFFER_SIZE

Init ==
    /\ run_status = "Idle"
    /\ adc = "ADC_READY"
    /\ dac = [channel \in {0, 1} |-> "DAC_READY"]
    /\ SClockBegin
    /\ size = MAX_SAMPLE_BUFFER_SIZE
    /\ generatorSize = MAX_SAMPLE_BUFFER_SIZE
    /\ rate = "R32K"
    /\ timerRate = "R32K"
    /\ lateRate = FALSE
    /\ halted = "no"
    /\ idleStops = 0

-----------------------------------------------------------------------------
(* The drivers' checks: the name of the one that fails, or "no".           *)

OneOrEven(depth) == depth = 1 \/ depth % 2 = 0

adcCheck(depth) ==
    IF depth = 0 \/ ~OneOrEven(depth) THEN "adc depth"
    ELSE IF adc # "ADC_READY" THEN "adc state"
    ELSE "no"

dacCheck(channel, depth) ==
    IF ~OneOrEven(depth) THEN "dac depth"
    ELSE IF dac[channel] = "DAC_ACTIVE" THEN "dac state"
    ELSE "no"

\* gptStartContinuous, called by SClock::start only from a count of 0.
gptCheck(c) ==
    IF c.count = 0 /\ c.timer # "GPT_READY" THEN "gpt state" ELSE "no"

\* ibqReadTimeout and obqWriteTimeout: a transfer of no bytes.
streamCheck(n) == IF n = 0 THEN "stream size" ELSE "no"

\* The first of two checks to fail.
First(check1, check2) == IF check1 # "no" THEN check1 ELSE check2

\* chSysHalt: what had been started before the check failed no longer counts.
Halt(check) ==
    /\ halted' = check
    /\ UNCHANGED <<adc, dac, clockVars, sizeVars, rateVars, idleStops>>

\* Mutant: the timer is started with the divisor it had.
ClockMoves_oldRate(c) ==
    /\ ClockBecomes(c)
    /\ lateRate' = (lateRate /\ Ticking)
    /\ UNCHANGED <<rate, timerRate>>

\* The clock becomes c; a timer that starts takes the divisor set last.
ClockMoves(c) ==
    /\ ClockBecomes(c)
    /\ IF Ticking \/ c.timer = "GPT_READY"
         THEN UNCHANGED <<timerRate, lateRate>>
         ELSE timerRate' = rate /\ lateRate' = FALSE
    /\ UNCHANGED rate

-----------------------------------------------------------------------------
(* The commands.                                                           *)

\* 'B': the size of one half; refused unless Idle and in range.
setBufferSize(n) ==
    /\ halted = "no"
    /\ run_status = "Idle"
    /\ n * 2 <= MAX_SAMPLE_BUFFER_SIZE
    /\ size' = setSize(n * 2)
    /\ UNCHANGED <<run_status, adc, dac, clockVars, generatorSize, rateVars,
                   halted, idleStops>>

\* Mutant: the stream takes a transfer of no bytes.
updateGenerator_unchecked(n) ==
    /\ halted = "no"
    /\ n <= MAX_SAMPLE_BUFFER_SIZE
    /\ dac[1] # "DAC_ACTIVE"
    /\ generatorSize' = setSize(n)
    /\ UNCHANGED <<run_status, adc, dac, clockVars, size, rateVars, halted,
                   idleStops>>

\* 'D' while the generator is off: the size, then a read of that many samples.
\* While it is on the size is ignored; Streams.tla has that case.
updateGenerator(n) ==
    /\ halted = "no"
    /\ n <= MAX_SAMPLE_BUFFER_SIZE
    /\ dac[1] # "DAC_ACTIVE"
    /\ generatorSize' = setSize(n)
    /\ halted' = streamCheck(generatorSize')
    /\ UNCHANGED <<run_status, adc, dac, clockVars, size, rateVars, idleStops>>

\* 'A', 'a' and 'd' move the whole of a sample buffer over the stream; it is
\* only with an empty one that they change anything here.
moveBuffer ==
    /\ halted = "no"
    /\ streamCheck(size) # "no"
    /\ Halt(streamCheck(size))
    /\ UNCHANGED run_status

\* 'E': a file of n bytes is read before it is loaded.
loadAlgorithm(n) ==
    /\ halted = "no"
    /\ run_status = "Idle"
    /\ streamCheck(n) # "no"
    /\ Halt("file size")
    /\ UNCHANGED run_status

\* 'r' with a rate: SClock::setRate and ADC::setRate, in any state.
sampleRate(r) ==
    /\ halted = "no"
    /\ rate' = r
    /\ lateRate' = (lateRate \/ Ticking)
    /\ UNCHANGED <<run_status, adc, dac, clockVars, sizeVars, timerRate, halted,
                   idleStops>>

\* Mutants: a second 'R' is not refused; DAC::start leaves the clock to the ADC.
startConversion_always ==
    /\ halted = "no"
    /\ run_status' = "Running"
    /\ IF adcCheck(size) # "no"
         THEN Halt(adcCheck(size))
         ELSE /\ adc' = "ADC_ACTIVE"
              /\ dac' = [dac EXCEPT ![0] = "DAC_ACTIVE"]
              /\ ClockMoves(started(started(clock)))
              /\ UNCHANGED <<sizeVars, halted, idleStops>>
startConversion_oneStart ==
    /\ halted = "no"
    /\ run_status = "Idle"
    /\ run_status' = "Running"
    /\ IF adcCheck(size) # "no"
         THEN Halt(adcCheck(size))
         ELSE /\ adc' = "ADC_ACTIVE"
              /\ dac' = [dac EXCEPT ![0] = "DAC_ACTIVE"]
              /\ ClockMoves(started(clock))
              /\ UNCHANGED <<sizeVars, halted, idleStops>>

\* 'R': ADC::start and DAC::start(0), each of which starts the clock.
startConversion ==
    /\ halted = "no"
    /\ run_status = "Idle"
    /\ run_status' = "Running"
    /\ LET check == First(First(adcCheck(size), gptCheck(clock)),
                          First(dacCheck(0, size), gptCheck(started(clock))))
       IN  IF check # "no"
             THEN Halt(check)
             ELSE /\ adc' = "ADC_ACTIVE"
                  /\ dac' = [dac EXCEPT ![0] = "DAC_ACTIVE"]
                  /\ ClockMoves(started(started(clock)))
                  /\ UNCHANGED <<sizeVars, halted, idleStops>>

\* 'S': DAC::stop(0) and ADC::stop.
stopConversion ==
    /\ halted = "no"
    /\ run_status = "Running"
    /\ run_status' = "Idle"
    /\ adc' = "ADC_READY"
    /\ dac' = [dac EXCEPT ![0] = "DAC_READY"]
    /\ ClockMoves(stopped(stopped(clock)))
    /\ UNCHANGED <<sizeVars, halted, idleStops>>

\* 'W': DAC::start(1), with no test of what the generator is doing.
startGenerator ==
    /\ halted = "no"
    /\ LET check == First(dacCheck(1, generatorSize), gptCheck(clock))
       IN  IF check # "no"
             THEN Halt(check)
             ELSE /\ dac' = [dac EXCEPT ![1] = "DAC_ACTIVE"]
                  /\ ClockMoves(started(clock))
                  /\ UNCHANGED <<adc, sizeVars, halted, idleStops>>
    /\ UNCHANGED run_status

\* 'w': DAC::stop(1).  dacStopConversion does nothing to an idle channel;
\* SClock::stop is called all the same.
stopGenerator ==
    /\ halted = "no"
    /\ dac[1] = "DAC_READY" => idleStops < MaxIdleStops
    /\ idleStops' = IF dac[1] = "DAC_READY" THEN idleStops + 1 ELSE idleStops
    /\ dac' = [dac EXCEPT ![1] = "DAC_READY"]
    /\ ClockMoves(stopped(clock))
    /\ UNCHANGED <<run_status, adc, sizeVars, halted>>

Next ==
    \/ \E n \in Sizes : setBufferSize(n) \/ updateGenerator(n) \/ loadAlgorithm(n)
    \/ \E r \in Rates : sampleRate(r)
    \/ moveBuffer
    \/ startConversion \/ stopConversion \/ startGenerator \/ stopGenerator

Spec == Init /\ [][Next]_vars

-----------------------------------------------------------------------------
\* Types; the sizes stay within the sample buffers.
TypeOK ==
    /\ run_status \in {"Idle", "Running"}
    /\ adc \in {"ADC_READY", "ADC_ACTIVE"}
    /\ dac \in [{0, 1} -> {"DAC_READY", "DAC_ACTIVE"}]
    /\ ClockTypeOK
    /\ size \in 0 .. MAX_SAMPLE_BUFFER_SIZE
    /\ generatorSize \in 0 .. MAX_SAMPLE_BUFFER_SIZE
    /\ rate \in Rates /\ timerRate \in Rates /\ lateRate \in BOOLEAN
    /\ halted \in {"no", "adc depth", "adc state", "dac depth", "dac state",
                   "gpt state", "stream size", "file size"}
    /\ idleStops \in 0 .. MaxIdleStops

\* Callers of SClock::start that have not called stop, less the stops nobody
\* owed.
One(b) == IF b THEN 1 ELSE 0
Users == 2 * One(run_status = "Running") + One(dac[1] = "DAC_ACTIVE") - idleStops

\* Every stop of an idle generator is a debt the next users pay: the clock
\* runs exactly while the conversions on outnumber them, and m_runcount is the
\* difference in unsigned arithmetic.  With no such stop a conversion that is
\* on always has its clock.
ClockPaysIdleStops ==
    halted = "no" =>
        /\ Ticking <=> Users > 0
        /\ m_runcount = IF Users >= 0 THEN Users ELSE UINT_RANGE + Users

\* Whatever the host sends, it never drives the ADC, the output DAC or the
\* clock into a state its driver refuses; only the sizes it set and a second
\* start of the generator can halt the firmware.
OnlyHostArgumentsHalt ==
    /\ halted \notin {"adc state", "gpt state"}
    /\ halted = "dac state" => dac[1] = "DAC_ACTIVE"
    /\ halted = "adc depth" => size = 0
    /\ halted = "dac depth" => generatorSize % 2 = 1
    /\ halted = "stream size" => size = 0 \/ generatorSize = 0

\* dacStartConversion does not refuse an empty buffer, and nothing tests the
\* generator's size before 'W': it is the halt of the empty 'D' that keeps the
\* DMA from being started on no samples.
GeneratorNeverEmpty == dac[1] = "DAC_ACTIVE" => generatorSize > 0

\* The rate getRate answers is the one the running timer has, unless it was
\* set while the timer ran: a conversion that finds the clock kept running by
\* the generator samples at the generator's old rate.
ReportedRateRuns == Ticking /\ rate # timerRate => lateRate

=============================================================================
