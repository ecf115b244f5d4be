------------------------- MODULE PeripheralsProofs --------------------------
(***************************************************************************)
(* Proofs about Peripherals, for every buffer size, every set of sizes the *)
(* host asks for and every width of the clock's counter.                   *)
(***************************************************************************)
EXTENDS Peripherals, TLAPS

\* Until the firmware halts, the ADC and the output DAC are on exactly while
\* run_status is Running, and the buffers of a conversion have an even size.
DriversFollowStatus ==
    halted = "no" =>
        /\ adc = "ADC_ACTIVE" <=> run_status = "Running"
        /\ dac[0] = "DAC_ACTIVE" <=> run_status = "Running"
        /\ size % 2 = 0

\* Until the firmware halts the generator has samples to play.
GeneratorHasSamples == halted = "no" => generatorSize > 0

IInv ==
    /\ TypeOK
    /\ DriversFollowStatus
    /\ ClockPaysIdleStops
    /\ OnlyHostArgumentsHalt
    /\ GeneratorHasSamples
    /\ GeneratorNeverEmpty
    /\ ReportedRateRuns

\* The state main leaves satisfies IInv.
LEMMA InitIInv == Init => IInv
<1> SUFFICES ASSUME Init PROVE IInv
    OBVIOUS
<1>a. /\ MAX_SAMPLE_BUFFER_SIZE \in Nat /\ MaxIdleStops \in Nat
      /\ UINT_RANGE \in Nat /\ UINT_RANGE > 8 /\ "R32K" \in Rates
    BY UIntAssumption, PeripheralsAssumption
<1>1. TypeOK
  <2>1. ClockTypeOK
    BY <1>a DEF Init, ClockTypeOK, SClockBegin
  <2>2. size \in 0 .. MAX_SAMPLE_BUFFER_SIZE /\ idleStops \in 0 .. MaxIdleStops
        /\ generatorSize \in 0 .. MAX_SAMPLE_BUFFER_SIZE
    BY <1>a DEF Init
  <2>3. rate \in Rates /\ timerRate \in Rates /\ lateRate \in BOOLEAN
    BY <1>a DEF Init
  <2> QED
    BY <2>1, <2>2, <2>3 DEF Init, TypeOK
<1> USE UIntAssumption, PeripheralsAssumption
<1>2. DriversFollowStatus
    BY DEF Init, DriversFollowStatus
<1>3. ClockPaysIdleStops
    BY DEF Init, SClockBegin, ClockPaysIdleStops, Users, One, Ticking
<1>4. GeneratorHasSamples /\ GeneratorNeverEmpty
    BY DEF Init, GeneratorHasSamples, GeneratorNeverEmpty
<1>5. OnlyHostArgumentsHalt /\ ReportedRateRuns
    BY DEF Init, OnlyHostArgumentsHalt, ReportedRateRuns
<1> QED
    BY <1>1, <1>2, <1>3, <1>4, <1>5 DEF IInv

\* A step of the clock leaves the rates as ReportedRateRuns has them.
LEMMA RatesFollowClock ==
    ASSUME TypeOK, ReportedRateRuns, NEW c, ClockMoves(c)
    PROVE  /\ ReportedRateRuns'
           /\ rate' \in Rates /\ timerRate' \in Rates /\ lateRate' \in BOOLEAN
BY DEF TypeOK, ReportedRateRuns, ClockMoves, ClockBecomes, Ticking

\* The clock's count while nothing has halted, as an integer and as stored.
LEMMA CountRange ==
    ASSUME IInv, halted = "no"
    PROVE  /\ Users \in Int
           /\ Users > -(UINT_RANGE - 8) /\ Users <= 3
           /\ m_runcount = 0 <=> Users = 0
           /\ m_runcount = UINT_RANGE - 1 <=> Users = -1
           /\ m_runcount = 1 <=> Users = 1
BY UIntAssumption, PeripheralsAssumption
DEF IInv, TypeOK, ClockPaysIdleStops, Users, One

\* A depth the drivers refuse for being neither 1 nor even is odd.
LEMMA RefusedIsOdd ==
    ASSUME NEW n \in Nat PROVE ~OneOrEven(n) => n % 2 = 1
<1>1. n % 2 \in 0 .. 1
    OBVIOUS
<1> QED
    BY <1>1 DEF OneOrEven

\* A size in the range of the buffers is none or some.
LEMMA ZeroOrMore ==
    ASSUME NEW n \in 0 .. MAX_SAMPLE_BUFFER_SIZE PROVE n = 0 \/ n > 0
OBVIOUS

\* The type of the generator's size, for arithmetic on it.
LEMMA GeneratorSizeType == TypeOK => generatorSize \in Nat
<1>1. MAX_SAMPLE_BUFFER_SIZE \in Nat
    BY PeripheralsAssumption
<1>2. TypeOK => generatorSize \in 0 .. MAX_SAMPLE_BUFFER_SIZE
    BY DEF TypeOK
<1> QED
    BY <1>1, <1>2

\* Every command preserves IInv.
LEMMA Inductive == IInv /\ [Next]_vars => IInv'
<1> SUFFICES ASSUME IInv, [Next]_vars PROVE IInv'
    OBVIOUS
<1> USE UIntAssumption, PeripheralsAssumption
        DEF IInv, clockVars, sizeVars, rateVars
<1>1. ASSUME NEW n \in Sizes, setBufferSize(n) PROVE IInv'
  <2>1. n \in Nat /\ size' \in 0 .. MAX_SAMPLE_BUFFER_SIZE /\ size' % 2 = 0
    BY <1>1 DEF setBufferSize, setSize
  <2> QED
    BY <1>1, <2>1
    DEF setBufferSize, TypeOK, ClockTypeOK, DriversFollowStatus,
        ClockPaysIdleStops, OnlyHostArgumentsHalt, GeneratorHasSamples,
        GeneratorNeverEmpty, ReportedRateRuns, Users, Ticking
<1>2. ASSUME NEW n \in Sizes, updateGenerator(n) PROVE IInv'
  <2>1. n \in Nat /\ generatorSize' \in 0 .. MAX_SAMPLE_BUFFER_SIZE
    BY <1>2 DEF updateGenerator, setSize
  <2>2. \/ generatorSize' = 0 /\ halted' = "stream size"
        \/ generatorSize' > 0 /\ halted' = "no"
    <3>1. generatorSize' = 0 \/ generatorSize' > 0
      BY <2>1, ZeroOrMore
    <3>2. halted' = IF generatorSize' = 0 THEN "stream size" ELSE "no"
      BY <1>2 DEF updateGenerator, streamCheck
    <3> QED
      BY <2>1, <3>1, <3>2
  <2>3. halted = "no" /\ dac[1] # "DAC_ACTIVE"
        /\ UNCHANGED <<run_status, adc, dac, clockVars, size, rateVars, idleStops>>
    BY <1>2 DEF updateGenerator
  <2> QED
    BY <2>1, <2>2, <2>3
    DEF TypeOK, ClockTypeOK, DriversFollowStatus,
        ClockPaysIdleStops, OnlyHostArgumentsHalt, GeneratorHasSamples,
        GeneratorNeverEmpty, ReportedRateRuns, Users, Ticking
<1>3. CASE startConversion
  <2> DEFINE check == First(First(adcCheck(size), gptCheck(clock)),
                            First(dacCheck(0, size), gptCheck(started(clock))))
  <2>1. halted = "no" /\ run_status = "Idle" /\ run_status' = "Running"
    BY <1>3 DEF startConversion
  <2>2. check \in {"no", "adc depth"} /\ (check = "adc depth" => size = 0)
    <3>1. OneOrEven(size)
      BY <2>1 DEF DriversFollowStatus, OneOrEven
    <3>2. adcCheck(size) \in {"no", "adc depth"}
          /\ (adcCheck(size) = "adc depth" => size = 0)
      BY <2>1, <3>1 DEF adcCheck, TypeOK, DriversFollowStatus
    <3>3. dacCheck(0, size) = "no"
      BY <2>1, <3>1 DEF dacCheck, DriversFollowStatus
    <3>4. gptCheck(clock) = "no"
      BY <2>1, CountRange
      DEF gptCheck, clock, TypeOK, ClockTypeOK, ClockPaysIdleStops, Ticking
    <3>5. gptCheck(started(clock)) = "no"
      BY <2>1, CountRange
      DEF gptCheck, clock, started, Succ, TypeOK, ClockTypeOK, ClockPaysIdleStops,
          Ticking
    <3> QED
      BY <3>2, <3>3, <3>4, <3>5 DEF First
  <2> HIDE DEF check
  <2>3. CASE check # "no"
    <3>1. Halt(check)
      BY <1>3, <2>3 DEF startConversion, check
    <3> QED
      BY <2>1, <2>2, <2>3, <3>1
      DEF Halt, TypeOK, ClockTypeOK, DriversFollowStatus, ClockPaysIdleStops,
          OnlyHostArgumentsHalt, GeneratorHasSamples, GeneratorNeverEmpty,
          ReportedRateRuns, Ticking
  <2>4. CASE check = "no"
    <3>1. /\ adc' = "ADC_ACTIVE"
          /\ dac' = [dac EXCEPT ![0] = "DAC_ACTIVE"]
          /\ ClockMoves(started(started(clock)))
          /\ UNCHANGED <<sizeVars, halted, idleStops>>
      BY <1>3, <2>4 DEF startConversion, check
    <3>2. Users' = Users + 2
      BY <2>1, <3>1 DEF Users, One, TypeOK
    <3>3. ClockPaysIdleStops' /\ ClockTypeOK'
      BY <2>1, <3>1, <3>2, CountRange
      DEF ClockPaysIdleStops, ClockMoves, ClockBecomes, started, clock, Succ, Ticking,
          TypeOK, ClockTypeOK
    <3>4. /\ ReportedRateRuns'
          /\ rate' \in Rates /\ timerRate' \in Rates /\ lateRate' \in BOOLEAN
      BY <3>1, RatesFollowClock
    <3> QED
      BY <2>1, <3>1, <3>3, <3>4
      DEF TypeOK, DriversFollowStatus, OnlyHostArgumentsHalt,
          GeneratorHasSamples, GeneratorNeverEmpty
  <2> QED
    BY <2>3, <2>4
<1>4. CASE stopConversion
  <2>1. /\ halted = "no" /\ run_status = "Running" /\ run_status' = "Idle"
        /\ adc' = "ADC_READY" /\ dac' = [dac EXCEPT ![0] = "DAC_READY"]
        /\ ClockMoves(stopped(stopped(clock)))
        /\ UNCHANGED <<sizeVars, halted, idleStops>>
    BY <1>4 DEF stopConversion
  <2>2. Users' = Users - 2
    BY <2>1 DEF Users, One, TypeOK
  <2>3. ClockPaysIdleStops' /\ ClockTypeOK'
    BY <2>1, <2>2, CountRange
    DEF ClockPaysIdleStops, ClockMoves, ClockBecomes, stopped, clock, Pred, Ticking,
        TypeOK, ClockTypeOK
  <2>4. /\ ReportedRateRuns'
        /\ rate' \in Rates /\ timerRate' \in Rates /\ lateRate' \in BOOLEAN
    BY <2>1, RatesFollowClock
  <2> QED
    BY <2>1, <2>3, <2>4
    DEF TypeOK, DriversFollowStatus, OnlyHostArgumentsHalt, GeneratorHasSamples,
        GeneratorNeverEmpty
<1>5. CASE startGenerator
  <2> DEFINE check == First(dacCheck(1, generatorSize), gptCheck(clock))
  <2>1. halted = "no" /\ run_status' = run_status
    BY <1>5 DEF startGenerator
  <2>2. /\ check \in {"no", "dac depth", "dac state"}
        /\ check = "dac depth" => generatorSize % 2 = 1
        /\ check = "dac state" => dac[1] = "DAC_ACTIVE"
        /\ check = "no" => dac[1] = "DAC_READY"
    <3>1. ~OneOrEven(generatorSize) => generatorSize % 2 = 1
      <4>1. generatorSize \in Nat
        BY GeneratorSizeType
      <4> QED
        BY <4>1, RefusedIsOdd
    <3>2. /\ dacCheck(1, generatorSize) \in {"no", "dac depth", "dac state"}
          /\ dacCheck(1, generatorSize) = "dac depth" => generatorSize % 2 = 1
          /\ dacCheck(1, generatorSize) = "dac state" => dac[1] = "DAC_ACTIVE"
          /\ dacCheck(1, generatorSize) = "no" => dac[1] = "DAC_READY"
      BY <3>1 DEF dacCheck, TypeOK
    <3>3. gptCheck(clock) = "no"
      BY <2>1, CountRange
      DEF gptCheck, clock, TypeOK, ClockTypeOK, ClockPaysIdleStops, Ticking
    <3> QED
      BY <3>2, <3>3 DEF First
  <2> HIDE DEF check
  <2>3. CASE check # "no"
    <3>1. Halt(check)
      BY <1>5, <2>3 DEF startGenerator, check
    <3> QED
      BY <2>1, <2>2, <2>3, <3>1
      DEF Halt, TypeOK, ClockTypeOK, DriversFollowStatus, ClockPaysIdleStops,
          OnlyHostArgumentsHalt, GeneratorHasSamples, GeneratorNeverEmpty,
          ReportedRateRuns, Ticking
  <2>4. CASE check = "no"
    <3>1. /\ dac' = [dac EXCEPT ![1] = "DAC_ACTIVE"]
          /\ ClockMoves(started(clock))
          /\ UNCHANGED <<adc, sizeVars, halted, idleStops>>
      BY <1>5, <2>4 DEF startGenerator, check
    <3>2. Users' = Users + 1
      BY <2>1, <2>2, <2>4, <3>1 DEF Users, One, TypeOK
    <3>3. ClockPaysIdleStops' /\ ClockTypeOK'
      BY <2>1, <3>1, <3>2, CountRange
      DEF ClockPaysIdleStops, ClockMoves, ClockBecomes, started, clock, Succ,
          Ticking, TypeOK, ClockTypeOK
    <3>4. /\ ReportedRateRuns'
          /\ rate' \in Rates /\ timerRate' \in Rates /\ lateRate' \in BOOLEAN
      BY <3>1, RatesFollowClock
    <3> QED
      BY <2>1, <3>1, <3>3, <3>4
      DEF TypeOK, DriversFollowStatus, OnlyHostArgumentsHalt,
          GeneratorHasSamples, GeneratorNeverEmpty
  <2> QED
    BY <2>3, <2>4
<1>6. CASE stopGenerator
  <2>1. /\ halted = "no" /\ dac' = [dac EXCEPT ![1] = "DAC_READY"]
        /\ idleStops' = IF dac[1] = "DAC_READY" THEN idleStops + 1 ELSE idleStops
        /\ ClockMoves(stopped(clock)) /\ idleStops' \in 0 .. MaxIdleStops
        /\ UNCHANGED <<run_status, adc, sizeVars, halted>>
    BY <1>6 DEF stopGenerator, TypeOK
  <2>2. Users' = Users - 1
    BY <2>1 DEF Users, One, TypeOK
  <2>3. ClockPaysIdleStops' /\ ClockTypeOK'
    BY <2>1, <2>2, CountRange
    DEF ClockPaysIdleStops, ClockMoves, ClockBecomes, stopped, clock, Pred,
        Ticking, TypeOK, ClockTypeOK
  <2>4. /\ ReportedRateRuns'
        /\ rate' \in Rates /\ timerRate' \in Rates /\ lateRate' \in BOOLEAN
    BY <2>1, RatesFollowClock
  <2> QED
    BY <2>1, <2>3, <2>4
    DEF TypeOK, DriversFollowStatus, OnlyHostArgumentsHalt, GeneratorHasSamples,
        GeneratorNeverEmpty
<1>7. ASSUME NEW n \in Sizes, loadAlgorithm(n) PROVE IInv'
    BY <1>7
    DEF loadAlgorithm, Halt, TypeOK, ClockTypeOK, DriversFollowStatus,
        ClockPaysIdleStops, OnlyHostArgumentsHalt, GeneratorHasSamples,
        GeneratorNeverEmpty, ReportedRateRuns, Ticking
<1>8. ASSUME NEW r \in Rates, sampleRate(r) PROVE IInv'
    BY <1>8
    DEF sampleRate, TypeOK, ClockTypeOK, DriversFollowStatus, ClockPaysIdleStops,
        OnlyHostArgumentsHalt, GeneratorHasSamples, GeneratorNeverEmpty,
        ReportedRateRuns, Users, Ticking
<1>9. CASE moveBuffer
  <2>1. halted = "no" /\ run_status' = run_status /\ size = 0
        /\ Halt("stream size")
    BY <1>9 DEF moveBuffer, streamCheck
  <2> QED
    BY <2>1
    DEF Halt, TypeOK, ClockTypeOK, DriversFollowStatus, ClockPaysIdleStops,
        OnlyHostArgumentsHalt, GeneratorHasSamples, GeneratorNeverEmpty,
        ReportedRateRuns, Ticking
<1>10. CASE UNCHANGED vars
    BY <1>10
    DEF vars, TypeOK, ClockTypeOK, DriversFollowStatus, ClockPaysIdleStops,
        OnlyHostArgumentsHalt, GeneratorHasSamples, GeneratorNeverEmpty,
        ReportedRateRuns, Users, One, Ticking
<1> QED
    BY <1>1, <1>2, <1>3, <1>4, <1>5, <1>6, <1>7, <1>8, <1>9, <1>10 DEF Next

\* In every state the commands of a host can lead to, IInv holds.
THEOREM Invariance == Spec => []IInv
<1> QED
    BY InitIInv, Inductive, PTL DEF Spec

\* The clock runs exactly while the conversions that are on outnumber the
\* stops of an idle generator, whatever order the host sends its commands in.
THEOREM ClockPays == Spec => []ClockPaysIdleStops
<1>1. IInv => ClockPaysIdleStops
    BY DEF IInv
<1> QED
    BY <1>1, Invariance, PTL

\* No sequence of commands makes the ADC's, the output DAC's or the timer's
\* driver fail its state check.
THEOREM HaltsExplained == Spec => []OnlyHostArgumentsHalt
<1>1. IInv => OnlyHostArgumentsHalt
    BY DEF IInv
<1> QED
    BY <1>1, Invariance, PTL

\* Sizes, states and counts stay in range, for every buffer size.
THEOREM TypeCorrect == Spec => []TypeOK
<1>1. IInv => TypeOK
    BY DEF IInv
<1> QED
    BY <1>1, Invariance, PTL

\* No sequence of commands starts the generator's DMA on an empty buffer.
THEOREM GeneratorSafe == Spec => []GeneratorNeverEmpty
<1>1. IInv => GeneratorNeverEmpty
    BY DEF IInv
<1> QED
    BY <1>1, Invariance, PTL

\* A rate set while the clock was stopped is the rate the next conversion has.
THEOREM RateSafe == Spec => []ReportedRateRuns
<1>1. IInv => ReportedRateRuns
    BY DEF IInv
<1> QED
    BY <1>1, Invariance, PTL

=============================================================================
