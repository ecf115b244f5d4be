-------------------------- MODULE RefinementProofs --------------------------
(***************************************************************************)
(* Conversion implements Pipeline, for every algorithm behaviour, every    *)
(* size of the error stack and every width of the clock's counter.         *)
(***************************************************************************)
EXTENDS ConversionProofs

-----------------------------------------------------------------------------
(* A sequence and the element in front of it.                              *)

\* What a sequence with an element put in front of it is made of.
LEMMA Cons ==
    ASSUME NEW S, NEW s \in S, NEW q \in Seq(S)
    PROVE  /\ <<s>> \o q \in Seq(S)
           /\ Len(<<s>> \o q) = Len(q) + 1
           /\ <<s>> \o q # <<>>
           /\ Head(<<s>> \o q) = s
           /\ Tail(<<s>> \o q) = q
           /\ SubSeq(<<s>> \o q, 1, 1) = <<s>>
<1> DEFINE c == <<s>> \o q
<1>1. <<s>> \in Seq(S) /\ Len(<<s>>) = 1 /\ <<s>>[1] = s
    OBVIOUS
<1>2. Len(q) \in Nat
    OBVIOUS
<1>3. c \in Seq(S) /\ Len(c) = Len(q) + 1
    BY <1>1, <1>2, ConcatProperties
<1>4. c[1] = s /\ \A i \in 1 .. Len(q) : c[i + 1] = q[i]
    BY <1>1, <1>2, ConcatProperties
<1> HIDE DEF c
<1>5. c # <<>>
    BY <1>2, <1>3, EmptySeq
<1>6. Head(c) = s
    BY <1>3, <1>4, <1>5
<1>7. Tail(c) = q
  <2>1. Tail(c) \in Seq(S) /\ Len(Tail(c)) = Len(q)
    BY <1>2, <1>3, <1>5, HeadTailProperties
  <2>2. \A i \in 1 .. Len(Tail(c)) : Tail(c)[i] = c[i + 1]
    BY <1>3, <1>5, HeadTailProperties
  <2>3. \A i \in 1 .. Len(Tail(c)) : Tail(c)[i] = q[i]
    BY <1>4, <2>1, <2>2
  <2> QED
    BY <2>1, <2>3, SeqEqual
<1>8. SubSeq(c, 1, 1) = <<s>>
  <2>1. SubSeq(<<s>> \o q, 1, 1) = SubSeq(<<s>>, 1, 1)
    BY <1>1, SubSeqOfConcat1
  <2>2. SubSeq(<<s>>, 1, Len(<<s>>)) = <<s>>
    BY <1>1, SubSeqFull
  <2> QED
    BY <1>1, <2>1, <2>2 DEF c
<1> QED
    BY <1>3, <1>5, <1>6, <1>7, <1>8 DEF c

\* A sequence is its head in front of its tail.
LEMMA HeadThenTail ==
    ASSUME NEW S, NEW q \in Seq(S), q # <<>>
    PROVE  <<Head(q)>> \o Tail(q) = q
<1>1. /\ Head(q) \in S /\ Tail(q) \in Seq(S) /\ Len(Tail(q)) = Len(q) - 1
      /\ Len(q) \in Nat /\ Len(q) > 0
    BY HeadTailProperties, EmptySeq
<1>2. \A i \in 1 .. Len(Tail(q)) : Tail(q)[i] = q[i + 1]
    BY HeadTailProperties
<1> DEFINE h == Head(q)
           t == Tail(q)
<1>3. h = q[1]
    OBVIOUS
<1> HIDE DEF h, t
<1>4. <<h>> \in Seq(S) /\ Len(<<h>>) = 1 /\ <<h>>[1] = h
    BY <1>1 DEF h
<1>5. /\ <<h>> \o t \in Seq(S) /\ Len(<<h>> \o t) = 1 + Len(t)
      /\ \A i \in 1 .. 1 + Len(t) : (<<h>> \o t)[i] = IF i <= 1 THEN <<h>>[i] ELSE t[i - 1]
    BY <1>1, <1>4, ConcatProperties DEF t
<1>6. Len(t) = Len(q) - 1 /\ \A i \in 1 .. Len(t) : t[i] = q[i + 1]
    BY <1>1, <1>2 DEF t
<1>7. Len(<<h>> \o t) = Len(q)
  <2>1. \A n \in Nat : 1 + (n - 1) = n
    OBVIOUS
  <2> QED
    BY <1>1, <1>5, <1>6, <2>1, Zenon
<1>8. \A i \in 1 .. Len(q) : (<<h>> \o t)[i] = q[i]
    BY <1>1, <1>3, <1>4, <1>5, <1>6
<1> QED
    BY <1>5, <1>7, <1>8, SeqEqual DEF h, t

\* Appending and putting in front commute.
LEMMA ConsAppend ==
    ASSUME NEW S, NEW s \in S, NEW q \in Seq(S), NEW e \in S
    PROVE  <<s>> \o Append(q, e) = Append(<<s>> \o q, e)
<1>1. <<s>> \in Seq(S) /\ <<e>> \in Seq(S)
    OBVIOUS
<1>2. Append(q, e) = q \o <<e>>
    BY AppendIsConcat
<1>3. <<s>> \o q \in Seq(S)
    BY Cons
<1>4. Append(<<s>> \o q, e) = (<<s>> \o q) \o <<e>>
    BY <1>3, AppendIsConcat
<1> QED
    BY <1>1, <1>2, <1>4, ConcatAssociative

-----------------------------------------------------------------------------
(* Steps.                                                                  *)

\* A step that leaves the mapped state alone is a stutter of Pipeline.
LEMMA Stutter ==
    ASSUME UNCHANGED <<half, m_entry>>, pending' = pending, working' = working
    PROVE  [P!Next]_(P!vars)
BY DEF P!vars

\* Unloading the algorithm, at any time.
LEMMA UnloadRefines ==
    ASSUME UNCHANGED half, m_entry' = "null", pending' = pending, working' = working
    PROVE  P!Load
<1>1. (m_entry' # "null") = FALSE
    OBVIOUS
<1> QED
    BY <1>1, Zenon DEF P!Load

\* Where the runner goes is a stutter, unless it comes to its start.
LEMMA RunnerGoesRefines ==
    ASSUME IInv, NEW from, NEW to, RunnerGoes(from, to),
           from \notin {"svc0", "wtmsg"}, to \notin {"svc0", "wtmsg"}
    PROVE  [P!Next]_(P!vars)
<1>1. UNCHANGED <<half, m_entry>> /\ pending' = pending
    BY DEF RunnerGoes, driverVars, algoVars, pending
<1>2. working' = working
    BY DEF RunnerGoes, working
<1> QED
    BY <1>1, <1>2, Stutter

\* The runner's own steps: storing the result ends the work.
LEMMA RunnerRefines == IInv /\ RunnerFirmware => [P!Next]_(P!vars)
<1> SUFFICES ASSUME IInv, RunnerFirmware PROVE [P!Next]_(P!vars)
    OBVIOUS
<1>1. CASE RunnerSvc0
  <2>1. monitor = "fetch"
    BY <1>1, BusyRunner DEF RunnerSvc0
  <2>2. UNCHANGED <<half, m_entry>> /\ pending' = pending /\ working' = working
    BY <1>1, <2>1 DEF RunnerSvc0, driverVars, algoVars, pending, working
  <2> QED
    BY <2>2, Stutter
<1>2. CASE RunnerPick
    BY <1>2, RunnerGoesRefines DEF RunnerPick
<1>3. CASE RunnerStartTimer
    BY <1>3, RunnerGoesRefines DEF RunnerStartTimer
<1>4. CASE RunnerStopTimer
    BY <1>4, RunnerGoesRefines DEF RunnerStopTimer
<1>5. CASE RunnerTest
    BY <1>5, RunnerGoesRefines DEF RunnerTest
<1>6. CASE RunnerStore
  <2>1. UNCHANGED <<half, m_entry>> /\ pending' = pending
    BY <1>6 DEF RunnerStore, RunnerGoes, driverVars, algoVars, pending
  <2>2. working = message /\ working' = 0 /\ message \in 1 .. 4
    BY <1>6 DEF RunnerStore, RunnerGoes, working, IInv, TypeOK, Msg
  <2>3. P!End
    BY <2>1, <2>2 DEF P!End
  <2> QED
    BY <2>3 DEF P!Next
<1> QED
    BY <1>1, <1>2, <1>3, <1>4, <1>5, <1>6 DEF RunnerFirmware

\* The algorithm's steps: a MemManage fault ends the work or, when the algorithm
\* is astray or it is the runner's own read that faults, only unloads it.
LEMMA AlgorithmRefines == IInv /\ Algorithm => [P!Next]_(P!vars)
<1> SUFFICES ASSUME IInv, Algorithm PROVE [P!Next]_(P!vars)
    OBVIOUS
<1>1. CASE AlgoReturn
    BY <1>1, RunnerGoesRefines DEF AlgoReturn
<1>2. CASE AlgoSyscall
    BY <1>2, RunnerGoesRefines DEF AlgoSyscall
<1>3. CASE SyscallReturn
    BY <1>3, RunnerGoesRefines DEF SyscallReturn
<1>4. CASE MemManage_Handler
  <2>1. UNCHANGED half /\ pending' = pending /\ message \in 1 .. 4 /\ m_entry' = "null"
    BY <1>4 DEF MemManage_Handler, driverVars, pending, IInv, TypeOK, Msg, abort
  <2>2. CASE runner = "algo"
    <3>1. working = message /\ working' = 0 /\ message # 0
      BY <1>4, <2>1, <2>2 DEF MemManage_Handler, abort, working, InConvcode
    <3>a. (m_entry' # "null") = FALSE
      BY <2>1
    <3>2. P!End
      BY <2>1, <3>1, <3>a, Zenon DEF P!End
    <3> QED
      BY <3>2 DEF P!Next
  <2>3. CASE runner \in {"stray", "test", "store"}
    <3>1. working' = working
      BY <1>4, <2>3 DEF MemManage_Handler, abort, working
    <3>2. P!Load
      BY <2>1, <3>1, UnloadRefines
    <3> QED
      BY <3>2 DEF P!Next
  <2> QED
    BY <1>4, <2>2, <2>3 DEF MemManage_Handler
<1>5. CASE HardFault_Handler
  <2>1. run_status = "Running"
    BY <1>5, BusyRunner DEF HardFault_Handler, IInv, Phase
  <2>2. UNCHANGED <<half, m_entry>> /\ pending' = pending /\ working' = working
    BY <1>5, <2>1 DEF HardFault_Handler, driverVars, pipeVars, pending, working
  <2> QED
    BY <2>2, Stutter
<1>6. CASE AlgoStrays
    BY <1>6, RunnerGoesRefines DEF AlgoStrays
<1> QED
    BY <1>1, <1>2, <1>3, <1>4, <1>5, <1>6 DEF Algorithm

\* The monitor: fetching changes nothing, since what it holds is pending
\* still; sending begins the oldest request.
LEMMA MonitorRefines == IInv /\ Monitor => [P!Next]_(P!vars)
<1> SUFFICES ASSUME IInv, Monitor PROVE [P!Next]_(P!vars)
    OBVIOUS
<1>0. m_mailbox \in Seq(Msg) /\ sending \in Msg
    BY DEF IInv, TypeOK
<1>1. CASE MonitorFetch
  <2>1. UNCHANGED <<half, m_entry>> /\ working' = working
    BY <1>1 DEF MonitorFetch, driverVars, algoVars, working
  <2>2. pending' = pending
    <3>1. CASE m_mailbox = <<>>
      BY <1>1, <3>1 DEF MonitorFetch, pending
    <3>2. CASE m_mailbox # <<>>
      <4>1. pending' = <<Head(m_mailbox)>> \o Tail(m_mailbox) /\ pending = m_mailbox
        BY <1>1, <3>2 DEF MonitorFetch, pending
      <4> QED
        BY <1>0, <3>2, <4>1, HeadThenTail
    <3> QED
      BY <3>1, <3>2
  <2> QED
    BY <2>1, <2>2, Stutter
<1>2. CASE MonitorSend
  <2>1. runner = "wtmsg" /\ monitor = "send"
    BY <1>2, MonitorRunsAlone DEF MonitorSend
  <2>2. UNCHANGED <<half, m_entry>>
    BY <1>2 DEF MonitorSend, driverVars, algoVars
  <2>3. working = 0 /\ working' = sending
    BY <1>2, <2>1 DEF MonitorSend, working
  <2>4. pending = <<sending>> \o m_mailbox /\ pending' = m_mailbox
    BY <1>2, <2>1 DEF MonitorSend, pending
  <2>5. pending # <<>> /\ Head(pending) = sending /\ Tail(pending) = m_mailbox
    BY <1>0, <2>4, Cons
  <2>6. P!Begin
    BY <2>2, <2>3, <2>4, <2>5 DEF P!Begin
  <2> QED
    BY <2>6 DEF P!Next
<1> QED
    BY <1>1, <1>2 DEF Monitor

\* The communication thread runs only when nothing is pending or under way:
\* it restarts the conversion, loads and unloads the algorithm, or stutters.
LEMMA CommRefines == IInv /\ (Command \/ CommContinues) => [P!Next]_(P!vars)
<1> SUFFICES ASSUME IInv, Command \/ CommContinues PROVE [P!Next]_(P!vars)
    OBVIOUS
<1>0. ASSUME NEW from, NEW to, CommGoes(from, to)
      PROVE  /\ pending = <<>> /\ working = 0
             /\ pending' = pending /\ working' = working
  <2>1. Quiet /\ UNCHANGED pipeVars
    BY <1>0, CommKeepsPipeline
  <2> QED
    BY <2>1 DEF Quiet, pipeVars, pending, working
<1>1. ASSUME NEW from, NEW to, CommGoes(from, to), UNCHANGED <<half, m_entry>>
      PROVE  [P!Next]_(P!vars)
    BY <1>0, <1>1, Stutter
<1>2. ASSUME NEW from, NEW to, CommGoes(from, to), UNCHANGED half
      PROVE  P!Load
  <2>1. pending = <<>> /\ working = 0 /\ pending' = pending /\ working' = working
    BY <1>0, <1>2
  <2>2. (pending = <<>> /\ working = 0) = TRUE
    BY <2>1
  <2>3. (m_entry' # "null") \in {FALSE, TRUE}
    OBVIOUS
  <2> QED
    BY <1>2, <2>1, <2>2, <2>3, Zenon DEF P!Load
<1>3. CASE startADC
  <2>1. pending = <<>> /\ working = 0 /\ pending' = pending /\ working' = working
    BY <1>0, <1>3 DEF startADC
  <2>2. half' \in Half /\ UNCHANGED m_entry
    BY <1>3 DEF startADC, algoVars, Half
  <2>3. P!Restart
    BY <2>1, <2>2 DEF P!Restart
  <2> QED
    BY <2>3 DEF P!Next
<1>4. CASE loadBegin \/ loadEnd \/ unloadAlgorithm
  <2>1. P!Load
    BY <1>2, <1>4 DEF loadBegin, loadEnd, unloadAlgorithm, driverVars
  <2> QED
    BY <2>1 DEF P!Next
<1> USE <1>1 DEF driverVars, algoVars
<1>5. CASE Command /\ ~unloadAlgorithm
    BY <1>5
    DEF Command, startConversion, stopConversion, measureConversion,
        loadAlgorithm, readStatus, startGenerator, stopGenerator
<1>6. CASE CommContinues /\ ~(startADC \/ loadBegin \/ loadEnd)
    BY <1>6
    DEF CommContinues, startADCClock, startDAC, startDACClock, stopDAC,
        stopDACClock, stopADCClock, stopADC, clearOperation, setIdle,
        readAlgorithm, startGeneratorClock, stopGeneratorClock
<1> QED
    BY <1>3, <1>4, <1>5, <1>6

\* Posting the message of the half just filled accepts a request.
LEMMA PostRefines ==
    ASSUME IInv, half' = Other(half), Len(m_mailbox) <= 1,
           NEW msg \in Msg, HalfOf(msg) = half, chMBPostI(msg),
           UNCHANGED <<m_entry, runner, sending, message>>
    PROVE  P!Accept
<1>1. m_mailbox \in Seq(Msg) /\ sending \in Msg /\ Len(m_mailbox) \in Nat
    BY DEF IInv, TypeOK
<1>2. /\ m_mailbox' = Append(m_mailbox, msg)
      /\ monitor' = IF monitor = "wtmb" THEN "fetch" ELSE monitor
    BY <1>1 DEF chMBPostI
<1>3. working' = working
    BY DEF working
<1>4. pending' = Append(pending, msg) /\ Len(pending) <= 2
  <2>1. CASE monitor = "send"
    <3>1. pending = <<sending>> \o m_mailbox
      BY <2>1 DEF pending
    <3>2. pending' = <<sending>> \o Append(m_mailbox, msg)
      BY <1>2, <2>1 DEF pending
    <3>3. Len(pending) = Len(m_mailbox) + 1
      BY <1>1, <3>1, Cons
    <3>4. pending' = Append(pending, msg)
      BY <1>1, <3>1, <3>2, ConsAppend
    <3>5. Len(pending) <= 2
      BY <1>1, <3>3
    <3> QED
      BY <3>4, <3>5
  <2>2. CASE monitor # "send"
    <3>1. monitor # "sndq"
      BY DEF IInv, Handover
    <3>2. pending = m_mailbox /\ pending' = Append(m_mailbox, msg)
      BY <1>2, <2>2, <3>1 DEF pending
    <3> QED
      BY <1>1, <3>2
  <2> QED
    BY <2>1, <2>2
<1>5. Len(pending) < 3
  <2>1. Len(pending) \in Nat
    <3>1. pending \in Seq(Msg)
      BY <1>1, Cons DEF pending
    <3> QED
      BY <3>1
  <2> QED
    BY <1>4, <2>1
<1> QED
    BY <1>3, <1>4, <1>5 DEF P!Accept, P!Room

\* An overrun empties the queue and aborts; a request the monitor holds
\* stays pending.
LEMMA OverrunRefines ==
    ASSUME IInv, half' = Other(half), Len(m_mailbox) > 1, chMBReset,
           abort(FALSE), UNCHANGED <<sending, message>>
    PROVE  P!Overrun
<1>1. m_mailbox \in Seq(Msg) /\ sending \in Msg /\ Len(m_mailbox) \in Nat
    BY DEF IInv, TypeOK
<1>2. /\ m_mailbox' = <<>>
      /\ monitor' = IF monitor = "wtmb" THEN "fetch" ELSE monitor
    BY DEF chMBReset
<1>3. m_entry' = "null" /\ working' \in {working, 0}
    BY DEF abort, working
<1>4. (m_entry' # "null") = FALSE
    BY <1>3
<1>5. monitor # "sndq"
    BY DEF IInv, Handover
<1>6. Len(pending) > 1 /\ pending' \in {<<>>, SubSeq(pending, 1, 1)}
  <2>1. CASE monitor = "send"
    <3>1. pending = <<sending>> \o m_mailbox
      BY <2>1 DEF pending
    <3>2. pending' = <<sending>> \o <<>>
      BY <1>2, <2>1 DEF pending
    <3>3. <<sending>> \o <<>> = <<sending>>
      <4>1. <<sending>> \in Seq(Msg)
        BY <1>1
      <4> QED
        BY <4>1, ConcatEmptySeq
    <3>4. Len(pending) = Len(m_mailbox) + 1 /\ SubSeq(pending, 1, 1) = <<sending>>
      BY <1>1, <3>1, Cons
    <3>5. Len(pending) > 1
      BY <1>1, <3>4
    <3> QED
      BY <3>2, <3>3, <3>4, <3>5, Zenon
  <2>2. CASE monitor # "send"
    <3>1. pending = m_mailbox /\ pending' = <<>>
      BY <1>2, <1>5, <2>2 DEF pending
    <3> QED
      BY <3>1
  <2> QED
    BY <2>1, <2>2
<1> QED
    BY <1>3, <1>4, <1>6, Zenon DEF P!Overrun

\* The ADC interrupt accepts a request or is an overrun.
LEMMA InterruptRefines == IInv /\ AdcInterrupt => [P!Next]_(P!vars)
<1> SUFFICES ASSUME IInv, AdcInterrupt PROVE [P!Next]_(P!vars)
    OBVIOUS
<1>1. half' = Other(half) /\ UNCHANGED <<sending, message>> /\ half \in Half
    BY DEF AdcInterrupt, IInv, TypeOK
<1>2. \A h \in Half :
         /\ HalfOf(IF h = "first" THEN MSG_CONVFIRST ELSE MSG_CONVSECOND) = h
         /\ HalfOf(IF h = "first" THEN MSG_CONVFIRST_MEASURE
                                  ELSE MSG_CONVSECOND_MEASURE) = h
         /\ (IF h = "first" THEN MSG_CONVFIRST ELSE MSG_CONVSECOND) \in Msg
         /\ (IF h = "first" THEN MSG_CONVFIRST_MEASURE
                            ELSE MSG_CONVSECOND_MEASURE) \in Msg
    BY DEF Half, HalfOf, MSG_FOR_FIRST, MSG_CONVFIRST, MSG_CONVSECOND,
           MSG_CONVFIRST_MEASURE, MSG_CONVSECOND_MEASURE, Msg
<1>3. CASE m_operation = "adcReadHandler" /\ adcReadHandler(half)
  <2>1. CASE chMBReset /\ abort(FALSE) /\ Len(m_mailbox) > 1
    BY <1>1, <2>1, OverrunRefines DEF P!Next
  <2>2. CASE /\ Len(m_mailbox) <= 1 /\ UNCHANGED <<m_entry, em, hung, runner>>
             /\ chMBPostI(IF half = "first" THEN MSG_CONVFIRST ELSE MSG_CONVSECOND)
    BY <1>1, <1>2, <2>2, PostRefines DEF P!Next
  <2> QED
    BY <1>3, <2>1, <2>2, Zenon DEF adcReadHandler
<1>4. CASE m_operation = "adcReadHandlerMeasure" /\ adcReadHandlerMeasure(half)
  <2>1. Len(m_mailbox) <= 1
    BY <1>4, EmptySeq DEF IInv, MeasureMeetsQuietPipeline, Quiet
  <2> QED
    BY <1>1, <1>2, <1>4, <2>1, PostRefines DEF P!Next, adcReadHandlerMeasure
<1> QED
    BY <1>3, <1>4 DEF AdcInterrupt

-----------------------------------------------------------------------------
(* The theorem.                                                            *)

\* The initial state of the firmware is an initial state of Pipeline.
LEMMA InitRefines == Init => P!Init
<1> SUFFICES ASSUME Init PROVE P!Init
    OBVIOUS
<1>1. half \in Half /\ pending = <<>> /\ working = 0
    BY DEF Init, Half, pending, working
<1>2. (m_entry # "null") = FALSE
    BY DEF Init
<1> QED
    BY <1>1, <1>2, Zenon DEF P!Init

\* Every step of the firmware is a step or a stutter of Pipeline.
LEMMA StepRefines == IInv /\ [Next]_vars => [P!Next]_(P!vars)
<1>1. ASSUME UNCHANGED vars PROVE [P!Next]_(P!vars)
  <2>1. UNCHANGED <<half, m_entry>> /\ pending' = pending /\ working' = working
    BY <1>1 DEF vars, pending, working
  <2> QED
    BY <2>1, Stutter
<1> QED
    BY <1>1, InterruptRefines, MonitorRefines, RunnerRefines, AlgorithmRefines,
       CommRefines DEF Next

\* The interrupt, the mailbox, the two threads, the fault handlers and the
\* commands implement Pipeline: each half of the input that fills is worked on
\* once and in order, or given up in an overrun that unloads the algorithm.
THEOREM Refinement == Spec => ImplementsPipeline
<1> QED
    BY Invariance, InitRefines, StepRefines, PTL DEF Spec, ImplementsPipeline, P!Spec

=============================================================================
