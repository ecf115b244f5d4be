-------------------------- MODULE ConversionProofs --------------------------
(***************************************************************************)
(* Proofs about Conversion, for every algorithm behaviour, every size of   *)
(* the error stack and every width of the clock's counter.                 *)
(***************************************************************************)
EXTENDS Conversion, ErrorStackProofs, SequenceTheorems

\* Which conversions are on follows from run_status and from how far the
\* communication thread has got with starting or stopping them.
Phase ==
    /\ run_status = "Idle" => comm \in {"cmd", "elfRead", "elfUnload", "elfLoad",
                                        "genClock", "genUnclock"}
    /\ comm \in {"elfRead", "elfUnload", "elfLoad"} => run_status = "Idle"
    /\ adc = "ADC_ACTIVE" <=>
         run_status = "Running" /\ comm \notin {"adcStart", "adcOp", "idle"}
    /\ m_operation # "null" <=>
         run_status = "Running" /\ comm \notin {"adcStart", "idle"}
    /\ dac[0] = "DAC_ACTIVE" <=>
         run_status = "Running" /\ comm \in {"cmd", "dacClock", "dacStop",
                                             "genClock", "genUnclock"}
    /\ comm = "genClock" => dac[1] = "DAC_ACTIVE"
    /\ comm = "genUnclock" => dac[1] = "DAC_READY"

\* A monitor that waits for a request, or holds one, faces a waiting runner;
\* so a busy runner has the monitor back at its mailbox.
Handover ==
    /\ monitor # "sndq"
    /\ monitor = "wtmb" => m_mailbox = <<>>
    /\ monitor \in {"wtmb", "send"} => runner = "wtmsg"

\* With the ADC off nothing is under way.
OffIsQuiet ==
    adc = "ADC_READY" =>
        /\ m_mailbox = <<>>
        /\ monitor \in {"fetch", "wtmb"}
        /\ runner \in {"svc0", "wtmsg"}

IInv ==
    /\ TypeOK
    /\ Phase
    /\ ClockServesUsers
    /\ Handover
    /\ OffIsQuiet
    /\ MeasureMeetsQuietPipeline
    /\ QueueIsRecent

-----------------------------------------------------------------------------
(* Who can be running.                                                     *)

\* The communication thread runs only while the pipeline has nothing to do.
LEMMA CommRunsQuiet ==
    ASSUME Handover, Running("comm")
    PROVE  Quiet /\ hung = "no"
BY DEF Handover, Running, Ready, Priority, Thread, Quiet

\* The monitor runs only while the runner waits for a message.
LEMMA MonitorRunsAlone ==
    ASSUME Running("monitor")
    PROVE  runner = "wtmsg" /\ monitor \notin {"wtmb", "sndq"} /\ hung = "no"
BY DEF Running, Ready, Priority, Thread

\* A running runner is not waiting.
LEMMA RunnerRunsAwake ==
    ASSUME Running("runner")
    PROVE  runner # "wtmsg" /\ hung = "no"
BY DEF Running, Ready

-----------------------------------------------------------------------------
(* IInv is inductive.                                                      *)

\* The state main leaves satisfies IInv.
LEMMA InitIInv == Init => IInv
<1> SUFFICES ASSUME Init PROVE IInv
    OBVIOUS
<1>1. TypeOK
    BY UIntAssumption, ErrorQueueAssumption
    DEF Init, TypeOK, ClockTypeOK, SClockBegin, ErrorStacks, Half, Msg,
        MonitorPCs, RunnerPCs, OnRunnerStack, InConvcode, InSyscall, CommPCs,
        MSG_CONVFIRST
<1>2. Phase /\ Handover /\ OffIsQuiet /\ MeasureMeetsQuietPipeline /\ QueueIsRecent
    BY DEF Init, Phase, Handover, OffIsQuiet, MeasureMeetsQuietPipeline,
           QueueIsRecent
<1>3. ClockServesUsers
    BY DEF Init, ClockServesUsers, SClockBegin, One, Ticking
<1> QED
    BY <1>1, <1>2, <1>3 DEF IInv

\* A step of the communication thread: the pipeline is quiet and stays so.
LEMMA CommKeepsPipeline ==
    ASSUME IInv, NEW from, NEW to, CommGoes(from, to)
    PROVE  /\ Quiet /\ Quiet'
           /\ UNCHANGED <<pipeVars, hung>>
           /\ comm = from /\ comm' = to
           /\ Handover' /\ QueueIsRecent' /\ OffIsQuiet'
           /\ MeasureMeetsQuietPipeline'
<1>1. Quiet /\ UNCHANGED <<pipeVars, hung>> /\ comm = from /\ comm' = to
    BY CommRunsQuiet DEF CommGoes, IInv
<1>2. Quiet'
    BY <1>1 DEF Quiet, pipeVars
<1> QED
    BY <1>1, <1>2 DEF Quiet, Handover, QueueIsRecent, OffIsQuiet,
                      MeasureMeetsQuietPipeline

\* The commands of the host and the steps that complete them preserve IInv.
LEMMA CommIInv == IInv /\ (Command \/ CommContinues) => IInv'
<1> SUFFICES ASSUME IInv, Command \/ CommContinues PROVE IInv'
    OBVIOUS
<1> USE UIntAssumption, CommKeepsPipeline
    DEF pipeVars, driverVars, algoVars, clockVars, IInv, Quiet
<1>0. ASSUME NEW from, NEW to \in CommPCs, CommGoes(from, to),
             Phase', ClockServesUsers',
             run_status' \in {"Idle", "Running"},
             m_entry' \in {"null", "algorithm"}, em' \in ErrorStacks,
             adc' \in {"ADC_READY", "ADC_ACTIVE"},
             m_operation' \in {"null", "adcReadHandler", "adcReadHandlerMeasure"},
             half' \in Half, inflight' \in BOOLEAN,
             dac' \in [{0, 1} -> {"DAC_READY", "DAC_ACTIVE"}], ClockTypeOK'
      PROVE  IInv'
    BY <1>0 DEF TypeOK
<1>1. CASE startConversion
  <2>1. Phase'
    BY <1>1 DEF startConversion, Phase, TypeOK
  <2>2. ClockServesUsers' /\ ClockTypeOK'
    BY <1>1 DEF startConversion, Phase, TypeOK, ClockTypeOK, ClockServesUsers,
       One, Ticking
  <2>3. em' \in ErrorStacks
    BY <1>1, AddType, AssertType DEF startConversion, TypeOK, Error
  <2> QED
    BY <1>1, <1>0, <2>1, <2>2, <2>3 DEF startConversion, TypeOK, CommPCs, Half
<1>2. CASE startADC
  <2>1. Phase'
    BY <1>2 DEF startADC, Phase, TypeOK
  <2>2. ClockServesUsers' /\ ClockTypeOK'
    BY <1>2 DEF startADC, Phase, TypeOK, ClockTypeOK, ClockServesUsers,
       One, Ticking
  <2>3. em' \in ErrorStacks
    BY <1>2 DEF startADC, TypeOK
  <2> QED
    BY <1>2, <1>0, <2>1, <2>2, <2>3 DEF startADC, TypeOK, CommPCs, Half
<1>3. CASE startADCClock
  <2>1. Phase'
    BY <1>3 DEF startADCClock, Phase, TypeOK
  <2>2. ClockServesUsers' /\ ClockTypeOK'
    BY <1>3 DEF startADCClock, Phase, TypeOK, ClockTypeOK, ClockServesUsers,
       One, Ticking, SClockStart, ClockBecomes, started, clock, Succ
  <2>3. em' \in ErrorStacks
    BY <1>3 DEF startADCClock, TypeOK
  <2> QED
    BY <1>3, <1>0, <2>1, <2>2, <2>3 DEF startADCClock, TypeOK, CommPCs, Half
<1>4. CASE startDAC
  <2>1. Phase'
    BY <1>4 DEF startDAC, Phase, TypeOK
  <2>2. ClockServesUsers' /\ ClockTypeOK'
    BY <1>4 DEF startDAC, Phase, TypeOK, ClockTypeOK, ClockServesUsers,
       One, Ticking
  <2>3. em' \in ErrorStacks
    BY <1>4 DEF startDAC, TypeOK
  <2> QED
    BY <1>4, <1>0, <2>1, <2>2, <2>3 DEF startDAC, TypeOK, CommPCs, Half
<1>5. CASE startDACClock
  <2>1. Phase'
    BY <1>5 DEF startDACClock, Phase, TypeOK
  <2>2. ClockServesUsers' /\ ClockTypeOK'
    BY <1>5 DEF startDACClock, Phase, TypeOK, ClockTypeOK, ClockServesUsers,
       One, Ticking, SClockStart, ClockBecomes, started, clock, Succ
  <2>3. em' \in ErrorStacks
    BY <1>5 DEF startDACClock, TypeOK
  <2> QED
    BY <1>5, <1>0, <2>1, <2>2, <2>3 DEF startDACClock, TypeOK, CommPCs, Half
<1>6. CASE stopConversion
  <2>1. Phase'
    BY <1>6 DEF stopConversion, Phase, TypeOK
  <2>2. ClockServesUsers' /\ ClockTypeOK'
    BY <1>6 DEF stopConversion, Phase, TypeOK, ClockTypeOK, ClockServesUsers,
       One, Ticking
  <2>3. em' \in ErrorStacks
    BY <1>6, AddType, AssertType DEF stopConversion, TypeOK, Error
  <2> QED
    BY <1>6, <1>0, <2>1, <2>2, <2>3 DEF stopConversion, TypeOK, CommPCs, Half
<1>7. CASE stopDAC
  <2>1. Phase'
    BY <1>7 DEF stopDAC, Phase, TypeOK
  <2>2. ClockServesUsers' /\ ClockTypeOK'
    BY <1>7 DEF stopDAC, Phase, TypeOK, ClockTypeOK, ClockServesUsers,
       One, Ticking
  <2>3. em' \in ErrorStacks
    BY <1>7 DEF stopDAC, TypeOK
  <2> QED
    BY <1>7, <1>0, <2>1, <2>2, <2>3 DEF stopDAC, TypeOK, CommPCs, Half
<1>8. CASE stopDACClock
  <2>1. Phase'
    BY <1>8 DEF stopDACClock, Phase, TypeOK
  <2>2. ClockServesUsers' /\ ClockTypeOK'
    BY <1>8 DEF stopDACClock, Phase, TypeOK, ClockTypeOK, ClockServesUsers,
       One, Ticking, SClockStopped, SClockStop, ClockBecomes, stopped, clock,
       Pred
  <2>3. em' \in ErrorStacks
    BY <1>8 DEF stopDACClock, TypeOK
  <2> QED
    BY <1>8, <1>0, <2>1, <2>2, <2>3 DEF stopDACClock, TypeOK, CommPCs, Half, SClockStopped
<1>9. CASE stopADCClock
  <2>1. Phase'
    BY <1>9 DEF stopADCClock, Phase, TypeOK
  <2>2. ClockServesUsers' /\ ClockTypeOK'
    BY <1>9 DEF stopADCClock, Phase, TypeOK, ClockTypeOK, ClockServesUsers,
       One, Ticking, SClockStopped, SClockStop, ClockBecomes, stopped, clock,
       Pred
  <2>3. em' \in ErrorStacks
    BY <1>9 DEF stopADCClock, TypeOK
  <2> QED
    BY <1>9, <1>0, <2>1, <2>2, <2>3 DEF stopADCClock, TypeOK, CommPCs, Half, SClockStopped
<1>10. CASE stopADC
  <2>1. Phase'
    BY <1>10 DEF stopADC, Phase, TypeOK
  <2>2. ClockServesUsers' /\ ClockTypeOK'
    BY <1>10 DEF stopADC, Phase, TypeOK, ClockTypeOK, ClockServesUsers,
       One, Ticking
  <2>3. em' \in ErrorStacks
    BY <1>10 DEF stopADC, TypeOK
  <2> QED
    BY <1>10, <1>0, <2>1, <2>2, <2>3 DEF stopADC, TypeOK, CommPCs, Half
<1>11. CASE clearOperation
  <2>1. Phase'
    BY <1>11 DEF clearOperation, Phase, TypeOK
  <2>2. ClockServesUsers' /\ ClockTypeOK'
    BY <1>11 DEF clearOperation, Phase, TypeOK, ClockTypeOK, ClockServesUsers,
       One, Ticking
  <2>3. em' \in ErrorStacks
    BY <1>11 DEF clearOperation, TypeOK
  <2> QED
    BY <1>11, <1>0, <2>1, <2>2, <2>3 DEF clearOperation, TypeOK, CommPCs, Half
<1>12. CASE setIdle
  <2>1. Phase'
    BY <1>12 DEF setIdle, Phase, TypeOK
  <2>2. ClockServesUsers' /\ ClockTypeOK'
    BY <1>12 DEF setIdle, Phase, TypeOK, ClockTypeOK, ClockServesUsers,
       One, Ticking
  <2>3. em' \in ErrorStacks
    BY <1>12 DEF setIdle, TypeOK
  <2> QED
    BY <1>12, <1>0, <2>1, <2>2, <2>3 DEF setIdle, TypeOK, CommPCs, Half
<1>13. CASE measureConversion
  <2>1. Phase'
    BY <1>13 DEF measureConversion, Phase, TypeOK
  <2>2. ClockServesUsers' /\ ClockTypeOK'
    BY <1>13 DEF measureConversion, Phase, TypeOK, ClockTypeOK, ClockServesUsers,
       One, Ticking
  <2>3. em' \in ErrorStacks
    BY <1>13, AddType, AssertType DEF measureConversion, TypeOK, Error
  <2> QED
    BY <1>13, <1>0, <2>1, <2>2, <2>3 DEF measureConversion, TypeOK, CommPCs, Half
<1>14. CASE loadAlgorithm
  <2>1. Phase'
    BY <1>14 DEF loadAlgorithm, Phase, TypeOK
  <2>2. ClockServesUsers' /\ ClockTypeOK'
    BY <1>14 DEF loadAlgorithm, Phase, TypeOK, ClockTypeOK, ClockServesUsers,
       One, Ticking
  <2>3. em' \in ErrorStacks
    BY <1>14, AddType, AssertType DEF loadAlgorithm, TypeOK, Error
  <2> QED
    BY <1>14, <1>0, <2>1, <2>2, <2>3 DEF loadAlgorithm, TypeOK, CommPCs, Half
<1>15. CASE readAlgorithm
  <2>1. Phase'
    BY <1>15 DEF readAlgorithm, Phase, TypeOK
  <2>2. ClockServesUsers' /\ ClockTypeOK'
    BY <1>15 DEF readAlgorithm, Phase, TypeOK, ClockTypeOK, ClockServesUsers,
       One, Ticking
  <2>3. em' \in ErrorStacks
    BY <1>15, AddType, AssertType DEF readAlgorithm, TypeOK, Error
  <2> QED
    BY <1>15, <1>0, <2>1, <2>2, <2>3 DEF readAlgorithm, TypeOK, CommPCs, Half
<1>16. CASE loadBegin
  <2>1. Phase'
    BY <1>16 DEF loadBegin, Phase, TypeOK
  <2>2. ClockServesUsers' /\ ClockTypeOK'
    BY <1>16 DEF loadBegin, Phase, TypeOK, ClockTypeOK, ClockServesUsers,
       One, Ticking
  <2>3. em' \in ErrorStacks
    BY <1>16 DEF loadBegin, TypeOK
  <2> QED
    BY <1>16, <1>0, <2>1, <2>2, <2>3 DEF loadBegin, TypeOK, CommPCs, Half
<1>17. CASE loadEnd
  <2>1. Phase'
    BY <1>17 DEF loadEnd, Phase, TypeOK
  <2>2. ClockServesUsers' /\ ClockTypeOK'
    BY <1>17 DEF loadEnd, Phase, TypeOK, ClockTypeOK, ClockServesUsers,
       One, Ticking
  <2>3. em' \in ErrorStacks
    BY <1>17, AddType, AssertType DEF loadEnd, TypeOK, Error
  <2> QED
    BY <1>17, <1>0, <2>1, <2>2, <2>3 DEF loadEnd, TypeOK, CommPCs, Half
<1>18. CASE unloadAlgorithm
  <2>1. Phase'
    BY <1>18 DEF unloadAlgorithm, Phase, TypeOK
  <2>2. ClockServesUsers' /\ ClockTypeOK'
    BY <1>18 DEF unloadAlgorithm, Phase, TypeOK, ClockTypeOK, ClockServesUsers,
       One, Ticking
  <2>3. em' \in ErrorStacks
    BY <1>18 DEF unloadAlgorithm, TypeOK
  <2> QED
    BY <1>18, <1>0, <2>1, <2>2, <2>3 DEF unloadAlgorithm, TypeOK, CommPCs, Half
<1>19. CASE readStatus
  <2>1. Phase'
    BY <1>19 DEF readStatus, Phase, TypeOK
  <2>2. ClockServesUsers' /\ ClockTypeOK'
    BY <1>19 DEF readStatus, Phase, TypeOK, ClockTypeOK, ClockServesUsers,
       One, Ticking
  <2>3. em' \in ErrorStacks
    BY <1>19, PopType DEF readStatus, TypeOK
  <2> QED
    BY <1>19, <1>0, <2>1, <2>2, <2>3 DEF readStatus, TypeOK, CommPCs, Half
<1>20. CASE startGenerator
  <2>1. Phase'
    BY <1>20 DEF startGenerator, Phase, TypeOK
  <2>2. ClockServesUsers' /\ ClockTypeOK'
    BY <1>20 DEF startGenerator, Phase, TypeOK, ClockTypeOK, ClockServesUsers,
       One, Ticking
  <2>3. em' \in ErrorStacks
    BY <1>20 DEF startGenerator, TypeOK
  <2> QED
    BY <1>20, <1>0, <2>1, <2>2, <2>3 DEF startGenerator, TypeOK, CommPCs, Half
<1>21. CASE startGeneratorClock
  <2>1. Phase'
    BY <1>21 DEF startGeneratorClock, Phase, TypeOK
  <2>2. ClockServesUsers' /\ ClockTypeOK'
    BY <1>21 DEF startGeneratorClock, Phase, TypeOK, ClockTypeOK, ClockServesUsers,
       One, Ticking, SClockStart, ClockBecomes, started, clock, Succ
  <2>3. em' \in ErrorStacks
    BY <1>21 DEF startGeneratorClock, TypeOK
  <2> QED
    BY <1>21, <1>0, <2>1, <2>2, <2>3 DEF startGeneratorClock, TypeOK, CommPCs, Half
<1>22. CASE stopGenerator
  <2>1. Phase'
    BY <1>22 DEF stopGenerator, Phase, TypeOK
  <2>2. ClockServesUsers' /\ ClockTypeOK'
    BY <1>22 DEF stopGenerator, Phase, TypeOK, ClockTypeOK, ClockServesUsers,
       One, Ticking
  <2>3. em' \in ErrorStacks
    BY <1>22 DEF stopGenerator, TypeOK
  <2> QED
    BY <1>22, <1>0, <2>1, <2>2, <2>3 DEF stopGenerator, TypeOK, CommPCs, Half
<1>23. CASE stopGeneratorClock
  <2>1. Phase'
    BY <1>23 DEF stopGeneratorClock, Phase, TypeOK
  <2>2. ClockServesUsers' /\ ClockTypeOK'
    BY <1>23 DEF stopGeneratorClock, Phase, TypeOK, ClockTypeOK, ClockServesUsers,
       One, Ticking, SClockStopped, SClockStop, ClockBecomes, stopped, clock,
       Pred
  <2>3. em' \in ErrorStacks
    BY <1>23 DEF stopGeneratorClock, TypeOK
  <2> QED
    BY <1>23, <1>0, <2>1, <2>2, <2>3 DEF stopGeneratorClock, TypeOK, CommPCs, Half, SClockStopped
<1> QED
    BY <1>1, <1>2, <1>3, <1>4, <1>5, <1>6, <1>7, <1>8, <1>9, <1>10, <1>11, <1>12, <1>13, <1>14, <1>15, <1>16, <1>17, <1>18, <1>19, <1>20, <1>21, <1>22, <1>23 DEF Command, CommContinues

\* The monitor and the runner leave the drivers, the clock, run_status and the
\* communication thread alone, and so what IInv says of those.
LEMMA ThreadsKeepDrivers ==
    ASSUME IInv, UNCHANGED <<run_status, driverVars, comm>>
    PROVE  Phase' /\ ClockServesUsers' /\ ClockTypeOK'
BY DEF IInv, TypeOK, driverVars, Phase, ClockServesUsers, ClockTypeOK, One, Ticking

\* What fetching leaves of a mailbox that holds one or two messages.
LEMMA ShortTail ==
    ASSUME NEW S, NEW q \in Seq(S), q # <<>>, Len(q) <= 2
    PROVE  /\ Head(q) \in S
           /\ Tail(q) \in Seq(S)
           /\ Len(Tail(q)) = Len(q) - 1
           /\ Tail(q) # <<>> => /\ Len(q) = 2
                                /\ Tail(q)[1] = q[2]
<1>1. Len(q) \in Nat /\ Len(q) # 0
    BY EmptySeq
<1>2. Head(q) \in S /\ Tail(q) \in Seq(S) /\ Len(Tail(q)) = Len(q) - 1
    BY <1>1, HeadTailProperties
<1>3. ASSUME Tail(q) # <<>> PROVE Len(q) = 2 /\ Tail(q)[1] = q[2]
  <2>1. Len(Tail(q)) # 0
    BY <1>2, <1>3, EmptySeq
  <2>2. Len(q) = 2
    BY <1>1, <1>2, <2>1
  <2>3. \A i \in 1 .. Len(Tail(q)) : Tail(q)[i] = q[i + 1]
    BY HeadTailProperties
  <2>4. Len(Tail(q)) = 1
    BY <1>2, <2>2
  <2>5. ASSUME NEW n, n = 1, NEW t, \A i \in 1 .. n : t[i] = q[i + 1]
        PROVE  t[1] = q[2]
    BY <2>5
  <2>6. Tail(q)[1] = q[2]
    BY <2>3, <2>4, <2>5, Zenon
  <2> QED
    BY <2>2, <2>6, Zenon
<1> QED
    BY <1>2, <1>3

\* The monitor thread preserves IInv.
LEMMA MonitorIInv == IInv /\ Monitor => IInv'
<1> SUFFICES ASSUME IInv, Monitor PROVE IInv'
    OBVIOUS
<1> USE DEF driverVars, algoVars, clockVars, IInv
<1>1. CASE MonitorFetch
  <2>1. runner = "wtmsg" /\ monitor = "fetch" /\ hung = "no"
    BY <1>1, MonitorRunsAlone DEF MonitorFetch
  <2>2. Phase' /\ ClockServesUsers' /\ ClockTypeOK'
    BY <1>1, ThreadsKeepDrivers DEF MonitorFetch
  <2>3. CASE m_mailbox = <<>>
    <3>1. TypeOK'
      BY <1>1, <2>2, <2>3 DEF MonitorFetch, TypeOK, MonitorPCs
    <3>2. Handover' /\ OffIsQuiet' /\ MeasureMeetsQuietPipeline' /\ QueueIsRecent'
      BY <1>1, <2>1, <2>3
      DEF MonitorFetch, Handover, OffIsQuiet, MeasureMeetsQuietPipeline,
          QueueIsRecent, Quiet
    <3> QED
      BY <2>2, <3>1, <3>2
  <2>4. CASE m_mailbox # <<>>
    <3>1. /\ Head(m_mailbox) \in Msg
          /\ Tail(m_mailbox) \in Seq(Msg)
          /\ Len(Tail(m_mailbox)) = Len(m_mailbox) - 1
          /\ Tail(m_mailbox) # <<>> => /\ Len(m_mailbox) = 2
                                       /\ Tail(m_mailbox)[1] = m_mailbox[2]
      BY <2>4, ShortTail DEF TypeOK
    <3>2. TypeOK'
      BY <1>1, <2>2, <2>4, <3>1 DEF MonitorFetch, TypeOK, MonitorPCs
    <3>3. adc = "ADC_ACTIVE"
      BY <2>4 DEF OffIsQuiet, TypeOK
    <3>4. Handover' /\ OffIsQuiet' /\ MeasureMeetsQuietPipeline'
      BY <1>1, <2>1, <2>4, <3>3
      DEF MonitorFetch, Handover, OffIsQuiet, MeasureMeetsQuietPipeline, Quiet
    <3>5. QueueIsRecent'
      BY <1>1, <2>4, <3>1 DEF MonitorFetch, QueueIsRecent, TypeOK
    <3> QED
      BY <2>2, <3>2, <3>4, <3>5
  <2> QED
    BY <2>3, <2>4
<1>2. CASE MonitorSend
  <2>1. runner = "wtmsg" /\ monitor = "send" /\ hung = "no"
    BY <1>2, MonitorRunsAlone DEF MonitorSend
  <2>2. Phase' /\ ClockServesUsers' /\ ClockTypeOK'
    BY <1>2, ThreadsKeepDrivers DEF MonitorSend
  <2>3. TypeOK'
    BY <1>2, <2>1, <2>2
    DEF MonitorSend, TypeOK, MonitorPCs, RunnerPCs, OnRunnerStack, InConvcode
  <2>4. Handover' /\ OffIsQuiet' /\ MeasureMeetsQuietPipeline' /\ QueueIsRecent'
    BY <1>2, <2>1
    DEF MonitorSend, Handover, OffIsQuiet, MeasureMeetsQuietPipeline,
        QueueIsRecent, Quiet, TypeOK
  <2> QED
    BY <2>2, <2>3, <2>4
<1> QED
    BY <1>1, <1>2 DEF Monitor

\* A runner that is awake has the monitor back at its mailbox and, unless it
\* is about to wait, the ADC on.
LEMMA BusyRunner ==
    ASSUME IInv, Running("runner")
    PROVE  /\ monitor = "fetch" /\ runner # "wtmsg" /\ hung = "no"
           /\ m_operation # "adcReadHandlerMeasure"
           /\ runner # "svc0" => adc = "ADC_ACTIVE"
BY RunnerRunsAwake
   DEF IInv, Handover, TypeOK, MonitorPCs, OffIsQuiet, MeasureMeetsQuietPipeline,
       Quiet

\* Where the runner goes next does not matter to IInv, unless it is to wait.
LEMMA RunnerGoesIInv ==
    ASSUME IInv, NEW from \in RunnerPCs, NEW to \in RunnerPCs, RunnerGoes(from, to),
           to # "wtmsg", from # "svc0", samples' \in {"readable", "partly", "unreadable"}
    PROVE  IInv'
<1> USE DEF driverVars, algoVars, clockVars, IInv
<1>1. monitor = "fetch" /\ adc = "ADC_ACTIVE" /\ m_operation # "adcReadHandlerMeasure"
    BY BusyRunner DEF RunnerGoes
<1>2. Phase' /\ ClockServesUsers' /\ ClockTypeOK'
    BY ThreadsKeepDrivers DEF RunnerGoes
<1>3. TypeOK'
    BY <1>2 DEF RunnerGoes, TypeOK
<1>4. Handover' /\ OffIsQuiet' /\ MeasureMeetsQuietPipeline' /\ QueueIsRecent'
    BY <1>1
    DEF RunnerGoes, Handover, OffIsQuiet, MeasureMeetsQuietPipeline, QueueIsRecent
<1> QED
    BY <1>2, <1>3, <1>4

\* The runner's own steps preserve IInv.
LEMMA RunnerIInv == IInv /\ RunnerFirmware => IInv'
<1> SUFFICES ASSUME IInv, RunnerFirmware PROVE IInv'
    OBVIOUS
<1>1. CASE RunnerSvc0
  <2> USE DEF driverVars, algoVars, clockVars, IInv
  <2>1. monitor = "fetch" /\ m_operation # "adcReadHandlerMeasure"
    BY <1>1, BusyRunner DEF RunnerSvc0
  <2>2. Phase' /\ ClockServesUsers' /\ ClockTypeOK'
    BY <1>1, ThreadsKeepDrivers DEF RunnerSvc0
  <2>3. TypeOK'
    BY <1>1, <2>1, <2>2 DEF RunnerSvc0, TypeOK, RunnerPCs, InSyscall
  <2>4. Handover' /\ OffIsQuiet' /\ MeasureMeetsQuietPipeline' /\ QueueIsRecent'
    BY <1>1, <2>1
    DEF RunnerSvc0, Handover, OffIsQuiet, MeasureMeetsQuietPipeline, QueueIsRecent
  <2> QED
    BY <2>2, <2>3, <2>4
<1> USE RunnerGoesIInv
    DEF IInv, TypeOK, RunnerPCs, OnRunnerStack, InConvcode, InSyscall
<1>2. CASE RunnerPick
    BY <1>2 DEF RunnerPick
<1>3. CASE RunnerStartTimer
    BY <1>3 DEF RunnerStartTimer
<1>4. CASE RunnerStopTimer
    BY <1>4 DEF RunnerStopTimer
<1>5. CASE RunnerTest
    BY <1>5 DEF RunnerTest
<1>6. CASE RunnerStore
    BY <1>6 DEF RunnerStore
<1> QED
    BY <1>1, <1>2, <1>3, <1>4, <1>5, <1>6 DEF RunnerFirmware

\* What abort leaves behind: no algorithm, and a runner that either goes back
\* to its start out of the algorithm or stays where it was.
LEMMA AbortEffect ==
    ASSUME TypeOK, NEW b \in BOOLEAN, abort(b)
    PROVE  /\ m_entry' = "null"
           /\ em' \in ErrorStacks
           /\ hung' \in {"no", "patch", "hardfault"}
           /\ runner' \in RunnerPCs
           /\ runner' = runner \/ (runner = "algo" /\ runner' = "svc0")
<1>1. em \in ErrorStacks /\ "ConversionAborted" \in Error
    BY DEF TypeOK, Error
<1>2. add(em, "ConversionAborted") \in ErrorStacks
    BY <1>1, AddType
<1>3. add(add(em, "ConversionAborted"), "ConversionAborted") \in ErrorStacks
    BY <1>1, <1>2, AddType
<1>4. em' \in ErrorStacks
    BY <1>2, <1>3 DEF abort
<1> QED
    BY <1>4 DEF abort, TypeOK, RunnerPCs, OnRunnerStack, InConvcode, InSyscall

\* The algorithm, whatever it does, preserves IInv.
LEMMA AlgorithmIInv == IInv /\ Algorithm => IInv'
<1> SUFFICES ASSUME IInv, Algorithm PROVE IInv'
    OBVIOUS
<1> USE DEF IInv
<1>0. {"algo", "stray", "test", "tmstop", "math", "readAlt", "badsvc"} \subseteq RunnerPCs
    BY DEF RunnerPCs, OnRunnerStack, InConvcode, InSyscall
<1>1. CASE AlgoReturn
    BY <1>0, <1>1, RunnerGoesIInv DEF AlgoReturn
<1>2. CASE AlgoSyscall
    BY <1>0, <1>2, RunnerGoesIInv DEF AlgoSyscall, TypeOK
<1>3. CASE SyscallReturn
    BY <1>0, <1>3, RunnerGoesIInv DEF SyscallReturn, TypeOK
<1>4. CASE MemManage_Handler
  <2> USE DEF driverVars, clockVars
  <2>1. /\ monitor = "fetch" /\ m_operation # "adcReadHandlerMeasure"
        /\ runner \in {"algo", "stray", "test", "store"} /\ adc = "ADC_ACTIVE"
    BY <1>4, BusyRunner DEF MemManage_Handler
  <2>2. Phase' /\ ClockServesUsers' /\ ClockTypeOK'
    BY <1>4, ThreadsKeepDrivers DEF MemManage_Handler
  <2>3. TypeOK'
    BY <1>4, <2>2, AbortEffect DEF MemManage_Handler, TypeOK
  <2>4. Handover' /\ OffIsQuiet' /\ MeasureMeetsQuietPipeline' /\ QueueIsRecent'
    BY <1>4, <2>1, AbortEffect
    DEF MemManage_Handler, Handover, OffIsQuiet, MeasureMeetsQuietPipeline,
        QueueIsRecent
  <2> QED
    BY <2>2, <2>3, <2>4
<1>5. CASE HardFault_Handler
  <2> USE DEF driverVars, pipeVars, clockVars
  <2>1. Phase' /\ ClockServesUsers' /\ ClockTypeOK'
    BY <1>5, ThreadsKeepDrivers DEF HardFault_Handler
  <2>2. em' \in ErrorStacks
    BY <1>5, AssertType DEF HardFault_Handler, TypeOK, Error
  <2>3. TypeOK'
    BY <1>5, <2>1, <2>2 DEF HardFault_Handler, TypeOK
  <2>4. Handover' /\ OffIsQuiet' /\ MeasureMeetsQuietPipeline' /\ QueueIsRecent'
    BY <1>5
    DEF HardFault_Handler, Handover, OffIsQuiet, MeasureMeetsQuietPipeline,
        QueueIsRecent, Quiet
  <2> QED
    BY <2>1, <2>3, <2>4
<1>6. CASE AlgoStrays
    BY <1>0, <1>6, RunnerGoesIInv DEF AlgoStrays, TypeOK
<1> QED
    BY <1>1, <1>2, <1>3, <1>4, <1>5, <1>6 DEF Algorithm

\* What posting leaves of a mailbox that holds at most one message.
LEMMA ShortAppend ==
    ASSUME NEW S, NEW q \in Seq(S), NEW e \in S, Len(q) <= 1
    PROVE  /\ Append(q, e) \in Seq(S)
           /\ Len(Append(q, e)) = Len(q) + 1
           /\ Append(q, e)[Len(q) + 1] = e
           /\ Len(q) = 1 => Append(q, e)[1] = q[1] /\ q # <<>>
BY AppendProperties, EmptySeq

\* The interrupt posts the message of the half just filled to a mailbox with
\* room: the queue stays a queue of recent halves.
LEMMA PostKeepsRecent ==
    ASSUME TypeOK, QueueIsRecent, Len(m_mailbox) <= 1, half' = Other(half),
           NEW msg \in Msg, HalfOf(msg) = half, chMBPostI(msg)
    PROVE  /\ QueueIsRecent'
           /\ m_mailbox' \in Seq(Msg) /\ Len(m_mailbox') <= 2
           /\ monitor' = IF monitor = "wtmb" THEN "fetch" ELSE monitor
<1> DEFINE q == Append(m_mailbox, msg)
<1>1. m_mailbox' = q /\ monitor' = IF monitor = "wtmb" THEN "fetch" ELSE monitor
    BY DEF chMBPostI, TypeOK
<1>2. q \in Seq(Msg)
    BY ShortAppend DEF TypeOK
<1>3. Len(m_mailbox) \in Nat /\ half \in Half
    BY DEF TypeOK
<1>4. Len(q) = Len(m_mailbox) + 1
    BY ShortAppend DEF TypeOK
<1> HIDE DEF q
<1>5. HalfOf(q[Len(q)]) = Other(Other(half))
  <2>1. q[Len(q)] = msg
    BY ShortAppend DEF TypeOK, q
  <2>2. Other(Other(half)) = half
    BY <1>3 DEF Other, Half
  <2> QED
    BY <2>1, <2>2
<1>6. ASSUME Len(q) = 2 PROVE HalfOf(q[1]) = Other(half)
  <2>0. \A n \in Nat : 2 = n + 1 => n = 1
    OBVIOUS
  <2>1. Len(m_mailbox) = 1
    BY <1>3, <1>4, <1>6, <2>0, Zenon
  <2>2. q[1] = m_mailbox[1] /\ m_mailbox # <<>>
    BY <2>1, ShortAppend DEF TypeOK, q
  <2> QED
    BY <2>1, <2>2 DEF QueueIsRecent
<1>7. Len(q) <= 2
    BY <1>3, <1>4
<1>8. QueueIsRecent'
    BY <1>1, <1>5, <1>6 DEF QueueIsRecent
<1> QED
    BY <1>1, <1>2, <1>7, <1>8

\* The ADC interrupt, overrun and abort included, preserves IInv.
LEMMA InterruptIInv == IInv /\ AdcInterrupt => IInv'
<1> SUFFICES ASSUME IInv, AdcInterrupt PROVE IInv'
    OBVIOUS
<1> USE DEF clockVars, IInv
<1>1. /\ adc = "ADC_ACTIVE" /\ half' = Other(half) /\ inflight' = FALSE
      /\ UNCHANGED <<run_status, adc, dac, m_runcount, timer, sending, message,
                     samples, comm>>
    BY DEF AdcInterrupt
<1>2. /\ half' \in Half /\ ClockTypeOK'
      /\ m_mailbox \in Seq(Msg) /\ Len(m_mailbox) \in Nat
    BY <1>1 DEF TypeOK, Other, Half, ClockTypeOK
<1>3. ClockServesUsers'
    BY <1>1 DEF ClockServesUsers, One, Ticking
<1>4. \A h \in Half :
         /\ HalfOf(IF h = "first" THEN MSG_CONVFIRST ELSE MSG_CONVSECOND) = h
         /\ HalfOf(IF h = "first" THEN MSG_CONVFIRST_MEASURE
                                  ELSE MSG_CONVSECOND_MEASURE) = h
         /\ (IF h = "first" THEN MSG_CONVFIRST ELSE MSG_CONVSECOND) \in Msg
         /\ (IF h = "first" THEN MSG_CONVFIRST_MEASURE
                            ELSE MSG_CONVSECOND_MEASURE) \in Msg
    BY DEF Half, HalfOf, MSG_FOR_FIRST, MSG_CONVFIRST, MSG_CONVSECOND,
           MSG_CONVFIRST_MEASURE, MSG_CONVSECOND_MEASURE, Msg
<1>5. CASE m_operation = "adcReadHandler" /\ adcReadHandler(half)
  <2>1. m_operation' = "adcReadHandler" /\ Phase'
    BY <1>1, <1>5 DEF adcReadHandler, Phase
  <2>2. CASE Len(m_mailbox) > 1
    <3>0. ~(Len(m_mailbox) <= 1)
      BY <1>2, <2>2
    <3>1. chMBReset /\ abort(FALSE)
      BY <1>5, <3>0, Zenon DEF adcReadHandler
    <3>a. m_mailbox' \in Seq(Msg) /\ Len(m_mailbox') <= 2 /\ monitor' \in MonitorPCs
      BY <3>1 DEF chMBReset, TypeOK, MonitorPCs
    <3>b. /\ m_entry' \in {"null", "algorithm"} /\ em' \in ErrorStacks
          /\ hung' \in {"no", "patch", "hardfault"} /\ runner' \in RunnerPCs
      BY <3>1, AbortEffect
    <3>2. TypeOK'
      BY <1>1, <1>2, <2>1, <3>a, <3>b DEF TypeOK
    <3>3. Handover' /\ OffIsQuiet' /\ MeasureMeetsQuietPipeline' /\ QueueIsRecent'
      BY <1>1, <2>1, <3>1, AbortEffect
      DEF chMBReset, Handover, OffIsQuiet, MeasureMeetsQuietPipeline, QueueIsRecent
    <3> QED
      BY <1>3, <2>1, <3>2, <3>3
  <2>3. CASE Len(m_mailbox) <= 1
    <3> DEFINE msg == IF half = "first" THEN MSG_CONVFIRST ELSE MSG_CONVSECOND
    <3>0. ~(Len(m_mailbox) > 1)
      BY <1>2, <2>3
    <3>1. chMBPostI(msg) /\ UNCHANGED <<m_entry, em, hung, runner>>
      BY <1>5, <3>0, Zenon DEF adcReadHandler
    <3>2. msg \in Msg /\ HalfOf(msg) = half
      BY <1>4 DEF TypeOK
    <3> HIDE DEF msg
    <3>3. /\ QueueIsRecent'
          /\ m_mailbox' \in Seq(Msg) /\ Len(m_mailbox') <= 2
          /\ monitor' = IF monitor = "wtmb" THEN "fetch" ELSE monitor
      BY <1>1, <2>3, <3>1, <3>2, PostKeepsRecent
    <3>4. TypeOK'
      BY <1>1, <1>2, <2>1, <3>1, <3>3 DEF TypeOK, MonitorPCs
    <3>5. Handover' /\ OffIsQuiet' /\ MeasureMeetsQuietPipeline'
      BY <1>1, <2>1, <3>1, <3>3
      DEF Handover, OffIsQuiet, MeasureMeetsQuietPipeline
    <3> QED
      BY <1>3, <2>1, <3>3, <3>4, <3>5
  <2> QED
    BY <1>2, <2>2, <2>3
<1>6. CASE m_operation = "adcReadHandlerMeasure" /\ adcReadHandlerMeasure(half)
  <2> DEFINE msg == IF half = "first" THEN MSG_CONVFIRST_MEASURE
                                      ELSE MSG_CONVSECOND_MEASURE
  <2>1. m_operation' = "adcReadHandler" /\ Phase'
    BY <1>1, <1>6 DEF adcReadHandlerMeasure, Phase
  <2>2. chMBPostI(msg) /\ UNCHANGED <<m_entry, em, hung, runner>>
    BY <1>6 DEF adcReadHandlerMeasure
  <2>3. msg \in Msg /\ HalfOf(msg) = half
    BY <1>4 DEF TypeOK
  <2> HIDE DEF msg
  <2>4. Len(m_mailbox) <= 1
    BY <1>6, EmptySeq DEF MeasureMeetsQuietPipeline, Quiet
  <2>5. /\ QueueIsRecent'
        /\ m_mailbox' \in Seq(Msg) /\ Len(m_mailbox') <= 2
        /\ monitor' = IF monitor = "wtmb" THEN "fetch" ELSE monitor
    BY <1>1, <2>2, <2>3, <2>4, PostKeepsRecent
  <2>6. TypeOK'
    BY <1>1, <1>2, <2>1, <2>2, <2>5 DEF TypeOK, MonitorPCs
  <2>7. Handover' /\ OffIsQuiet' /\ MeasureMeetsQuietPipeline'
    BY <1>1, <2>1, <2>2, <2>5
    DEF Handover, OffIsQuiet, MeasureMeetsQuietPipeline
  <2> QED
    BY <1>3, <2>1, <2>5, <2>6, <2>7
<1> QED
    BY <1>5, <1>6 DEF AdcInterrupt

\* IInv is an inductive invariant of the pipeline.
LEMMA Inductive == IInv /\ [Next]_vars => IInv'
<1>1. ASSUME IInv, UNCHANGED vars PROVE IInv'
    BY <1>1
    DEF vars, IInv, TypeOK, ClockTypeOK, Phase, ClockServesUsers, One, Ticking,
        Handover, OffIsQuiet, MeasureMeetsQuietPipeline, QueueIsRecent, Quiet
<1> QED
    BY <1>1, InterruptIInv, MonitorIInv, RunnerIInv, AlgorithmIInv, CommIInv
    DEF Next

-----------------------------------------------------------------------------
(* The theorems.                                                           *)

\* In every state the firmware can reach, IInv holds.
THEOREM Invariance == Spec => []IInv
<1> QED
    BY InitIInv, Inductive, PTL DEF Spec

\* Every variable of the pipeline keeps its type; in particular the mailbox
\* never holds more than its two slots and the error stack its bound.
THEOREM TypeCorrect == Spec => []TypeOK
<1>1. IInv => TypeOK
    BY DEF IInv
<1> QED
    BY <1>1, Invariance, PTL

\* Idle means that nothing is under way, whatever the algorithm did, however
\* often the interrupt overran and whenever the host stopped the conversion.
THEOREM IdleSafe == Spec => []IdleIsQuiet
<1>1. IInv => IdleIsQuiet
    BY DEF IInv, Phase, OffIsQuiet, IdleIsQuiet, TypeOK
<1> QED
    BY <1>1, Invariance, PTL

\* No request is stranded between the interrupt, the monitor and the runner.
THEOREM NoRequestStranded == Spec => []NoStrandedRequest
<1>1. IInv => NoStrandedRequest
    BY DEF IInv, Handover, NoStrandedRequest
<1> QED
    BY <1>1, Invariance, PTL

\* No measurement is requested of a pipeline that has anything else to do.
THEOREM MeasureSafe == Spec => []MeasureMeetsQuietPipeline
<1>1. IInv => MeasureMeetsQuietPipeline
    BY DEF IInv
<1> QED
    BY <1>1, Invariance, PTL

\* Queued requests are for successive halves, the newest for the one
\* adcReadHandler was last called for.
THEOREM QueueSafe == Spec => []QueueIsRecent
<1>1. IInv => QueueIsRecent
    BY DEF IInv
<1> QED
    BY <1>1, Invariance, PTL

\* The sampling clock counts its users and runs exactly while it has some.
THEOREM ClockSafe == Spec => []ClockServesUsers
<1>1. IInv => ClockServesUsers
    BY DEF IInv
<1> QED
    BY <1>1, Invariance, PTL


-----------------------------------------------------------------------------
(* How far the DMA can be ahead of the runner.                             *)

Working == runner \notin {"svc0", "wtmsg"}

\* The DMA writes to the half of the request msg just while another is queued.
Paced(msg) == HalfOf(msg) = half <=> Len(m_mailbox) = 1

\* That is so of the request the runner works on and of the one the monitor holds,
\* for as long as no overrun has emptied the mailbox behind them.
InStep ==
    m_entry # "null" \/ Deadline =>
        /\ monitor = "send" => Paced(sending)
        /\ Working => Paced(message)

\* With an algorithm that meets its deadline a request is queued only until the
\* monitor, woken by it, runs.
Prompt ==
    Deadline /\ m_mailbox # <<>> =>
        Len(m_mailbox) = 1 /\ runner = "wtmsg" /\ monitor = "fetch"

Pace == InStep /\ Prompt

\* A step that leaves the mailbox and the DMA alone, and puts the runner and the
\* monitor to no new request, changes nothing of the pace.
LEMMA SamePace ==
    ASSUME Pace, UNCHANGED <<m_mailbox, half, sending, message>>,
           m_entry' # "null" => m_entry # "null",
           monitor' = "send" => monitor = "send", Working' => Working,
           m_mailbox # <<>> /\ Deadline => UNCHANGED <<runner, monitor>>
    PROVE  Pace'
<1>1. Paced(sending)' <=> Paced(sending)
    BY DEF Paced
<1>2. Paced(message)' <=> Paced(message)
    BY DEF Paced
<1>3. InStep'
    BY <1>1, <1>2, Zenon DEF Pace, InStep
<1>4. Prompt'
    BY DEF Pace, Prompt
<1> QED
    BY <1>3, <1>4 DEF Pace

\* With nothing queued, held or worked on there is nothing to keep pace with.
LEMMA QuietPace == ASSUME Quiet' PROVE Pace'
BY DEF Quiet, Pace, InStep, Prompt, Working

\* The monitor takes the oldest request, and hands it over.
LEMMA MonitorPace == IInv /\ Pace /\ Monitor => Pace'
<1> SUFFICES ASSUME IInv, Pace, Monitor PROVE Pace'
    OBVIOUS
<1>0. m_mailbox \in Seq(Msg) /\ Len(m_mailbox) \in 0 .. 2 /\ half \in Half
  <2>1. m_mailbox \in Seq(Msg) /\ Len(m_mailbox) <= 2 /\ half \in Half
    BY Zenon DEF IInv, TypeOK
  <2>2. Len(m_mailbox) \in Nat
    BY <2>1, LenProperties
  <2>3. \A n \in Nat : n <= 2 => n \in 0 .. 2
    OBVIOUS
  <2> QED
    BY <2>1, <2>2, <2>3, Zenon
<1>1. CASE MonitorFetch
  <2>1. /\ runner = "wtmsg" /\ monitor = "fetch"
        /\ UNCHANGED <<runner, message, half, m_entry>>
    BY <1>1, MonitorRunsAlone DEF MonitorFetch, algoVars, driverVars
  <2>2. ~Working'
    BY <2>1 DEF Working
  <2>3. CASE m_mailbox = <<>>
    <3>1. m_mailbox' = <<>> /\ monitor' = "wtmb"
      BY <1>1, <2>3 DEF MonitorFetch
    <3> QED
      BY <2>2, <3>1 DEF Pace, InStep, Prompt
  <2>4. CASE m_mailbox # <<>>
    <3>1. sending' = Head(m_mailbox) /\ m_mailbox' = Tail(m_mailbox)
      BY <1>1, <2>4 DEF MonitorFetch
    <3>2. /\ Tail(m_mailbox) \in Seq(Msg) /\ Len(Tail(m_mailbox)) = Len(m_mailbox) - 1
          /\ Head(m_mailbox) = m_mailbox[1] /\ Len(m_mailbox) # 0
      BY <1>0, <2>4, HeadTailProperties
    <3>3. /\ HalfOf(m_mailbox[Len(m_mailbox)]) = Other(half)
          /\ Len(m_mailbox) = 2 => HalfOf(m_mailbox[1]) = half
          /\ Other(half) # half
      BY <1>0, <2>4 DEF IInv, QueueIsRecent, Other, Half
    <3>4. CASE Len(m_mailbox) = 1
      <4>1. Len(m_mailbox') = 0 /\ HalfOf(sending') # half'
        BY <2>1, <3>1, <3>2, <3>3, <3>4
      <4>2. Paced(sending)'
        BY <4>1 DEF Paced
      <4>3. m_mailbox' = <<>>
        BY <3>1, <3>2, <4>1, EmptySeq
      <4> QED
        BY <2>2, <4>2, <4>3 DEF Pace, InStep, Prompt
    <3>5. CASE Len(m_mailbox) = 2
      <4>1. Len(m_mailbox') = 1 /\ HalfOf(sending') = half'
        BY <2>1, <3>1, <3>2, <3>3, <3>5
      <4>2. Paced(sending)'
        BY <4>1 DEF Paced
      <4>3. ~Deadline
        BY <2>4, <3>5 DEF Pace, Prompt
      <4> QED
        BY <2>2, <4>2, <4>3 DEF Pace, InStep, Prompt
    <3> QED
      BY <1>0, <3>2, <3>4, <3>5
  <2> QED
    BY <2>3, <2>4
<1>2. CASE MonitorSend
  <2>1. /\ monitor = "send" /\ monitor' = "fetch" /\ message' = sending
        /\ UNCHANGED <<sending, m_mailbox, half, m_entry>>
    BY <1>2, MonitorRunsAlone DEF MonitorSend, algoVars, driverVars
  <2>2. m_entry' # "null" \/ Deadline => Paced(message)'
    BY <2>1 DEF Pace, InStep, Paced
  <2>3. InStep'
    BY <2>1, <2>2 DEF InStep
  <2>4. Prompt'
    BY <2>1 DEF Pace, Prompt
  <2> QED
    BY <2>3, <2>4 DEF Pace
<1> QED
    BY <1>1, <1>2 DEF Monitor

\* The runner and the algorithm keep to the request at hand.
LEMMA RunnerPace == IInv /\ Pace /\ (RunnerFirmware \/ Algorithm) => Pace'
<1> SUFFICES ASSUME IInv, Pace, RunnerFirmware \/ Algorithm PROVE Pace'
    OBVIOUS
<1> USE DEF algoVars, driverVars
<1>1. ASSUME Running("runner")
      PROVE  monitor = "fetch" /\ (Deadline => m_mailbox = <<>>)
    BY <1>1, BusyRunner DEF Pace, Prompt
<1>2. ASSUME NEW from, NEW to, RunnerGoes(from, to), from \notin {"svc0", "wtmsg"}
      PROVE  Pace'
  <2>1. /\ Working /\ monitor = "fetch" /\ (Deadline => m_mailbox = <<>>)
        /\ UNCHANGED <<m_mailbox, half, sending, message, m_entry, monitor>>
    BY <1>1, <1>2 DEF RunnerGoes, Working
  <2> QED
    BY <2>1, SamePace
<1>3. CASE RunnerSvc0
  <2>1. /\ runner' = "wtmsg" /\ (Deadline => m_mailbox = <<>>)
        /\ UNCHANGED <<m_mailbox, half, sending, message, m_entry, monitor>>
    BY <1>1, <1>3 DEF RunnerSvc0
  <2>2. ~Working'
    BY <2>1 DEF Working
  <2> QED
    BY <2>1, <2>2, SamePace
<1>4. CASE RunnerPick \/ RunnerStartTimer \/ RunnerStopTimer \/ RunnerTest \/ RunnerStore
    BY <1>2, <1>4 DEF RunnerPick, RunnerStartTimer, RunnerStopTimer, RunnerTest, RunnerStore
<1>5. CASE AlgoReturn \/ AlgoStrays \/ AlgoSyscall \/ SyscallReturn
    BY <1>2, <1>5 DEF AlgoReturn, AlgoStrays, AlgoSyscall, SyscallReturn
<1>6. CASE MemManage_Handler
  <2>1. /\ Working /\ m_entry' = "null" /\ (Deadline => m_mailbox = <<>>)
        /\ UNCHANGED <<m_mailbox, half, sending, message, monitor>>
    BY <1>1, <1>6 DEF MemManage_Handler, abort, Working
  <2> QED
    BY <2>1, SamePace
<1>7. CASE HardFault_Handler
  <2>1. /\ m_entry' # "null" => m_entry # "null"
        /\ UNCHANGED <<m_mailbox, half, sending, message, monitor, runner>>
    BY <1>7 DEF HardFault_Handler, pipeVars
  <2>2. Working' <=> Working
    BY <2>1 DEF Working
  <2> QED
    BY <2>1, <2>2, SamePace
<1> QED
    BY <1>3, <1>4, <1>5, <1>6, <1>7 DEF RunnerFirmware, Algorithm

\* A request posted: the DMA goes on to the other half, and one more is queued.
LEMMA PostPace ==
    ASSUME IInv, Pace, NEW msg \in Msg, chMBPostI(msg), Len(m_mailbox) <= 1,
           half' = Other(half), UNCHANGED <<m_entry, runner, sending, message>>,
           Deadline => runner = "wtmsg" /\ monitor = "wtmb"
    PROVE  Pace'
<1>a. m_mailbox \in Seq(Msg) /\ half \in Half
    BY DEF IInv, TypeOK
<1>0. m_mailbox \in Seq(Msg) /\ Len(m_mailbox) \in {0, 1} /\ half \in Half
    BY <1>a
<1>1. /\ m_mailbox' = Append(m_mailbox, msg)
      /\ monitor' = IF monitor = "wtmb" THEN "fetch" ELSE monitor
    BY <1>0 DEF chMBPostI
<1>2. Len(m_mailbox') = Len(m_mailbox) + 1
    BY <1>0, <1>1, ShortAppend
<1>3. Len(m_mailbox') = 1 <=> ~(Len(m_mailbox) = 1)
  <2>1. /\ Len(m_mailbox) = 0 => Len(m_mailbox') = 1
        /\ Len(m_mailbox) = 1 => Len(m_mailbox') = 2
    BY <1>2
  <2> QED
    BY <1>0, <2>1
<1>4. ASSUME NEW m PROVE HalfOf(m) \in Half
    BY DEF HalfOf, Half
<1>5. ASSUME NEW m PROVE HalfOf(m) = Other(half) <=> ~(HalfOf(m) = half)
    BY <1>0, <1>4 DEF Other, Half
<1>6. Paced(sending) => Paced(sending)'
    BY <1>3, <1>5, Zenon DEF Paced
<1>7. Paced(message) => Paced(message)'
    BY <1>3, <1>5, Zenon DEF Paced
<1>8. Working' <=> Working
    BY DEF Working
<1>9. monitor' = "send" => monitor = "send"
    BY <1>1
<1>10. InStep'
    BY <1>6, <1>7, <1>8, <1>9, Zenon DEF Pace, InStep
<1>11. Prompt'
  <2>1. ASSUME Deadline PROVE m_mailbox = <<>>
    BY <2>1 DEF IInv, Handover
  <2>2. ASSUME Deadline PROVE Len(m_mailbox') = 1 /\ runner' = "wtmsg" /\ monitor' = "fetch"
    BY <1>1, <1>2, <2>1, <2>2, EmptySeq
  <2> QED
    BY <2>2 DEF Prompt
<1> QED
    BY <1>10, <1>11 DEF Pace

\* The interrupt, which an algorithm that meets its deadline makes wait.
LEMMA InterruptPace == IInv /\ Pace /\ AdcInterrupt => Pace'
<1> SUFFICES ASSUME IInv, Pace, AdcInterrupt PROVE Pace'
    OBVIOUS
<1>1. /\ half' = Other(half) /\ UNCHANGED <<sending, message>>
      /\ Deadline => runner = "wtmsg" /\ monitor = "wtmb"
    BY DEF AdcInterrupt
<1>2. /\ (IF half = "first" THEN MSG_CONVFIRST ELSE MSG_CONVSECOND) \in Msg
      /\ (IF half = "first" THEN MSG_CONVFIRST_MEASURE
                            ELSE MSG_CONVSECOND_MEASURE) \in Msg
    BY DEF Msg, MSG_CONVFIRST, MSG_CONVSECOND, MSG_CONVFIRST_MEASURE,
           MSG_CONVSECOND_MEASURE
<1>3. CASE Len(m_mailbox) > 1 /\ chMBReset /\ abort(FALSE)
  <2>1. ~Deadline
    BY <1>1, <1>3, EmptySeq DEF IInv, Handover
  <2>2. m_entry' = "null"
    BY <1>3 DEF abort
  <2> QED
    BY <2>1, <2>2 DEF Pace, InStep, Prompt
<1>4. CASE /\ Len(m_mailbox) <= 1
           /\ chMBPostI(IF half = "first" THEN MSG_CONVFIRST ELSE MSG_CONVSECOND)
           /\ UNCHANGED <<m_entry, em, hung, runner>>
    BY <1>1, <1>2, <1>4, PostPace
<1>5. CASE m_operation = "adcReadHandlerMeasure" /\ adcReadHandlerMeasure(half)
  <2>1. Len(m_mailbox) <= 1
    BY <1>5, EmptySeq DEF IInv, MeasureMeetsQuietPipeline, Quiet
  <2> QED
    BY <1>1, <1>2, <1>5, <2>1, PostPace DEF adcReadHandlerMeasure
<1> QED
    BY <1>3, <1>4, <1>5 DEF AdcInterrupt, adcReadHandler

\* The pace is kept: commands find the pipeline quiet.
LEMMA PaceStep == IInv /\ Pace /\ [Next]_vars => Pace'
<1> SUFFICES ASSUME IInv, Pace, [Next]_vars PROVE Pace'
    OBVIOUS
<1>1. CASE Command \/ CommContinues
  <2>1. \E from, to : CommGoes(from, to)
    BY <1>1, Zenon
    DEF Command, CommContinues, startConversion, stopConversion,
        measureConversion, loadAlgorithm, unloadAlgorithm, readStatus,
        startGenerator, stopGenerator, startADC, startADCClock, startDAC,
        startDACClock, stopDAC, stopDACClock, stopADCClock, stopADC,
        clearOperation, setIdle, readAlgorithm, loadBegin, loadEnd,
        startGeneratorClock, stopGeneratorClock
  <2> QED
    BY <2>1, CommKeepsPipeline, QuietPace
<1>2. CASE UNCHANGED vars
  <2>1. UNCHANGED <<m_mailbox, half, sending, message, m_entry, monitor, runner>>
    BY <1>2 DEF vars
  <2>2. Working' <=> Working
    BY <2>1 DEF Working
  <2> QED
    BY <2>1, <2>2, SamePace
<1> QED
    BY <1>1, <1>2, MonitorPace, RunnerPace, InterruptPace DEF Next

\* The invariant and the pace together.
THEOREM PaceInvariance == Spec => [](IInv /\ Pace)
<1>1. Init => Pace
    BY DEF Init, Pace, InStep, Prompt, Working
<1> QED
    BY <1>1, InitIInv, Inductive, PaceStep, PTL DEF Spec

\* The DMA writes to the half the runner works on just while one request is
\* queued: what adcReadHandler's test, which asks for two, lets pass.
THEOREM PaceSafe == Spec => []StaleWhileOneQueued
<1>1. IInv /\ Pace => StaleWhileOneQueued
    BY Zenon DEF Pace, InStep, Paced, Working, StaleWhileOneQueued
<1> QED
    BY <1>1, PaceInvariance, PTL

\* An algorithm that is done before the next half is full reads no half that is
\* being written and is not aborted, whatever else it does.
THEOREM DeadlineSafe == Spec => []DeadlineSuffices
<1>1. ASSUME IInv, Pace PROVE DeadlineSuffices
  <2> SUFFICES ASSUME Deadline PROVE InputIsStable /\ Len(m_mailbox) <= 1
    BY Zenon DEF DeadlineSuffices
  <2>1. Len(<<>>) = 0
    OBVIOUS
  <2>2. Len(m_mailbox) <= 1
    <3>1. m_mailbox = <<>> \/ Len(m_mailbox) = 1
      BY <1>1, Zenon DEF Pace, Prompt
    <3> QED
      BY <2>1, <3>1
  <2>3. ASSUME Working PROVE HalfOf(message) # half
    <3>1. m_mailbox = <<>>
      BY <1>1, <2>3 DEF Pace, Prompt, Working
    <3>2. ~(Len(m_mailbox) = 1)
      BY <2>1, <3>1
    <3> QED
      BY <1>1, <2>3, <3>2, Zenon DEF Pace, InStep, Paced
  <2> QED
    BY <2>2, <2>3, Zenon DEF InputIsStable, Working
<1> QED
    BY <1>1, PaceInvariance, PTL

=============================================================================
