------------------------------ MODULE Streams -------------------------------
(***************************************************************************)
(* The sample buffers (src/source/samplebuffer.cpp) as the host streams    *)
(* them: the input and the output half by half out of the device while a   *)
(* conversion fills them ('t', 's'), the generator's half by half into it  *)
(* while the DAC plays it ('D').  The communication thread makes these     *)
(* transfers piece by piece, at the host's pace; the ADC and DAC interrupts*)
(* and the runner come between any two of its steps.                       *)
(*                                                                         *)
(* The pipeline between the interrupt and the runner is the abstract one of*)
(* Pipeline.tla, which Conversion.tla implements.  The communication thread*)
(* has the lowest priority of the threads that touch the buffers and runs  *)
(* only while the pipeline has nothing to do.                              *)
(***************************************************************************)
EXTENDS Integers, Sequences

CONSTANTS
    MAX_SAMPLE_BUFFER_SIZE,
    COPY,     \* samples modify and midmodify copy at a time (16)
    CHUNK,    \* samples sent before an acknowledgement is awaited (256)
    Sizes     \* the sizes of a half the host asks for

ASSUME StreamsAssumption ==
    /\ COPY \in Nat \ {0} /\ CHUNK \in Nat \ {0}
    /\ MAX_SAMPLE_BUFFER_SIZE \in Nat
    /\ MAX_SAMPLE_BUFFER_SIZE % (2 * COPY) = 0 /\ MAX_SAMPLE_BUFFER_SIZE > 0
    /\ Sizes \subseteq Nat \ {0}

VARIABLES
    converting,  \* the ADC is on
    filling,     \* the half of Samples::In the DMA is writing
    todo, doing, \* the halves the pipeline has to process and is processing
    loaded,      \* an algorithm is loaded
    m_size,      \* of Samples::In and Samples::Out
    m_modified,  \* of each of them: an offset into the buffer, or Null
    age,         \* ADC interrupts since the marked half was filled, up to Old
    comm,        \* where the communication thread is
    tx,          \* the transfer it makes to the host (see NoTransfer)
    playing,     \* the half of Samples::Generator the DAC plays, or Null
    dacIsDone,   \* the half it has played, or Null
    more,        \* what sigGenWantsMore returned
    turns        \* the DAC has gone to the other half since more was read

pipeVars == <<converting, filling, todo, doing, loaded>>
markVars == <<m_modified, age>>
genVars == <<playing, dacIsDone, more, turns>>
vars == <<converting, filling, todo, doing, loaded, m_size, m_modified, age,
          comm, tx, playing, dacIsDone, more, turns>>

Null == -1
Old == 2
Buffer == {"In", "Out"}
Half == {0, 1}
Other(h) == 1 - h
HalfOf(h) == h

P == INSTANCE Pipeline WITH Request <- Half, None <- Null, half <- filling,
                            pending <- todo, working <- doing

-----------------------------------------------------------------------------
(* SampleBuffer.                                                           *)

HalfSize == m_size \div 2

setSize(n) == IF n < MAX_SAMPLE_BUFFER_SIZE THEN n ELSE MAX_SAMPLE_BUFFER_SIZE

\* data() and middata().
data(h) == h * HalfSize

\* Mutant: one more group than the rounded size.
Extent_past(n) == COPY * (1 + ((n + COPY - 1) \div COPY))

\* What modify and midmodify write for n samples: n rounded up to whole
\* groups, and one group at least.
Extent(n) == COPY * (IF n = 0 THEN 1 ELSE (n + COPY - 1) \div COPY)

\* The offsets of Samples::In the DMA writes, and of Samples::Out the runner.
InHalf(h) == data(h) .. data(h) + HalfSize - 1
OutStore(h) == data(h) .. data(h) + Extent(HalfSize) - 1

Later(n) == IF n < Old THEN n + 1 ELSE Old

\* The variables of readConversionResults and readConversionInput, the age of
\* the half being sent, the halves of Samples::Out stored since modified() was
\* called, and whether a sample was sent after it had been overwritten.
NoTransfer == [buffer |-> "In", samps |-> Null, offset |-> 0,
               since |-> Old, stored |-> {}, torn |-> FALSE]

Init ==
    /\ converting = FALSE /\ filling = 0
    /\ todo = <<>> /\ doing = Null /\ loaded = FALSE
    /\ m_size = MAX_SAMPLE_BUFFER_SIZE
    /\ m_modified = [b \in Buffer |-> Null]
    /\ age = [b \in Buffer |-> Old]
    /\ comm = "cmd"
    /\ tx = NoTransfer
    /\ playing = Null /\ dacIsDone = Null /\ more = Null /\ turns = FALSE

-----------------------------------------------------------------------------
(* The interrupts, and the runner.                                         *)

\* Mutant: the half the DMA goes on to is marked.
AdcHalf_next ==
    /\ converting
    /\ P!Accept
    /\ m_modified' = [m_modified EXCEPT !["In"] = data(Other(filling))]
    /\ age' = [In |-> 0, Out |-> Later(age["Out"])]
    /\ tx' = [tx EXCEPT !.since = Later(@)]
    /\ UNCHANGED <<converting, m_size, comm, genVars>>

\* A half of the input is full: adcReadHandler marks it and makes it a request;
\* an overrun marks nothing.
AdcHalf ==
    /\ converting
    /\ \/ /\ P!Accept
          /\ m_modified' = [m_modified EXCEPT !["In"] = data(filling)]
          /\ age' = [In |-> 0, Out |-> Later(age["Out"])]
       \/ /\ P!Overrun
          /\ age' = [b \in Buffer |-> Later(age[b])]
          /\ UNCHANGED m_modified
    /\ tx' = [tx EXCEPT !.since = Later(@)]
    /\ UNCHANGED <<converting, m_size, comm, genVars>>

RunnerBegins ==
    /\ P!Begin
    /\ UNCHANGED <<converting, m_size, markVars, comm, tx, genVars>>

\* Mutant: the mark is the beginning of the buffer, whichever half it was.
RunnerEnds_first ==
    /\ P!End
    /\ m_modified' = [m_modified EXCEPT !["Out"] = data(0)]
    /\ age' = [age EXCEPT !["Out"] = IF doing = filling THEN 1 ELSE 0]
    /\ tx' = IF tx.samps = Null THEN tx
             ELSE [tx EXCEPT !.stored = @ \union {doing}]
    /\ UNCHANGED <<converting, m_size, comm, genVars>>

\* The runner marks and stores the half of the output, or was aborted.  When
\* it is late the DMA has come back to the half it was given.
RunnerEnds ==
    /\ P!End
    /\ \/ /\ m_modified' = [m_modified EXCEPT !["Out"] = data(doing)]
          /\ age' = [age EXCEPT !["Out"] = IF doing = filling THEN 1 ELSE 0]
          /\ tx' = IF tx.samps = Null THEN tx
                   ELSE [tx EXCEPT !.stored = @ \union {doing}]
       \/ UNCHANGED <<markVars, tx>>
    /\ UNCHANGED <<converting, m_size, comm, genVars>>

\* Mutant: the halves are counted on.
DacHalf_counts ==
    /\ playing # Null
    /\ dacIsDone' = playing
    /\ playing' = playing + 1
    /\ turns' = (more # Null)
    /\ UNCHANGED <<pipeVars, m_size, markVars, comm, tx, more>>

\* The DAC driver's callback (dac.cpp): a half has been played.
DacHalf ==
    /\ playing # Null
    /\ dacIsDone' = playing
    /\ playing' = Other(playing)
    /\ turns' = (more # Null)
    /\ UNCHANGED <<pipeVars, m_size, markVars, comm, tx, more>>

-----------------------------------------------------------------------------
(* The communication thread.                                               *)

\* The communication thread has the processor and goes from one step to the
\* next.
CommGoes(from, to) ==
    /\ todo = <<>> /\ doing = Null
    /\ comm = from
    /\ comm' = to

\* The marks stay, but what they point to is as old as can be.
MarksOld == age' = [b \in Buffer |-> Old] /\ UNCHANGED m_modified

\* 'B'.
setBufferSize(n) ==
    /\ CommGoes("cmd", "cmd")
    /\ ~converting
    /\ n * 2 <= MAX_SAMPLE_BUFFER_SIZE
    /\ m_size' = setSize(n * 2)
    /\ MarksOld
    /\ UNCHANGED <<pipeVars, tx, genVars>>

\* 'E' and 'e'; a file is loaded only while no conversion is on.
loadAlgorithm ==
    /\ CommGoes("cmd", "cmd")
    /\ P!Load
    /\ ~converting \/ ~loaded'
    /\ UNCHANGED <<converting, m_size, markVars, tx, genVars>>

\* 'R': Samples::Out.clear, ADC::start.  The marks are not cleared.
startConversion ==
    /\ CommGoes("cmd", "cmd")
    /\ ~converting
    /\ converting' = TRUE
    /\ P!Restart /\ filling' = 0
    /\ MarksOld
    /\ UNCHANGED <<m_size, tx, genVars>>

\* 'S'.
stopConversion ==
    /\ CommGoes("cmd", "cmd")
    /\ converting
    /\ converting' = FALSE
    /\ UNCHANGED <<filling, todo, doing, loaded, m_size, markVars, tx, genVars>>

\* 's' and 't': modified() reads the mark and then clears it.
readConversion(b) ==
    /\ CommGoes("cmd", "clear")
    /\ tx' = [NoTransfer EXCEPT !.buffer = b, !.samps = m_modified[b],
                               !.since = age[b]]
    /\ UNCHANGED <<pipeVars, m_size, markVars, genVars>>

\* An unmarked buffer is answered with a size of 0.
clearModified ==
    /\ CommGoes("clear", IF tx.samps = Null THEN "cmd" ELSE "send")
    /\ m_modified' = [m_modified EXCEPT ![tx.buffer] = Null]
    /\ age' = [age EXCEPT ![tx.buffer] = Old]
    /\ UNCHANGED <<pipeVars, m_size, tx, genVars>>

\* The sample at samps + offset may have changed since it was marked.
Overwritten ==
    LET i == tx.samps + tx.offset
    IN  IF tx.buffer = "In"
          THEN converting /\ i \in InHalf(filling)
          ELSE \E h \in tx.stored : i \in OutStore(h)

\* A chunk ends after CHUNK samples, the last one where the half does.
ChunkEnds(n) == n % CHUNK = 0 \/ n = HalfSize

sendSample ==
    /\ CommGoes("send", IF ChunkEnds(tx.offset + 1) THEN "ack" ELSE "send")
    /\ tx' = [tx EXCEPT !.offset = @ + 1, !.torn = @ \/ Overwritten]
    /\ UNCHANGED <<pipeVars, m_size, markVars, genVars>>

\* The host acknowledges the chunk; after the last one the transfer is over.
readAck ==
    /\ IF tx.offset = HalfSize
         THEN CommGoes("ack", "cmd") /\ tx' = NoTransfer
         ELSE CommGoes("ack", "send") /\ UNCHANGED tx
    /\ UNCHANGED <<pipeVars, m_size, markVars, genVars>>

\* Mutant: a notification left from the previous run stays.
startGenerator_noReset ==
    /\ CommGoes("cmd", "cmd")
    /\ playing = Null
    /\ playing' = 0
    /\ UNCHANGED <<pipeVars, m_size, markVars, tx, dacIsDone, more, turns>>

\* 'W' for a stopped generator.
startGenerator ==
    /\ CommGoes("cmd", "cmd")
    /\ playing = Null
    /\ dacIsDone' = Null
    /\ playing' = 0
    /\ UNCHANGED <<pipeVars, m_size, markVars, tx, more, turns>>

\* 'w'.
stopGenerator ==
    /\ CommGoes("cmd", "cmd")
    /\ playing # Null
    /\ playing' = Null
    /\ UNCHANGED <<pipeVars, m_size, markVars, tx, dacIsDone, more, turns>>

\* 'D' for a running generator.  sigGenWantsMore tests dacIsDone, reads it and
\* clears it in three steps; the host is answered 0, or 1 and sends a half.
updateGenerator ==
    /\ CommGoes("cmd", IF dacIsDone = Null THEN "cmd" ELSE "more")
    /\ playing # Null
    /\ UNCHANGED <<pipeVars, m_size, markVars, tx, genVars>>

readDone ==
    /\ CommGoes("more", "done")
    /\ more' = dacIsDone
    /\ turns' = FALSE
    /\ UNCHANGED <<pipeVars, m_size, markVars, tx, playing, dacIsDone>>

clearDone ==
    /\ CommGoes("done", "refill")
    /\ dacIsDone' = Null
    /\ UNCHANGED <<pipeVars, m_size, markVars, tx, playing, more, turns>>

\* The half has been received; until then its samples are being written.
refillEnd ==
    /\ CommGoes("refill", "cmd")
    /\ more' = Null
    /\ turns' = FALSE
    /\ UNCHANGED <<pipeVars, m_size, markVars, tx, playing, dacIsDone>>

Next ==
    \/ AdcHalf \/ RunnerBegins \/ RunnerEnds \/ DacHalf
    \/ \E n \in Sizes : setBufferSize(n)
    \/ loadAlgorithm \/ startConversion \/ stopConversion
    \/ \E b \in Buffer : readConversion(b)
    \/ clearModified \/ sendSample \/ readAck
    \/ startGenerator \/ stopGenerator
    \/ updateGenerator \/ readDone \/ clearDone \/ refillEnd

Spec == Init /\ [][Next]_vars

-----------------------------------------------------------------------------
Offsets == 0 .. MAX_SAMPLE_BUFFER_SIZE - 1

\* Types; a mark is an offset into its buffer.
TypeOK ==
    /\ converting \in BOOLEAN /\ filling \in Half
    /\ todo \in Seq(Half) /\ Len(todo) <= P!Room /\ doing \in Half \union {Null}
    /\ loaded \in BOOLEAN
    /\ m_size \in 1 .. MAX_SAMPLE_BUFFER_SIZE
    /\ m_modified \in [Buffer -> Offsets \union {Null}]
    /\ age \in [Buffer -> 0 .. Old]
    /\ comm \in {"cmd", "clear", "send", "ack", "more", "done", "refill"}
    /\ tx \in [buffer : Buffer, samps : Offsets \union {Null},
              offset : 0 .. MAX_SAMPLE_BUFFER_SIZE, since : 0 .. Old,
              stored : SUBSET Half, torn : BOOLEAN]
    /\ playing \in Half \union {Null} /\ dacIsDone \in Half \union {Null}
    /\ more \in Half \union {Null} /\ turns \in BOOLEAN

\* Neither the rounding of the copies nor a mark set before the buffers were
\* resized takes the firmware past the end of a sample buffer, although
\* nothing tests for it.
BuffersInBounds ==
    /\ OutStore(1) \subseteq Offsets
    /\ comm = "send" => tx.samps + tx.offset \in Offsets

\* The host has the time of one half to read an input half it is told of: what
\* it gets has been overwritten only if another half was filled since.
InputOutlivesHalf == tx.torn /\ tx.buffer = "In" => tx.since > 0

\* For the output it has the time of two, except that the copy of a first half
\* whose size is no multiple of 16 runs over the beginning of the second.  They
\* are counted from when the runner stored it; of one it stored late, with its own
\* input being written again, the first is already over.
OutputOutlivesTwoHalves ==
    tx.torn /\ tx.buffer = "Out" =>
        \/ tx.since > 1
        \/ tx.since = 1 /\ tx.samps > 0 /\ HalfSize % COPY # 0

\* The samples the host streams to the generator go into the half that is not
\* playing, unless the DAC has turned to it since it was chosen.
RefillMissesPlaying ==
    comm \in {"done", "refill"} /\ playing = more => turns

=============================================================================
