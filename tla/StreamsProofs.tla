--------------------------- MODULE StreamsProofs ----------------------------
(***************************************************************************)
(* Proofs about Streams: no access leaves a sample buffer, and a refill    *)
(* goes into the half that is not playing.                                 *)
(***************************************************************************)
EXTENDS Streams, TLAPS

-----------------------------------------------------------------------------
(* The generator.                                                          *)

\* While the generator plays, a notification names the other half; the half
\* being refilled is that half until the DAC turns.
GenInv ==
    /\ playing \in Half \union {Null}
    /\ dacIsDone \in Half \union {Null}
    /\ more \in Half \union {Null}
    /\ turns \in BOOLEAN
    /\ playing # Null /\ dacIsDone # Null => dacIsDone = Other(playing)
    /\ comm \in {"more", "done", "refill"} => playing # Null
    /\ comm = "more" => dacIsDone # Null
    /\ comm \in {"done", "refill"} =>
           more # Null /\ (~turns => playing = Other(more))
    /\ comm \notin {"done", "refill"} => more = Null

\* The mutual exclusion of the generator's halves is kept by every step.
LEMMA GenStep == GenInv /\ [Next]_vars => GenInv'
<1> SUFFICES ASSUME GenInv, [Next]_vars PROVE GenInv'
  OBVIOUS
<1> USE DEF GenInv, Half, Null, Other
<1>1. CASE UNCHANGED vars
  BY <1>1 DEF vars
<1>2. CASE AdcHalf \/ RunnerBegins \/ RunnerEnds
  BY <1>2 DEF AdcHalf, RunnerBegins, RunnerEnds, genVars
<1>3. CASE DacHalf
  <2>1. playing # Null /\ dacIsDone' = playing /\ playing' = Other(playing)
    BY <1>3 DEF DacHalf
  <2>2. UNCHANGED <<comm, more>>
    BY <1>3 DEF DacHalf
  <2>3. turns' \in BOOLEAN /\ (more # Null => turns')
    BY <1>3, Zenon DEF DacHalf
  <2> QED
    BY <2>1, <2>2, <2>3
<1>4. CASE \E n \in Sizes : setBufferSize(n)
  BY <1>4 DEF setBufferSize, CommGoes, genVars
<1>5. CASE loadAlgorithm \/ startConversion \/ stopConversion
  BY <1>5 DEF loadAlgorithm, startConversion, stopConversion, CommGoes, genVars
<1>6. CASE \E b \in Buffer : readConversion(b)
  BY <1>6 DEF readConversion, CommGoes, genVars
<1>7. CASE clearModified \/ sendSample \/ readAck
  BY <1>7 DEF clearModified, sendSample, readAck, CommGoes, genVars
<1>8. CASE startGenerator \/ stopGenerator
  BY <1>8 DEF startGenerator, stopGenerator, CommGoes
<1>9. CASE updateGenerator
  BY <1>9 DEF updateGenerator, CommGoes, genVars
<1>10. CASE readDone
  <2>1. comm = "more" /\ comm' = "done" /\ more' = dacIsDone /\ turns' = FALSE
    BY <1>10 DEF readDone, CommGoes
  <2>2. UNCHANGED <<playing, dacIsDone>>
    BY <1>10 DEF readDone
  <2>3. dacIsDone # Null /\ playing = Other(dacIsDone) /\ playing # Null
    BY <2>1
  <2>4. more' # Null /\ playing' = Other(more') /\ dacIsDone' = Other(playing')
    BY <2>1, <2>2, <2>3
  <2> QED
    BY <2>1, <2>2, <2>3, <2>4
<1>11. CASE clearDone
  <2>1. comm = "done" /\ comm' = "refill" /\ dacIsDone' = Null
    BY <1>11 DEF clearDone, CommGoes
  <2>2. UNCHANGED <<playing, more, turns>>
    BY <1>11 DEF clearDone
  <2> QED
    BY <2>1, <2>2
<1>12. CASE refillEnd
  <2>1. comm = "refill" /\ comm' = "cmd" /\ more' = Null /\ turns' = FALSE
    BY <1>12 DEF refillEnd, CommGoes
  <2>2. UNCHANGED <<playing, dacIsDone>>
    BY <1>12 DEF refillEnd
  <2> QED
    BY <2>1, <2>2
<1> QED
  BY <1>1, <1>2, <1>3, <1>4, <1>5, <1>6, <1>7, <1>8, <1>9, <1>10, <1>11, <1>12
  DEF Next

\* The samples streamed to the generator never go into the half being played,
\* unless the DAC turned to it after sigGenWantsMore chose it.
THEOREM RefillSafe == Spec => []RefillMissesPlaying
<1>1. Init => GenInv
  BY DEF Init, GenInv, Half, Null
<1>2. GenInv => RefillMissesPlaying
  BY DEF GenInv, RefillMissesPlaying, Half, Null, Other
<1> QED
  BY <1>1, <1>2, GenStep, PTL DEF Spec

-----------------------------------------------------------------------------
(* The sample buffers.                                                     *)

\* A mark lies in the first half of the memory of a buffer, or right after it.
Marks == 0 .. MAX_SAMPLE_BUFFER_SIZE \div 2

Transfer == [buffer : Buffer, samps : Marks \union {Null}, offset : Nat,
             since : 0 .. Old, stored : SUBSET Half, torn : BOOLEAN]

PipeInv ==
    /\ converting \in BOOLEAN /\ filling \in Half /\ loaded \in BOOLEAN
    /\ doing \in Half \union {Null}
    /\ todo \in Seq(Half) /\ Len(todo) <= P!Room

\* A mark is the beginning of a half; a transfer is within the half's size.
BufInv ==
    /\ m_size \in Nat /\ 1 < m_size /\ m_size <= MAX_SAMPLE_BUFFER_SIZE
    /\ m_modified \in [Buffer -> Marks \union {Null}]
    /\ age \in [Buffer -> 0 .. Old]
    /\ tx \in Transfer
    /\ comm \in {"cmd", "clear", "send", "ack", "more", "done", "refill"}
    /\ comm \notin {"send", "ack"} => tx.offset = 0
    /\ comm = "send" => tx.samps # Null /\ tx.offset < HalfSize
    /\ comm = "ack" => tx.samps # Null /\ tx.offset <= HalfSize

(* One fact about each part of the arithmetic.                             *)

\* What StreamsAssumption says of the sizes, in the form the arithmetic uses.
LEMMA Constants ==
    /\ MAX_SAMPLE_BUFFER_SIZE \in Nat /\ COPY \in Nat \ {0}
    /\ \E k \in Nat : MAX_SAMPLE_BUFFER_SIZE = (2 * COPY) * k
<1>1. MAX_SAMPLE_BUFFER_SIZE \in Nat /\ COPY \in Nat \ {0}
  BY StreamsAssumption
<1>2. 2 * COPY \in Nat \ {0}
  BY <1>1
<1>3. MAX_SAMPLE_BUFFER_SIZE % (2 * COPY) = 0
  BY StreamsAssumption
<1>4. ASSUME NEW m \in Nat, NEW c \in Nat \ {0}, m % c = 0
      PROVE  \E k \in Nat : m = c * k
  <2>1. m = c * (m \div c) + (m % c) /\ m \div c \in Nat
    BY <1>4
  <2> QED
    BY <2>1, <1>4
<1> QED
  BY <1>1, <1>2, <1>3, <1>4

\* Rounding up to groups of c does not pass a multiple of c.
LEMMA Rounding ==
    ASSUME NEW n \in Nat, NEW c \in Nat \ {0}, NEW k \in Nat, n <= c * k
    PROVE  c * ((n + c - 1) \div c) <= c * k
<1> DEFINE q == (n + c - 1) \div c
<1>1. q \in Nat /\ c * q <= n + c - 1
  OBVIOUS
<1> HIDE DEF q
<1>2. c * q < c * (k + 1)
  BY <1>1
<1>3. q < k + 1
  BY <1>1, <1>2
<1>4. q <= k
  BY <1>1, <1>3
<1>5. c * q <= c * k
  BY <1>1, <1>4
<1> QED
  BY <1>5 DEF q

\* What the size of a half can be, whatever sizes 'B' has set.
LEMMA Halves ==
    ASSUME BufInv
    PROVE  /\ HalfSize \in Nat \ {0}
           /\ HalfSize <= MAX_SAMPLE_BUFFER_SIZE \div 2
           /\ MAX_SAMPLE_BUFFER_SIZE \div 2 \in Nat
           /\ 2 * (MAX_SAMPLE_BUFFER_SIZE \div 2) = MAX_SAMPLE_BUFFER_SIZE
           /\ \A h \in Half : data(h) \in Marks
<1>1. MAX_SAMPLE_BUFFER_SIZE \in Nat /\ COPY \in Nat
  BY Constants
<1>2. PICK k \in Nat : MAX_SAMPLE_BUFFER_SIZE = (2 * COPY) * k
  BY Constants
<1>3. PICK c \in Nat : MAX_SAMPLE_BUFFER_SIZE = 2 * c
  BY <1>1, <1>2
<1>4. MAX_SAMPLE_BUFFER_SIZE \div 2 = c
  BY <1>3
<1>5. m_size \in Nat /\ 1 < m_size /\ m_size <= 2 * c
  BY <1>3 DEF BufInv
<1>6. HalfSize \in Nat \ {0} /\ HalfSize <= c
  BY <1>5 DEF HalfSize
<1>7. \A h \in Half : data(h) = 0 \/ data(h) = HalfSize
  BY <1>6 DEF Half, data
<1> QED
  BY <1>3, <1>4, <1>6, <1>7 DEF Marks

\* Neither the runner's copies nor the transfers leave the buffers.
LEMMA BufBounds == BufInv => BuffersInBounds
<1> SUFFICES ASSUME BufInv PROVE BuffersInBounds
  OBVIOUS
<1> DEFINE M == MAX_SAMPLE_BUFFER_SIZE \div 2
<1>1. M \in Nat /\ MAX_SAMPLE_BUFFER_SIZE = 2 * M /\ HalfSize \in Nat \ {0}
      /\ HalfSize <= M
  BY Halves
<1>2. MAX_SAMPLE_BUFFER_SIZE \in Nat /\ COPY \in Nat \ {0}
  BY Constants
<1>3. PICK k \in Nat : MAX_SAMPLE_BUFFER_SIZE = (2 * COPY) * k
  BY Constants
<1> HIDE DEF M
<1>4. M = COPY * k
  BY <1>1, <1>2, <1>3
<1>5. Extent(HalfSize) \in Int /\ Extent(HalfSize) <= M
  <2>1. HalfSize <= COPY * k
    BY <1>1, <1>4
  <2>2. COPY * ((HalfSize + COPY - 1) \div COPY) <= COPY * k
    BY <1>1, <1>2, <2>1, Rounding
  <2>3. (HalfSize + COPY - 1) \div COPY \in Int
    BY <1>1, <1>2
  <2>4. Extent(HalfSize) = COPY * ((HalfSize + COPY - 1) \div COPY)
    BY <1>1 DEF Extent
  <2> QED
    BY <1>2, <1>4, <2>2, <2>3, <2>4
<1>6. OutStore(1) \subseteq Offsets
  <2>1. data(1) = HalfSize
    BY <1>1 DEF data
  <2> QED
    BY <1>1, <1>2, <1>5, <2>1 DEF OutStore, Offsets
<1>7. ASSUME comm = "send" PROVE tx.samps + tx.offset \in Offsets
  <2>1. tx.samps \in 0 .. M /\ tx.offset \in Nat /\ tx.offset < HalfSize
    BY <1>7 DEF BufInv, Transfer, Marks, M, Null
  <2> QED
    BY <1>1, <1>2, <2>1 DEF Offsets
<1> QED
  BY <1>6, <1>7 DEF BuffersInBounds

-----------------------------------------------------------------------------
(* The steps.                                                              *)

\* The pipeline's actions, restarts and loads keep its types and its room.
LEMMA PipeStep == PipeInv /\ [Next]_vars => PipeInv'
<1> SUFFICES ASSUME PipeInv, [Next]_vars PROVE PipeInv'
  OBVIOUS
<1> USE DEF PipeInv, Half, Null, Other
<1>1. CASE UNCHANGED pipeVars
  BY <1>1 DEF pipeVars
<1>2. CASE AdcHalf
  <2>1. UNCHANGED converting
    BY <1>2 DEF AdcHalf
  <2>2. CASE P!Accept
    BY <2>1, <2>2 DEF P!Accept, P!Room, HalfOf
  <2>3. CASE P!Overrun
    <3>1. SubSeq(todo, 1, 1) \in Seq(Half) /\ Len(SubSeq(todo, 1, 1)) = 1
      <4>1. Len(todo) \in Nat /\ Len(todo) > 1 /\ todo \in Seq(Half)
        BY <2>3 DEF P!Overrun
      <4> QED
        BY <4>1
    <3>2. todo' = <<>> \/ todo' = SubSeq(todo, 1, 1)
      BY <2>3 DEF P!Overrun
    <3>3. todo' \in Seq(Half) /\ Len(todo') <= P!Room
      <4>1. <<>> \in Seq(Half) /\ Len(<<>>) = 0
        OBVIOUS
      <4>2. CASE todo' = <<>>
        BY <4>1, <4>2 DEF P!Room
      <4>3. CASE todo' = SubSeq(todo, 1, 1)
        BY <3>1, <4>3 DEF P!Room
      <4> QED
        BY <3>2, <4>2, <4>3
    <3>4. filling' \in Half /\ doing' \in Half \union {Null} /\ loaded' = FALSE
      BY <2>3 DEF P!Overrun
    <3> QED
      BY <2>1, <3>3, <3>4
  <2> QED
    BY <1>2, <2>2, <2>3 DEF AdcHalf
<1>3. CASE RunnerBegins
  BY <1>3 DEF RunnerBegins, P!Begin, P!Room
<1>4. CASE RunnerEnds
  BY <1>4 DEF RunnerEnds, P!End
<1>5. CASE loadAlgorithm
  <2>1. UNCHANGED <<converting, filling, todo, doing>>
    BY <1>5 DEF loadAlgorithm, P!Load
  <2>2. loaded' \in BOOLEAN
    BY <1>5, Zenon DEF loadAlgorithm, P!Load
  <2> QED
    BY <2>1, <2>2
<1>6. CASE startConversion
  BY <1>6 DEF startConversion, P!Restart
<1>7. CASE stopConversion
  BY <1>7 DEF stopConversion
<1>8. CASE \/ DacHalf \/ (\E n \in Sizes : setBufferSize(n))
           \/ (\E b \in Buffer : readConversion(b))
           \/ clearModified \/ sendSample \/ readAck
           \/ startGenerator \/ stopGenerator
           \/ updateGenerator \/ readDone \/ clearDone \/ refillEnd
  BY <1>1, <1>8, Zenon
  DEF DacHalf, setBufferSize, readConversion, clearModified, sendSample, readAck,
      startGenerator, stopGenerator, updateGenerator, readDone, clearDone,
      refillEnd
<1>9. CASE UNCHANGED vars
  BY <1>9 DEF vars
<1> QED
  BY <1>2, <1>3, <1>4, <1>5, <1>6, <1>7, <1>8, <1>9 DEF Next

\* Marks, resizes and transfers keep BufInv.
LEMMA BufStep == PipeInv /\ BufInv /\ [Next]_vars => BufInv'
<1> SUFFICES ASSUME PipeInv, BufInv, [Next]_vars PROVE BufInv'
  OBVIOUS
<1>1. /\ HalfSize \in Nat \ {0} /\ \A h \in Half : data(h) \in Marks
      /\ MAX_SAMPLE_BUFFER_SIZE \in Nat
  BY Halves, Constants
<1>2. \A n \in 0 .. Old : Later(n) \in 0 .. Old
  BY DEF Later, Old
<1>3. \A n \in 0 .. Old : [tx EXCEPT !.since = n] \in Transfer
  BY DEF BufInv, Transfer
<1>4. Null \notin Marks
  BY DEF Null, Marks
<1>5. CASE UNCHANGED <<m_size, markVars, comm, tx>>
  BY <1>5 DEF BufInv, HalfSize, markVars
<1>6. CASE AdcHalf
  <2>1. UNCHANGED <<m_size, comm>> /\ UNCHANGED HalfSize
    BY <1>6 DEF AdcHalf, HalfSize
  <2>2. tx' = [tx EXCEPT !.since = Later(tx.since)]
    BY <1>6 DEF AdcHalf
  <2>3. tx' \in Transfer /\ tx'.samps = tx.samps /\ tx'.offset = tx.offset
    BY <1>2, <1>3, <2>2 DEF BufInv, Transfer
  <2>4. age' \in [Buffer -> 0 .. Old]
    BY <1>2, <1>6 DEF AdcHalf, BufInv, Buffer, Old
  <2>5. m_modified' \in [Buffer -> Marks \union {Null}]
    BY <1>1, <1>6 DEF AdcHalf, BufInv, PipeInv
  <2> QED
    BY <2>1, <2>3, <2>4, <2>5 DEF BufInv
<1>7. CASE RunnerEnds
  <2>1. UNCHANGED <<m_size, comm>> /\ UNCHANGED HalfSize
    BY <1>7 DEF RunnerEnds, HalfSize
  <2>2. doing \in Half
    BY <1>7 DEF RunnerEnds, P!End, PipeInv
  <2>3. tx' = tx \/ tx' = [tx EXCEPT !.stored = tx.stored \union {doing}]
    BY <1>7 DEF RunnerEnds, markVars
  <2>4. tx' \in Transfer /\ tx'.samps = tx.samps /\ tx'.offset = tx.offset
    BY <2>2, <2>3 DEF BufInv, Transfer
  <2>5. age' \in [Buffer -> 0 .. Old]
    BY <1>7 DEF RunnerEnds, BufInv, Old, markVars
  <2>6. m_modified' \in [Buffer -> Marks \union {Null}]
    BY <1>1, <1>7, <2>2 DEF RunnerEnds, BufInv, markVars
  <2> QED
    BY <2>1, <2>4, <2>5, <2>6 DEF BufInv
<1>8. ASSUME NEW n \in Sizes, setBufferSize(n) PROVE BufInv'
  <2>1. comm = "cmd" /\ comm' = "cmd" /\ UNCHANGED <<m_modified, tx>>
    BY <1>8 DEF setBufferSize, CommGoes, MarksOld
  <2>2. age' \in [Buffer -> 0 .. Old]
    BY <1>8 DEF setBufferSize, MarksOld, Old
  <2>3. n \in Nat \ {0}
    BY StreamsAssumption
  <2>4. n * 2 <= MAX_SAMPLE_BUFFER_SIZE /\ m_size' = setSize(n * 2)
    BY <1>8 DEF setBufferSize
  <2>5. m_size' \in Nat /\ 1 < m_size' /\ m_size' <= MAX_SAMPLE_BUFFER_SIZE
    BY <1>1, <2>3, <2>4 DEF setSize
  <2> QED
    BY <2>1, <2>2, <2>5 DEF BufInv
<1>9. CASE startConversion
  <2>1. comm = "cmd" /\ comm' = "cmd" /\ UNCHANGED <<m_size, m_modified, tx>>
    BY <1>9 DEF startConversion, CommGoes, MarksOld
  <2>2. age' \in [Buffer -> 0 .. Old]
    BY <1>9 DEF startConversion, MarksOld, Old
  <2> QED
    BY <2>1, <2>2 DEF BufInv
<1>10. ASSUME NEW b \in Buffer, readConversion(b) PROVE BufInv'
  <2>1. comm' = "clear" /\ UNCHANGED <<m_size, m_modified, age>>
    BY <1>10 DEF readConversion, CommGoes, markVars
  <2>2. tx' = [buffer |-> b, samps |-> m_modified[b], offset |-> 0,
               since |-> age[b], stored |-> {}, torn |-> FALSE]
    BY <1>10 DEF readConversion, NoTransfer
  <2>3. tx' \in Transfer /\ tx'.offset = 0
    BY <2>2 DEF Transfer, BufInv
  <2> QED
    BY <2>1, <2>3 DEF BufInv
<1>11. CASE clearModified
  <2>1. UNCHANGED <<m_size, tx>> /\ UNCHANGED HalfSize /\ comm = "clear"
    BY <1>11 DEF clearModified, CommGoes, HalfSize
  <2>2. comm' = IF tx.samps = Null THEN "cmd" ELSE "send"
    BY <1>11 DEF clearModified, CommGoes
  <2>3. m_modified' \in [Buffer -> Marks \union {Null}]
    BY <1>11 DEF clearModified, BufInv, Transfer
  <2>4. age' \in [Buffer -> 0 .. Old]
    BY <1>11 DEF clearModified, BufInv, Transfer, Old
  <2> QED
    BY <1>1, <2>1, <2>2, <2>3, <2>4 DEF BufInv
<1>12. CASE sendSample
  <2>1. UNCHANGED <<m_size, m_modified, age>> /\ UNCHANGED HalfSize /\ comm = "send"
    BY <1>12 DEF sendSample, CommGoes, HalfSize, markVars
  <2>2. comm' = IF ChunkEnds(tx.offset + 1) THEN "ack" ELSE "send"
    BY <1>12 DEF sendSample, CommGoes
  <2>3. tx' = [tx EXCEPT !.offset = tx.offset + 1, !.torn = tx.torn \/ Overwritten]
    BY <1>12 DEF sendSample
  <2>4. (tx.torn \/ Overwritten) \in BOOLEAN
    BY Zenon
  <2>5. tx.offset + 1 \in Nat
    BY DEF BufInv, Transfer
  <2>6. /\ tx' \in Transfer /\ tx'.samps = tx.samps /\ tx'.offset = tx.offset + 1
    <3>1. \A o \in Nat, t \in BOOLEAN : [tx EXCEPT !.offset = o, !.torn = t] \in Transfer
      BY DEF BufInv, Transfer
    <3>2. \A o, t : [tx EXCEPT !.offset = o, !.torn = t].samps = tx.samps
      BY DEF BufInv, Transfer
    <3>3. \A o, t : [tx EXCEPT !.offset = o, !.torn = t].offset = o
      BY DEF BufInv, Transfer
    <3> QED
      BY <2>3, <2>4, <2>5, <3>1, <3>2, <3>3, Zenon
  <2>7. tx.offset \in Nat /\ tx.offset < HalfSize /\ tx.samps # Null
    BY <2>1 DEF BufInv, Transfer
  <2>8. tx.offset + 1 <= HalfSize
    BY <1>1, <2>7
  <2>9. comm' = "send" => tx.offset + 1 < HalfSize
    <3>1. comm' = "send" => tx.offset + 1 # HalfSize
      BY <2>2, Zenon DEF ChunkEnds
    <3> QED
      BY <1>1, <2>7, <2>8, <3>1
  <2> QED
    BY <2>1, <2>2, <2>6, <2>7, <2>8, <2>9 DEF BufInv
<1>13. CASE readAck
  <2>1. UNCHANGED <<m_size, m_modified, age>> /\ UNCHANGED HalfSize
    BY <1>13 DEF readAck, HalfSize, markVars
  <2>2. CASE tx.offset = HalfSize
    <3>1. comm' = "cmd" /\ tx' = NoTransfer
      BY <1>13, <2>2 DEF readAck, CommGoes
    <3>2. NoTransfer \in Transfer /\ NoTransfer.offset = 0
      BY DEF NoTransfer, Transfer, Buffer, Old
    <3> QED
      BY <2>1, <3>1, <3>2 DEF BufInv
  <2>3. CASE tx.offset # HalfSize
    <3>1. comm = "ack" /\ comm' = "send" /\ tx' = tx
      BY <1>13, <2>3 DEF readAck, CommGoes
    <3>2. tx.offset \in Nat /\ tx.offset < HalfSize
      BY <1>1, <2>3, <3>1 DEF BufInv, Transfer
    <3> QED
      BY <2>1, <3>1, <3>2 DEF BufInv
  <2> QED
    BY <2>2, <2>3
<1>14. CASE \/ loadAlgorithm \/ stopConversion
            \/ startGenerator \/ stopGenerator
            \/ updateGenerator \/ readDone \/ clearDone \/ refillEnd
  <2>1. UNCHANGED <<m_size, m_modified, age, tx>>
    BY <1>14 DEF loadAlgorithm, stopConversion, startGenerator, stopGenerator,
                 updateGenerator, readDone, clearDone, refillEnd, markVars
  <2>2. /\ comm \in {"cmd", "more", "done", "refill"}
        /\ comm' \in {"cmd", "more", "done", "refill"}
    BY <1>14 DEF loadAlgorithm, stopConversion, startGenerator, stopGenerator,
                 updateGenerator, readDone, clearDone, refillEnd, CommGoes
  <2> QED
    BY <2>1, <2>2 DEF BufInv
<1>15. CASE RunnerBegins \/ DacHalf \/ UNCHANGED vars
  BY <1>5, <1>15, Zenon DEF RunnerBegins, DacHalf, vars, markVars
<1> QED
  BY <1>6, <1>7, <1>8, <1>9, <1>10, <1>11, <1>12, <1>13, <1>14, <1>15 DEF Next

-----------------------------------------------------------------------------
\* The state main leaves satisfies the invariants.
LEMMA StreamsStart == Init => PipeInv /\ BufInv /\ GenInv
<1> SUFFICES ASSUME Init PROVE PipeInv /\ BufInv /\ GenInv
  OBVIOUS
<1>1. GenInv
  BY DEF Init, GenInv, Half, Null
<1>2. PipeInv
  <2>1. <<>> \in Seq(Half) /\ Len(<<>>) = 0
    OBVIOUS
  <2>2. todo \in Seq(Half) /\ Len(todo) <= P!Room
    BY <2>1 DEF Init, P!Room
  <2>3. filling \in Half /\ doing \in Half \union {Null}
    BY DEF Init, Half
  <2>4. converting \in BOOLEAN /\ loaded \in BOOLEAN
    BY DEF Init
  <2> QED
    BY <2>2, <2>3, <2>4 DEF PipeInv
<1>3. MAX_SAMPLE_BUFFER_SIZE \in Nat /\ MAX_SAMPLE_BUFFER_SIZE > 1
  <2>1. PICK k \in Nat : MAX_SAMPLE_BUFFER_SIZE = (2 * COPY) * k
    BY Constants
  <2>2. COPY \in Nat /\ MAX_SAMPLE_BUFFER_SIZE \in Nat /\ MAX_SAMPLE_BUFFER_SIZE > 0
    BY StreamsAssumption
  <2>3. COPY * k \in Nat /\ MAX_SAMPLE_BUFFER_SIZE = 2 * (COPY * k)
    BY <2>1, <2>2
  <2> QED
    BY <2>2, <2>3
<1>4. tx \in Transfer
  BY DEF Init, NoTransfer, Transfer, Buffer, Old
<1>5. m_modified \in [Buffer -> Marks \union {Null}] /\ age \in [Buffer -> 0 .. Old]
  BY DEF Init, Old
<1>6. BufInv
  BY <1>3, <1>4, <1>5 DEF Init, BufInv, NoTransfer
<1> QED
  BY <1>1, <1>2, <1>6

\* No copy of the runner and no transfer to the host leaves a sample buffer, for
\* every size of the buffers, of the copied groups and of the chunks.
THEOREM BuffersSafe == Spec => []BuffersInBounds
BY StreamsStart, PipeStep, BufStep, BufBounds, PTL DEF Spec

\* Every reachable state is well typed: the marks are offsets into their
\* buffers and the pipeline's queue is bounded.
THEOREM TypeCorrect == Spec => []TypeOK
<1>1. PipeInv /\ BufInv /\ GenInv => TypeOK
  <2> SUFFICES ASSUME PipeInv, BufInv, GenInv PROVE TypeOK
    OBVIOUS
  <2> DEFINE M == MAX_SAMPLE_BUFFER_SIZE \div 2
  <2>1. M \in Nat /\ MAX_SAMPLE_BUFFER_SIZE = 2 * M /\ HalfSize \in Nat \ {0}
        /\ HalfSize <= M
    BY Halves
  <2>2. MAX_SAMPLE_BUFFER_SIZE \in Nat
    BY Constants
  <2>3. Marks = 0 .. M
    BY DEF Marks
  <2> HIDE DEF M
  <2>4. Marks \subseteq Offsets
    BY <2>1, <2>2, <2>3 DEF Offsets
  <2>5. tx.offset \in 0 .. MAX_SAMPLE_BUFFER_SIZE
    <3>1. tx.offset \in Nat
      BY DEF BufInv, Transfer
    <3>2. tx.offset = 0 \/ tx.offset <= HalfSize
      BY <2>1, <3>1 DEF BufInv
    <3> QED
      BY <2>1, <2>2, <3>1, <3>2
  <2>6. tx \in [buffer : Buffer, samps : Offsets \union {Null},
               offset : 0 .. MAX_SAMPLE_BUFFER_SIZE, since : 0 .. Old,
               stored : SUBSET Half, torn : BOOLEAN]
    BY <2>4, <2>5 DEF BufInv, Transfer
  <2>7. m_modified \in [Buffer -> Offsets \union {Null}]
    BY <2>4 DEF BufInv
  <2>8. m_size \in 1 .. MAX_SAMPLE_BUFFER_SIZE
    BY <2>2 DEF BufInv
  <2> QED
    BY <2>6, <2>7, <2>8 DEF TypeOK, PipeInv, BufInv, GenInv
<1> QED
  BY <1>1, StreamsStart, PipeStep, BufStep, GenStep, PTL DEF Spec

-----------------------------------------------------------------------------
(* Transfers of the input.                                                 *)

\* A half that no other has followed yet is the one the DMA is not writing; that
\* goes for the one that is marked and for the one being sent.
FreshInv ==
    /\ age["In"] = 0 /\ m_modified["In"] # Null =>
           m_modified["In"] = data(Other(filling))
    /\ tx.samps # Null => comm \in {"clear", "send", "ack"}
    /\ tx.buffer = "In" /\ tx.samps # Null /\ tx.since = 0 =>
           tx.samps = data(Other(filling))
    /\ InputOutlivesHalf

\* A sample of one half is not in the other.
LEMMA Apart ==
    ASSUME NEW n \in Nat \ {0}, NEW h \in Half, NEW o \in Nat, o < n
    PROVE  Other(h) * n + o \notin h * n .. h * n + n - 1
BY DEF Half, Other

\* Filling, marking and sending keep a fresh half apart from the DMA's.
LEMMA FreshStep == PipeInv /\ BufInv /\ FreshInv /\ [Next]_vars => FreshInv'
<1> SUFFICES ASSUME PipeInv, BufInv, FreshInv, [Next]_vars PROVE FreshInv'
  OBVIOUS
<1>1. \A n \in 0 .. Old : Later(n) \in 0 .. Old /\ Later(n) > 0
  BY DEF Later, Old
<1>2. tx \in Transfer /\ age["In"] \in 0 .. Old
  BY DEF BufInv, Buffer
<1>3. CASE UNCHANGED <<m_size, m_modified, age, tx, filling>>
           /\ (comm' = comm \/ tx.samps = Null)
  <2>1. UNCHANGED <<data(Other(filling)), tx.samps, tx.buffer, tx.since, tx.torn>>
    BY <1>3 DEF data, HalfSize
  <2> QED
    BY <1>3, <2>1 DEF FreshInv, InputOutlivesHalf
<1>4. CASE AdcHalf
  <2>1. UNCHANGED <<m_size, comm>> /\ filling' = Other(filling)
    BY <1>4 DEF AdcHalf, P!Accept, P!Overrun
  <2>2. tx' = [tx EXCEPT !.since = Later(tx.since)]
    BY <1>4 DEF AdcHalf
  <2>3. /\ tx'.since > 0 /\ tx'.since # 0
        /\ tx'.samps = tx.samps /\ tx'.buffer = tx.buffer
    BY <1>1, <1>2, <2>2 DEF Transfer, Old
  <2>4. Other(Other(filling)) = filling
    BY DEF PipeInv, Half, Other
  <2>5. data(Other(filling))' = data(filling)
    BY <2>1, <2>4 DEF data, HalfSize
  <2>6. age'["In"] = 0 => m_modified'["In"] = data(filling)
    <3>1. CASE P!Accept /\ m_modified' = [m_modified EXCEPT !["In"] = data(filling)]
      BY <3>1 DEF BufInv, Buffer
    <3>2. CASE age' = [b \in Buffer |-> Later(age[b])]
      BY <1>1, <1>2, <3>2 DEF Buffer
    <3> QED
      BY <1>4, <3>1, <3>2 DEF AdcHalf
  <2> QED
    BY <2>1, <2>3, <2>5, <2>6 DEF FreshInv, InputOutlivesHalf
<1>5. CASE RunnerEnds
  <2>1. UNCHANGED <<m_size, comm, filling>> /\ UNCHANGED data(Other(filling))
    BY <1>5 DEF RunnerEnds, P!End, data, HalfSize
  <2>2. tx' = tx \/ tx' = [tx EXCEPT !.stored = tx.stored \union {doing}]
    BY <1>5 DEF RunnerEnds, markVars
  <2>3. UNCHANGED <<tx.samps, tx.buffer, tx.since, tx.torn>>
    BY <1>2, <2>2 DEF Transfer
  <2>4. UNCHANGED <<m_modified["In"], age["In"]>>
    BY <1>5 DEF RunnerEnds, BufInv, Buffer, markVars
  <2> QED
    BY <2>1, <2>3, <2>4 DEF FreshInv, InputOutlivesHalf
<1>6. CASE startConversion \/ \E n \in Sizes : setBufferSize(n)
  <2>1. comm = "cmd" /\ comm' = "cmd" /\ tx' = tx
    BY <1>6 DEF startConversion, setBufferSize, CommGoes
  <2>2. age' = [b \in Buffer |-> Old]
    BY <1>6 DEF startConversion, setBufferSize, MarksOld
  <2>3. age'["In"] # 0
    BY <2>2 DEF Buffer, Old
  <2> QED
    BY <2>1, <2>3 DEF FreshInv, InputOutlivesHalf
<1>7. ASSUME NEW b \in Buffer, readConversion(b) PROVE FreshInv'
  <2>1. comm' = "clear" /\ UNCHANGED <<m_size, m_modified, age, filling>>
    BY <1>7 DEF readConversion, CommGoes, markVars, pipeVars
  <2>2. tx' = [buffer |-> b, samps |-> m_modified[b], offset |-> 0,
               since |-> age[b], stored |-> {}, torn |-> FALSE]
    BY <1>7 DEF readConversion, NoTransfer
  <2>3. UNCHANGED data(Other(filling))
    BY <2>1 DEF data, HalfSize
  <2> QED
    BY <2>1, <2>2, <2>3 DEF FreshInv, InputOutlivesHalf
<1>8. CASE clearModified
  <2>1. UNCHANGED <<m_size, tx, filling>> /\ UNCHANGED data(Other(filling))
    BY <1>8 DEF clearModified, pipeVars, data, HalfSize
  <2>2. tx.samps # Null => comm' = "send"
    BY <1>8 DEF clearModified, CommGoes
  <2>3. \/ m_modified'["In"] = m_modified["In"] /\ age'["In"] = age["In"]
        \/ m_modified'["In"] = Null
    BY <1>2, <1>8 DEF clearModified, BufInv, Transfer, Buffer
  <2> QED
    BY <2>1, <2>2, <2>3 DEF FreshInv, InputOutlivesHalf
<1>9. CASE sendSample
  <2>1. /\ UNCHANGED <<m_size, m_modified, age, filling>>
        /\ comm = "send" /\ comm' \in {"send", "ack"}
    BY <1>9 DEF sendSample, CommGoes, markVars, pipeVars
  <2>2. UNCHANGED data(Other(filling))
    BY <2>1 DEF data, HalfSize
  <2>3. tx' = [tx EXCEPT !.offset = tx.offset + 1, !.torn = tx.torn \/ Overwritten]
    BY <1>9 DEF sendSample
  <2>4. /\ \A o, t : [tx EXCEPT !.offset = o, !.torn = t].samps = tx.samps
        /\ \A o, t : [tx EXCEPT !.offset = o, !.torn = t].buffer = tx.buffer
        /\ \A o, t : [tx EXCEPT !.offset = o, !.torn = t].since = tx.since
        /\ \A o, t : [tx EXCEPT !.offset = o, !.torn = t].torn = t
    BY <1>2 DEF Transfer
  <2>5. /\ UNCHANGED <<tx.samps, tx.buffer, tx.since>>
        /\ tx'.torn = (tx.torn \/ Overwritten)
    BY <2>3, <2>4, Zenon
  <2>6. ASSUME tx.buffer = "In", tx.since = 0 PROVE ~Overwritten
    <3>1. HalfSize \in Nat \ {0} /\ tx.offset \in Nat /\ tx.offset < HalfSize
      BY <1>2, <2>1, Halves DEF BufInv, Transfer
    <3>2. tx.samps = Other(filling) * HalfSize
      BY <2>1, <2>6 DEF BufInv, FreshInv, data
    <3>3. tx.samps + tx.offset \notin InHalf(filling)
      BY <3>1, <3>2, Apart DEF InHalf, data, PipeInv
    <3> QED
      BY <2>6, <3>3 DEF Overwritten
  <2>7. tx.since \in 0 .. Old /\ (tx.since > 0 \/ tx.since = 0)
    BY <1>2 DEF Transfer, Old
  <2>8. InputOutlivesHalf'
    <3>1. CASE tx.buffer = "In" /\ tx.since = 0
      <4>1. ~tx.torn
        BY <3>1 DEF FreshInv, InputOutlivesHalf
      <4> QED
        BY <2>5, <2>6, <3>1, <4>1, Zenon DEF InputOutlivesHalf
    <3>2. CASE tx.buffer # "In" \/ tx.since > 0
      BY <2>5, <3>2 DEF InputOutlivesHalf
    <3> QED
      BY <2>7, <3>1, <3>2
  <2> QED
    BY <2>1, <2>2, <2>5, <2>8 DEF FreshInv
<1>10. CASE readAck
  <2>1. UNCHANGED <<m_size, m_modified, age, filling>>
    BY <1>10 DEF readAck, markVars, pipeVars
  <2>2. UNCHANGED data(Other(filling))
    BY <2>1 DEF data, HalfSize
  <2>3. CASE tx' = NoTransfer
    BY <2>1, <2>2, <2>3 DEF FreshInv, InputOutlivesHalf, NoTransfer
  <2>4. CASE tx' = tx /\ comm' = "send"
    BY <2>1, <2>2, <2>4 DEF FreshInv, InputOutlivesHalf
  <2> QED
    BY <1>10, <2>3, <2>4 DEF readAck, CommGoes
<1>11. CASE \/ loadAlgorithm \/ stopConversion
            \/ startGenerator \/ stopGenerator
            \/ updateGenerator \/ readDone \/ clearDone \/ refillEnd
  <2>1. UNCHANGED <<m_size, m_modified, age, tx, filling>>
    BY <1>11 DEF loadAlgorithm, stopConversion, startGenerator, stopGenerator,
                 updateGenerator, readDone, clearDone, refillEnd, markVars,
                 pipeVars, P!Load
  <2>2. comm \in {"cmd", "more", "done", "refill"}
    BY <1>11 DEF loadAlgorithm, stopConversion, startGenerator, stopGenerator,
                 updateGenerator, readDone, clearDone, refillEnd, CommGoes
  <2>3. tx.samps = Null
    BY <2>2 DEF FreshInv
  <2> QED
    BY <1>3, <2>1, <2>3
<1>12. CASE RunnerBegins \/ DacHalf \/ UNCHANGED vars
  <2>1. UNCHANGED <<m_size, m_modified, age, tx, filling, comm>>
    BY <1>12 DEF RunnerBegins, DacHalf, P!Begin, vars, markVars, pipeVars
  <2> QED
    BY <1>3, <2>1
<1> QED
  BY <1>4, <1>5, <1>6, <1>7, <1>8, <1>9, <1>10, <1>11, <1>12 DEF Next

\* What the host gets of an input half is as it was marked unless another half
\* was filled in the meantime, for every size and every pace of the transfer.
THEOREM InputSafe == Spec => []InputOutlivesHalf
<1>1. Init => FreshInv
  BY DEF Init, FreshInv, InputOutlivesHalf, NoTransfer, Buffer
<1>2. FreshInv => InputOutlivesHalf
  BY DEF FreshInv
<1> QED
  BY <1>1, <1>2, StreamsStart, PipeStep, BufStep, FreshStep, PTL DEF Spec

-----------------------------------------------------------------------------
(* Transfers of the output.                                                *)

\* Where a half of the output is that was marked n interrupts ago, n < 2.
MarkOf(n) == IF n = 0 THEN data(Other(filling)) ELSE data(filling)

\* While one of the newest two halves is sent, the pipeline has nothing to do
\* (n = 0), or nothing but the half filled since (n = 1).
Behind(n) ==
    /\ doing \in (IF n = 0 THEN {} ELSE {Other(filling)}) \union {Null}
    /\ tx.stored \subseteq IF n = 0 THEN {} ELSE {Other(filling)}
    /\ IF n = 0 THEN todo = <<>>
       ELSE \A i \in 1 .. Len(todo) : todo[i] = Other(filling)

\* The count of interrupts tells which half a recent mark is, and what has been
\* stored beside it or will be.
RecentInv ==
    /\ m_modified["Out"] # Null /\ age["Out"] < Old =>
           m_modified["Out"] = MarkOf(age["Out"])
    /\ tx.samps = Null => ~tx.torn
    /\ tx.buffer = "Out" /\ tx.samps # Null /\ tx.since < Old =>
           tx.samps = MarkOf(tx.since) /\ Behind(tx.since)
    /\ OutputOutlivesTwoHalves

\* The copy of a half misses the other one, except that of the first half when
\* its size is no multiple of a group.
LEMMA CopyMisses ==
    ASSUME BufInv, NEW h \in Half, NEW o \in Nat, o < HalfSize,
           h = 0 \/ HalfSize % COPY = 0
    PROVE  data(h) + o \notin OutStore(Other(h))
<1>1. HalfSize \in Nat \ {0} /\ COPY \in Nat \ {0}
  BY Halves, Constants
<1>2. CASE h = 0
  <2>1. data(h) = 0 /\ data(Other(h)) = HalfSize
    BY <1>1, <1>2 DEF data, Other
  <2> QED
    BY <1>1, <2>1 DEF OutStore
<1>3. CASE h = 1 /\ HalfSize % COPY = 0
  <2>1. data(h) = HalfSize /\ data(Other(h)) = 0
    BY <1>1, <1>3 DEF data, Other
  <2>2. Extent(HalfSize) \in Int /\ Extent(HalfSize) <= HalfSize
    <3>1. HalfSize = COPY * (HalfSize \div COPY) + (HalfSize % COPY)
          /\ HalfSize \div COPY \in Nat
      BY <1>1
    <3>2. HalfSize <= COPY * (HalfSize \div COPY)
      BY <1>1, <1>3, <3>1
    <3>3. COPY * ((HalfSize + COPY - 1) \div COPY) <= COPY * (HalfSize \div COPY)
      BY <1>1, <3>1, <3>2, Rounding
    <3>4. (HalfSize + COPY - 1) \div COPY \in Int
      BY <1>1
    <3>5. Extent(HalfSize) = COPY * ((HalfSize + COPY - 1) \div COPY)
      BY <1>1 DEF Extent
    <3>6. COPY * (HalfSize \div COPY) = HalfSize
      BY <1>1, <1>3, <3>1
    <3> QED
      BY <1>1, <3>3, <3>4, <3>5, <3>6
  <2>3. OutStore(Other(h)) = 0 .. Extent(HalfSize) - 1
    BY <2>1, <2>2 DEF OutStore
  <2> QED
    BY <1>1, <2>1, <2>2, <2>3
<1> QED
  BY <1>2, <1>3 DEF Half

\* Filling, storing, marking and sending keep the recent halves apart from what
\* the runner stores.
LEMMA RecentStep ==
    PipeInv /\ BufInv /\ FreshInv /\ RecentInv /\ [Next]_vars => RecentInv'
<1> SUFFICES ASSUME PipeInv, BufInv, FreshInv, RecentInv, [Next]_vars
             PROVE  RecentInv'
  OBVIOUS
<1>1. tx \in Transfer /\ age["Out"] \in 0 .. Old /\ filling \in Half
  BY DEF BufInv, Buffer, PipeInv
<1>2. CASE UNCHANGED <<m_size, m_modified, age, tx, filling, todo, doing>>
  <2>1. UNCHANGED <<MarkOf(tx.since), MarkOf(age["Out"]), HalfSize>>
    BY <1>2 DEF MarkOf, data, HalfSize
  <2> QED
    BY <1>2, <2>1 DEF RecentInv, OutputOutlivesTwoHalves, Behind
<1>3. CASE AdcHalf
  <2>1. UNCHANGED <<m_size, comm>> /\ filling' = Other(filling)
    BY <1>3 DEF AdcHalf, P!Accept, P!Overrun
  <2>2. tx' = [tx EXCEPT !.since = Later(tx.since)]
    BY <1>3 DEF AdcHalf
  <2>3. /\ tx'.since = Later(tx.since) /\ tx'.stored = tx.stored
        /\ tx'.samps = tx.samps /\ tx'.buffer = tx.buffer /\ tx'.torn = tx.torn
    BY <1>1, <2>2 DEF Transfer
  <2>4. /\ tx.since \in 0 .. Old /\ (tx.since = 0 => Later(tx.since) = 1)
        /\ (tx.since # 0 => Later(tx.since) = 2)
    BY <1>1 DEF Transfer, Later, Old
  <2>5. Other(Other(filling)) = filling /\ Other(filling)' = filling
    BY <1>1, <2>1 DEF Half, Other
  <2>6. MarkOf(1)' = MarkOf(0) /\ UNCHANGED HalfSize
    BY <2>1 DEF MarkOf, data, HalfSize
  <2>7. UNCHANGED m_modified["Out"] /\ age'["Out"] = Later(age["Out"])
    BY <1>3 DEF AdcHalf, BufInv, Buffer
  <2>8. m_modified'["Out"] # Null /\ age'["Out"] < Old =>
            m_modified'["Out"] = MarkOf(age["Out"])'
    <3>1. age'["Out"] < Old => age["Out"] = 0 /\ age'["Out"] = 1
      BY <1>1, <2>7 DEF Later, Old
    <3> QED
      BY <2>6, <2>7, <3>1 DEF RecentInv, Old
  <2>9. ASSUME tx.buffer = "Out", tx.samps # Null, tx'.since < Old
        PROVE  tx'.samps = MarkOf(tx.since)' /\ Behind(tx.since)'
    <3>1. tx.since = 0 /\ tx'.since = 1
      BY <2>3, <2>4, <2>9 DEF Old
    <3>2. tx.samps = MarkOf(0) /\ todo = <<>> /\ doing = Null /\ tx.stored = {}
      BY <2>9, <3>1 DEF RecentInv, Behind, Old
    <3>3. P!Accept
      BY <1>3, <3>2 DEF AdcHalf, P!Overrun
    <3>4. todo' = <<filling>> /\ doing' = Null
      BY <3>2, <3>3 DEF P!Accept, HalfOf
    <3> QED
      BY <2>3, <2>5, <2>6, <3>1, <3>2, <3>4 DEF Behind
  <2>10. OutputOutlivesTwoHalves'
    <3>1. ASSUME tx.torn, tx.buffer = "Out" PROVE tx.since > 0
      BY <3>1, <2>4 DEF RecentInv, OutputOutlivesTwoHalves, Old
    <3>2. tx'.torn /\ tx'.buffer = "Out" => tx'.since > 1
      BY <2>3, <2>4, <3>1
    <3> QED
      BY <3>2 DEF OutputOutlivesTwoHalves
  <2> QED
    BY <2>3, <2>8, <2>9, <2>10 DEF RecentInv
<1>4. CASE RunnerBegins
  <2>1. UNCHANGED <<m_size, m_modified, age, tx, filling>>
    BY <1>4 DEF RunnerBegins, P!Begin, markVars
  <2>2. /\ todo # <<>> /\ todo \in Seq(Half)
        /\ doing' = Head(todo) /\ todo' = Tail(todo)
    BY <1>4 DEF RunnerBegins, P!Begin, PipeInv
  <2>3. UNCHANGED <<MarkOf(tx.since), MarkOf(age["Out"]), HalfSize, Other(filling)>>
    BY <2>1 DEF MarkOf, data, HalfSize
  <2>4. ASSUME Behind(tx.since) PROVE Behind(tx.since)'
    <3>1. tx.since # 0 /\ \A i \in 1 .. Len(todo) : todo[i] = Other(filling)
      BY <2>2, <2>4 DEF Behind
    <3>2. Head(todo) = Other(filling)
      BY <2>2, <3>1
    <3>3. \A i \in 1 .. Len(Tail(todo)) : Tail(todo)[i] = Other(filling)
      BY <2>2, <3>1
    <3> QED
      BY <2>1, <2>2, <2>3, <2>4, <3>1, <3>2, <3>3 DEF Behind
  <2> QED
    BY <2>1, <2>3, <2>4 DEF RecentInv, OutputOutlivesTwoHalves
<1>5. CASE RunnerEnds
  <2>1. UNCHANGED <<m_size, comm, filling, todo>> /\ doing # Null /\ doing' = Null
    BY <1>5 DEF RunnerEnds, P!End
  <2>2. UNCHANGED <<HalfSize, Other(filling)>>
    BY <2>1 DEF HalfSize
  <2>3. doing \in Half /\ (doing = filling \/ doing = Other(filling))
    BY <1>1, <2>1 DEF PipeInv, Half, Other
  <2>4. \A n : UNCHANGED MarkOf(n)
    BY <2>1 DEF MarkOf, data, HalfSize
  <2>5. \/ /\ m_modified' = [m_modified EXCEPT !["Out"] = data(doing)]
           /\ age' = [age EXCEPT !["Out"] = IF doing = filling THEN 1 ELSE 0]
           /\ \/ tx' = tx /\ tx.samps = Null
              \/ tx' = [tx EXCEPT !.stored = tx.stored \union {doing}]
        \/ UNCHANGED <<m_modified, age, tx>>
    BY <1>5 DEF RunnerEnds, markVars
  <2>6. /\ UNCHANGED <<tx.samps, tx.buffer, tx.since, tx.torn>>
        /\ tx.samps # Null => tx'.stored \subseteq tx.stored \union {doing}
    BY <1>1, <2>5 DEF Transfer
  <2>7. m_modified'["Out"] # Null /\ age'["Out"] < Old =>
            m_modified'["Out"] = MarkOf(age'["Out"])
    <3>1. CASE UNCHANGED <<m_modified, age>>
      BY <3>1 DEF RecentInv
    <3>2. CASE /\ m_modified' = [m_modified EXCEPT !["Out"] = data(doing)]
               /\ age' = [age EXCEPT !["Out"] = IF doing = filling THEN 1 ELSE 0]
      <4>1. /\ m_modified'["Out"] = data(doing)
            /\ age'["Out"] = IF doing = filling THEN 1 ELSE 0
        BY <3>2 DEF BufInv, Buffer
      <4> QED
        BY <2>3, <4>1 DEF MarkOf
    <3> QED
      BY <2>5, <3>1, <3>2
  <2>8. tx.samps # Null /\ Behind(tx.since) => Behind(tx.since)'
    BY <2>1, <2>2, <2>6 DEF Behind
  <2> QED
    BY <2>2, <2>4, <2>6, <2>7, <2>8 DEF RecentInv, OutputOutlivesTwoHalves
<1>6. CASE startConversion \/ \E n \in Sizes : setBufferSize(n)
  <2>1. comm = "cmd" /\ UNCHANGED tx
    BY <1>6 DEF startConversion, setBufferSize, CommGoes
  <2>2. age' = [b \in Buffer |-> Old]
    BY <1>6 DEF startConversion, setBufferSize, MarksOld
  <2>3. ~(age'["Out"] < Old)
    BY <2>2 DEF Buffer, Old
  <2>4. tx.samps = Null /\ ~tx.torn
    BY <2>1 DEF FreshInv, RecentInv
  <2> QED
    BY <2>1, <2>3, <2>4 DEF RecentInv, OutputOutlivesTwoHalves
<1>7. ASSUME NEW b \in Buffer, readConversion(b) PROVE RecentInv'
  <2>1. UNCHANGED <<m_size, m_modified, age, filling, todo, doing>>
        /\ todo = <<>> /\ doing = Null
    BY <1>7 DEF readConversion, CommGoes, markVars, pipeVars
  <2>2. tx' = [buffer |-> b, samps |-> m_modified[b], offset |-> 0,
               since |-> age[b], stored |-> {}, torn |-> FALSE]
    BY <1>7 DEF readConversion, NoTransfer
  <2>3. /\ tx'.buffer = b /\ tx'.samps = m_modified[b] /\ tx'.since = age[b]
        /\ tx'.stored = {} /\ tx'.torn = FALSE
    BY <2>2
  <2>4. \A n : UNCHANGED MarkOf(n)
    BY <2>1 DEF MarkOf, data, HalfSize
  <2>5. Behind(tx.since)'
    BY <2>1, <2>3 DEF Behind
  <2>6. b = "Out" /\ tx'.samps # Null /\ tx'.since < Old =>
            tx'.samps = MarkOf(tx'.since)
    BY <2>3 DEF RecentInv
  <2> QED
    BY <2>1, <2>3, <2>4, <2>5, <2>6 DEF RecentInv, OutputOutlivesTwoHalves
<1>8. CASE clearModified
  <2>1. UNCHANGED <<m_size, tx, filling, todo, doing>>
    BY <1>8 DEF clearModified, pipeVars
  <2>2. UNCHANGED HalfSize /\ \A n : UNCHANGED MarkOf(n)
    BY <2>1 DEF MarkOf, data, HalfSize
  <2>3. \/ m_modified'["Out"] = m_modified["Out"] /\ age'["Out"] = age["Out"]
        \/ m_modified'["Out"] = Null
    BY <1>1, <1>8 DEF clearModified, BufInv, Transfer, Buffer
  <2>4. UNCHANGED Behind(tx.since)
    BY <2>1 DEF Behind
  <2> QED
    BY <2>1, <2>2, <2>3, <2>4 DEF RecentInv, OutputOutlivesTwoHalves
<1>9. CASE sendSample
  <2>1. UNCHANGED <<m_size, m_modified, age, filling, todo, doing>> /\ comm = "send"
    BY <1>9 DEF sendSample, CommGoes, markVars, pipeVars
  <2>2. UNCHANGED HalfSize /\ \A n : UNCHANGED MarkOf(n)
    BY <2>1 DEF MarkOf, data, HalfSize
  <2>3. tx' = [tx EXCEPT !.offset = tx.offset + 1, !.torn = tx.torn \/ Overwritten]
    BY <1>9 DEF sendSample
  <2>4. /\ \A o, t : [tx EXCEPT !.offset = o, !.torn = t].samps = tx.samps
        /\ \A o, t : [tx EXCEPT !.offset = o, !.torn = t].buffer = tx.buffer
        /\ \A o, t : [tx EXCEPT !.offset = o, !.torn = t].since = tx.since
        /\ \A o, t : [tx EXCEPT !.offset = o, !.torn = t].stored = tx.stored
        /\ \A o, t : [tx EXCEPT !.offset = o, !.torn = t].torn = t
    BY <1>1 DEF Transfer
  <2>5. /\ UNCHANGED <<tx.samps, tx.buffer, tx.since, tx.stored>>
        /\ tx'.torn = (tx.torn \/ Overwritten)
    BY <2>3, <2>4, Zenon
  <2>6. /\ tx.samps # Null /\ tx.offset \in Nat /\ tx.offset < HalfSize
        /\ HalfSize \in Nat \ {0}
    BY <1>1, <2>1, Halves DEF BufInv, Transfer
  <2>7. UNCHANGED Behind(tx.since)
    BY <2>1, <2>5 DEF Behind
  <2> DEFINE allowed == \/ tx.since > 1
                        \/ tx.since = 1 /\ tx.samps > 0 /\ HalfSize % COPY # 0
  <2>8. ASSUME tx.buffer = "Out", ~allowed PROVE ~Overwritten
    <3>1. tx.since \in 0 .. Old /\ (tx.since = 0 \/ tx.since = 1) /\ tx.since < Old
      BY <1>1, <2>8 DEF Transfer, Old
    <3>2. tx.samps = MarkOf(tx.since) /\ Behind(tx.since)
      BY <2>6, <2>8, <3>1 DEF RecentInv
    <3>3. CASE tx.since = 0
      <4>1. tx.stored = {}
        BY <3>2, <3>3 DEF Behind
      <4> QED
        BY <2>8, <4>1 DEF Overwritten
    <3>4. CASE tx.since = 1
      <4>1. tx.stored \subseteq {Other(filling)} /\ tx.samps = data(filling)
        BY <3>2, <3>4 DEF Behind, MarkOf
      <4>2. filling = 0 \/ HalfSize % COPY = 0
        <5>1. filling = 1 => data(filling) > 0
          BY <2>6 DEF data
        <5> QED
          BY <1>1, <2>8, <3>4, <4>1, <5>1 DEF Half
      <4>3. tx.samps + tx.offset \notin OutStore(Other(filling))
        BY <1>1, <2>6, <4>1, <4>2, CopyMisses
      <4> QED
        BY <2>8, <4>1, <4>3 DEF Overwritten
    <3> QED
      BY <3>1, <3>3, <3>4
  <2>9. OutputOutlivesTwoHalves'
    <3>1. UNCHANGED allowed
      BY <2>2, <2>5
    <3>2. tx.torn /\ tx.buffer = "Out" => allowed
      BY DEF RecentInv, OutputOutlivesTwoHalves
    <3> HIDE DEF allowed
    <3>3. (tx.torn \/ Overwritten) /\ tx.buffer = "Out" => allowed
      BY <2>8, <3>2, Zenon
    <3>4. tx'.torn /\ tx'.buffer = "Out" => allowed'
      BY <2>5, <3>1, <3>3, Zenon
    <3> USE DEF allowed
    <3> QED
      BY <3>4 DEF OutputOutlivesTwoHalves
  <2> QED
    BY <2>1, <2>2, <2>5, <2>6, <2>7, <2>9 DEF RecentInv
<1>10. CASE readAck
  <2>1. UNCHANGED <<m_size, m_modified, age, filling, todo, doing>>
    BY <1>10 DEF readAck, markVars, pipeVars
  <2>2. CASE tx' = tx
    BY <1>2, <2>1, <2>2
  <2>3. CASE tx' = NoTransfer
    <3>1. tx'.buffer = "In" /\ tx'.samps = Null /\ tx'.torn = FALSE
      BY <2>3 DEF NoTransfer
    <3>2. \A n : UNCHANGED MarkOf(n)
      BY <2>1 DEF MarkOf, data, HalfSize
    <3> QED
      BY <2>1, <3>1, <3>2 DEF RecentInv, OutputOutlivesTwoHalves
  <2> QED
    BY <1>10, <2>2, <2>3 DEF readAck
<1>11. CASE \/ loadAlgorithm \/ stopConversion
            \/ startGenerator \/ stopGenerator
            \/ updateGenerator \/ readDone \/ clearDone \/ refillEnd
            \/ DacHalf \/ UNCHANGED vars
  <2>1. UNCHANGED <<m_size, m_modified, age, tx, filling, todo, doing>>
    BY <1>11 DEF loadAlgorithm, stopConversion, startGenerator, stopGenerator,
                 updateGenerator, readDone, clearDone, refillEnd, DacHalf, vars,
                 markVars, pipeVars, P!Load
  <2> QED
    BY <1>2, <2>1
<1> QED
  BY <1>3, <1>4, <1>5, <1>6, <1>7, <1>8, <1>9, <1>10, <1>11 DEF Next

\* What the host gets of an output half is as the runner stored it unless two
\* halves were filled in the meantime, or one and the copies are not whole
\* groups: for every size, and every pace of the transfer.
THEOREM OutputSafe == Spec => []OutputOutlivesTwoHalves
<1>1. Init => FreshInv
  BY DEF Init, FreshInv, InputOutlivesHalf, NoTransfer, Buffer
<1>2. Init => RecentInv
  BY DEF Init, RecentInv, OutputOutlivesTwoHalves, NoTransfer, Buffer
<1>3. RecentInv => OutputOutlivesTwoHalves
  BY DEF RecentInv
<1> QED
  BY <1>1, <1>2, <1>3, StreamsStart, PipeStep, BufStep, FreshStep, RecentStep, PTL
  DEF Spec


=============================================================================
