---------------------------- MODULE DeviceProofs ----------------------------
(***************************************************************************)
(* Proofs about Device, for every size of the driver's queues, of the data *)
(* and of the error stack, and any number of suspensions.                  *)
(***************************************************************************)
EXTENDS Device, SequenceTheorems, TLAPS

\* The host counts the chunks it awaits.
HostCounts == host = "chunk" => due > 0

LinkInv == LinkTypeOK /\ HostCounts

\* Where the communication thread can be.
Places == {"top", "read", "args", "data", "ack"} \union Answer
CommType == [at : Places, cmd : Command \union {"none"},
             left : 0 .. PAYLOAD + CHUNKS + 1]

\* What the status thread knows of run_status from isidle.
LedInv ==
    /\ led \in {"check", "locked"} /\ isidle /\ run_status = "Running" => begun
    /\ Locked => isidle

-----------------------------------------------------------------------------
(* Bytes and places.                                                       *)

\* A sequence without its first byte.
LEMMA TailType ==
    ASSUME NEW S, NEW q \in Seq(S), q # <<>>
    PROVE  /\ Head(q) \in S /\ Tail(q) \in Seq(S)
           /\ Len(Tail(q)) <= Len(q) /\ Len(Tail(q)) \in Nat /\ Len(q) \in Nat
<1>1. Head(q) \in S /\ Tail(q) \in Seq(S) /\ Len(Tail(q)) = Len(q) - 1
    BY HeadTailProperties
<1>2. Len(q) \in Nat /\ Len(Tail(q)) \in Nat
    BY <1>1
<1> QED
    BY <1>1, <1>2

\* A queue with room takes one more.
LEMMA PutType ==
    ASSUME NEW S, NEW q \in Seq(S), NEW e \in S, NEW n \in Nat, Len(q) < n
    PROVE  Append(q, e) \in Seq(S) /\ Len(Append(q, e)) <= n
<1>1. /\ Append(q, e) \in Seq(S) /\ Len(Append(q, e)) = Len(q) + 1
      /\ Len(q) \in Nat
    BY AppendProperties
<1> QED
    BY <1>1

\* What the host sends for a command is a sequence of bytes.
LEMMA BytesType ==
    ASSUME NEW c \in Command, NEW size \in {"fits", "big"}
    PROVE  Bytes(c, size) \in Seq(Byte)
<1>1. c \in Byte /\ size \in Byte /\ "low" \in Byte
    BY DEF Byte, Arg
<1>2. Data(PAYLOAD) \in Seq(Byte)
    BY LinkAssumption DEF Data, Byte
<1>3. <<c>> \in Seq(Byte) /\ <<c, size>> \in Seq(Byte) /\ <<c, "low", size>> \in Seq(Byte)
    BY <1>1
<1>4. /\ <<c>> \o Data(PAYLOAD) \in Seq(Byte)
      /\ <<c, "low", size>> \o Data(PAYLOAD) \in Seq(Byte)
    BY <1>2, <1>3, ConcatProperties
<1> QED
    BY <1>3, <1>4 DEF Bytes

\* Where the thread goes next.
LEMMA GoesType ==
    ASSUME NEW to \in Places, NEW c \in Command \union {"none"},
           NEW n \in 0 .. PAYLOAD + CHUNKS + 1, Goes(to, c, n)
    PROVE  comm' \in CommType
BY DEF Goes, CommType

\* The loop of threadComm.
LEMMA TopType ==
    ASSUME Returns
    PROVE  comm' \in CommType
<1>1. 0 \in 0 .. PAYLOAD + CHUNKS + 1
    BY LinkAssumption
<1> QED
    BY <1>1 DEF Returns, Top, CommType, Places

\* Errors are counted up to the size of the queue.
LEMMA ErrorType ==
    ASSUME LinkTypeOK
    PROVE  /\ add \in 0 .. MAX_ERROR_QUEUE_SIZE
           /\ \A b \in BOOLEAN : assert(b) \in 0 .. MAX_ERROR_QUEUE_SIZE
           /\ pop \in 0 .. MAX_ERROR_QUEUE_SIZE
<1>1. add \in 0 .. MAX_ERROR_QUEUE_SIZE
    BY LinkAssumption DEF LinkTypeOK, add
<1>2. \A b : assert(b) \in 0 .. MAX_ERROR_QUEUE_SIZE
    BY <1>1 DEF assert, LinkTypeOK
<1>3. pop \in 0 .. MAX_ERROR_QUEUE_SIZE
    BY LinkAssumption DEF LinkTypeOK, pop
<1> QED
    BY <1>1, <1>2, <1>3

-----------------------------------------------------------------------------
(* The communication thread keeps the types.                               *)

\* A byte is taken from rx; the rest is up to the handler.
LEMMA TakesType ==
    ASSUME LinkInv, NEW at, NEW bytes, Takes(at, bytes),
           run_status' \in {"Idle", "Running"}, em' \in 0 .. MAX_ERROR_QUEUE_SIZE,
           comm' \in CommType, framing' \in {"kept", "lost"}, disturbed' \in BOOLEAN
    PROVE  LinkInv'
<1>1. rx \in Seq(Byte) /\ Len(rx) <= QUEUE /\ rx # <<>> /\ rx' = Tail(rx)
    BY DEF LinkInv, LinkTypeOK, Takes
<1>2. rx' \in Seq(Byte) /\ Len(rx') <= QUEUE
  <2>1. Tail(rx) \in Seq(Byte) /\ Len(Tail(rx)) <= Len(rx) /\ Len(Tail(rx)) \in Nat /\ Len(rx) \in Nat
    BY <1>1, TailType
  <2> QED
    BY <1>1, <2>1, LinkAssumption
<1>3. UNCHANGED <<suspended, tx, host, due, out, generating, woken, drops>>
    BY DEF Takes, hostVars
<1>4. LinkTypeOK'
    BY <1>2, <1>3 DEF LinkInv, LinkTypeOK, CommType, Places
<1> QED
    BY <1>3, <1>4 DEF LinkInv, HostCounts

\* A refusal.
LEMMA RefusesType ==
    ASSUME LinkInv, NEW at, NEW bytes, Takes(at, bytes), Refuses
    PROVE  LinkInv'
<1>1. /\ em' \in 0 .. MAX_ERROR_QUEUE_SIZE /\ run_status' \in {"Idle", "Running"}
      /\ framing' \in {"kept", "lost"}
    BY ErrorType DEF Refuses, LinkInv, LinkTypeOK
<1>2. comm' \in CommType
    BY TopType DEF Refuses
<1>3. disturbed' \in BOOLEAN
    BY Zenon DEF Refuses
<1> QED
    BY <1>1, <1>2, <1>3, TakesType

\* Every step of the communication thread.
LEMMA CommKeepsType == LinkInv /\ CommStep => LinkInv'
<1> SUFFICES ASSUME LinkInv, CommStep PROVE LinkInv'
    OBVIOUS
<1>0. /\ LinkTypeOK /\ run_status \in {"Idle", "Running"}
      /\ em \in 0 .. MAX_ERROR_QUEUE_SIZE /\ comm \in CommType
      /\ framing \in {"kept", "lost"} /\ disturbed \in BOOLEAN
      /\ rx \in Seq(Byte) /\ tx \in Seq(Answer) /\ Len(tx) <= QUEUE
    BY DEF LinkInv, LinkTypeOK, CommType, Places
<1>n. /\ PAYLOAD \in 0 .. PAYLOAD + CHUNKS + 1 /\ CHUNKS \in 0 .. PAYLOAD + CHUNKS + 1
      /\ 0 \in 0 .. PAYLOAD + CHUNKS + 1 /\ 1 \in 0 .. PAYLOAD + CHUNKS + 1
      /\ 2 \in 0 .. PAYLOAD + CHUNKS + 1
      /\ comm.left \in 0 .. PAYLOAD + CHUNKS + 1
      /\ comm.left > 1 => comm.left - 1 \in 0 .. PAYLOAD + CHUNKS + 1
    BY <1>0, LinkAssumption DEF CommType
<1>c. comm.at \in Places /\ comm.cmd \in Command \union {"none"}
    BY <1>0 DEF CommType
<1>e. /\ add \in 0 .. MAX_ERROR_QUEUE_SIZE
      /\ \A b \in BOOLEAN : assert(b) \in 0 .. MAX_ERROR_QUEUE_SIZE
      /\ pop \in 0 .. MAX_ERROR_QUEUE_SIZE
    BY <1>0, ErrorType
<1>p. Answer \subseteq Places /\ {"read", "args", "data", "ack"} \subseteq Places
    BY DEF Places
<1>u. ASSUME Undisturbed
      PROVE  framing' \in {"kept", "lost"} /\ disturbed' \in BOOLEAN
    BY <1>0, <1>u DEF Undisturbed
<1>1. CASE startStop
  <2>1. run_status' \in {"Idle", "Running"} /\ comm' \in CommType
    BY <1>0, <1>1, TopType DEF startStop
  <2>2. em' \in 0 .. MAX_ERROR_QUEUE_SIZE
    BY <1>1, <1>e DEF startStop
  <2> QED
    BY <1>1, <1>u, <2>1, <2>2, TakesType DEF startStop
<1>2. CASE readStatus
  <2>1. comm' \in CommType
    BY <1>2, <1>n, <1>p, GoesType DEF readStatus, Answer
  <2> QED
    BY <1>0, <1>2, <1>e, <1>u, <2>1, TakesType DEF readStatus
<1>3. CASE readConversion
  <2>1. comm' \in CommType
    BY <1>3, <1>n, <1>p, GoesType DEF readConversion, Answer
  <2> QED
    BY <1>0, <1>3, <1>u, <2>1, TakesType DEF readConversion
<1>4. CASE writeADCBuffer
  <2>1. comm' \in CommType
    BY <1>4, <1>n, <1>p, GoesType DEF writeADCBuffer, Command
  <2> QED
    BY <1>0, <1>4, <1>u, <2>1, TakesType DEF writeADCBuffer
<1>5. CASE takesArguments
  <2>1. CASE Refuses
    BY <1>5, <2>1, RefusesType DEF takesArguments
  <2>2. CASE /\ Goes("args", Head(rx), Args[Head(rx)])
             /\ Undisturbed /\ UNCHANGED <<run_status, em>>
    <3>1. Head(rx) \in {"B", "D", "E", "r"}
      BY <1>5 DEF takesArguments, Takes, Args
    <3>2. Args[Head(rx)] \in {1, 2} /\ Head(rx) \in Command
      BY <3>1 DEF Args, Command
    <3>3. comm' \in CommType
      BY <1>n, <1>p, <2>2, <3>2, GoesType
    <3> QED
      BY <1>0, <1>5, <1>u, <2>2, <3>3, TakesType DEF takesArguments
  <2> QED
    BY <1>5, <2>1, <2>2, Zenon DEF takesArguments
<1>6. CASE readArgument
  <2>1. comm' \in CommType
    BY <1>6, <1>n, <1>c, <1>p, GoesType DEF readArgument
  <2> QED
    BY <1>0, <1>6, <1>u, <2>1, TakesType DEF readArgument
<1>7. CASE refuseArguments
    BY <1>7, RefusesType DEF refuseArguments
<1>8. CASE executeArguments
  <2>1. comm' \in CommType
    BY <1>8, <1>n, <1>c, <1>p, GoesType, TopType DEF executeArguments, Answer
  <2>2. em' \in 0 .. MAX_ERROR_QUEUE_SIZE
    <3>1. em' = assert(comm.cmd = "B" => Head(rx) # "big")
      BY <1>8, Zenon DEF executeArguments
    <3>2. (comm.cmd = "B" => Head(rx) # "big") \in BOOLEAN
      OBVIOUS
    <3> QED
      BY <1>e, <3>1, <3>2, Zenon
  <2> QED
    BY <1>0, <1>8, <1>u, <2>1, <2>2, TakesType DEF executeArguments
<1>d. ASSUME DataEnds PROVE comm' \in CommType /\ em' \in 0 .. MAX_ERROR_QUEUE_SIZE
    BY <1>0, <1>d, <1>e, TopType DEF DataEnds
<1>9. CASE readData
  <2>1. CASE Goes("data", comm.cmd, comm.left - 1) /\ UNCHANGED em /\ comm.left > 1
    <3>1. comm' \in CommType
      BY <1>n, <1>c, <1>p, <2>1, GoesType
    <3> QED
      BY <1>0, <1>9, <1>u, <2>1, <3>1, TakesType DEF readData
  <2>2. CASE DataEnds
    BY <1>0, <1>9, <1>u, <1>d, <2>2, TakesType DEF readData
  <2> QED
    BY <1>9, <2>1, <2>2, Zenon DEF readData
<1>10. CASE readAck
  <2>1. comm' \in CommType
    BY <1>10, <1>n, <1>p, GoesType, TopType DEF readAck, Answer
  <2> QED
    BY <1>0, <1>10, <1>u, <2>1, TakesType DEF readAck
<1>11. CASE writeAnswer
  <2>1. comm.at \in Answer
    BY <1>11 DEF writeAnswer, Writing
  <2>2. tx' \in Seq(Answer) /\ Len(tx') <= QUEUE
    <3>1. CASE tx' = tx
      BY <1>0, <3>1
    <3>2. CASE Len(tx) < QUEUE /\ tx' = Append(tx, comm.at)
      BY <1>0, <2>1, <3>2, PutType, LinkAssumption
    <3> QED
      BY <1>11, <3>1, <3>2, Zenon DEF writeAnswer
  <2>3. comm' \in CommType
    <3>1. \/ Goes("data", "D", PAYLOAD) \/ Goes("chunk", "none", CHUNKS)
          \/ Goes("ack", "none", comm.left) \/ Returns
      BY <1>11 DEF writeAnswer
    <3>2. "D" \in Command /\ "chunk" \in Answer
      BY DEF Command, Answer
    <3> QED
      BY <1>n, <1>p, <3>1, <3>2, GoesType, TopType
  <2>4. woken' \in BOOLEAN
    BY <1>11, Zenon DEF writeAnswer
  <2> QED
    BY <1>0, <1>11, <2>2, <2>3, <2>4
    DEF writeAnswer, LinkInv, LinkTypeOK, HostCounts, CommType, Places, devVars,
        hostVars, ghosts
<1>12. CASE readCutShort
  <2>1. comm' \in CommType /\ em' \in 0 .. MAX_ERROR_QUEUE_SIZE
    BY <1>0, <1>12, <1>d, <1>e, TopType DEF readCutShort
  <2>2. woken' \in BOOLEAN
    BY <1>12, Zenon DEF readCutShort
  <2> QED
    BY <1>0, <1>12, <2>1, <2>2
    DEF readCutShort, LinkInv, LinkTypeOK, HostCounts, CommType, Places,
        hostVars, ghosts
<1>m. ASSUME NEW at, NEW bytes, Mistakes(at, bytes) PROVE LinkInv'
    BY <1>0, <1>m, TakesType DEF Mistakes
<1>13. CASE misread
    BY <1>13, <1>m DEF misread
<1>14. CASE isActive
  <2>1. comm' \in CommType
    BY <1>14, <1>n, <1>p, GoesType DEF isActive
  <2> QED
    BY <1>0, <1>14, <2>1
    DEF isActive, LinkInv, LinkTypeOK, HostCounts, CommType, Places, devVars,
        hostVars, ghosts
<1> QED
    BY <1>1, <1>2, <1>3, <1>4, <1>5, <1>6, <1>7, <1>8, <1>9, <1>10, <1>11, <1>12,
       <1>13, <1>14 DEF CommStep

-----------------------------------------------------------------------------
(* So do the host and the world outside.                                   *)

\* The host's steps.
LEMMA HostKeepsType == LinkInv /\ HostStep => LinkInv'
<1> SUFFICES ASSUME LinkInv, HostStep PROVE LinkInv'
    OBVIOUS
<1>0. /\ rx \in Seq(Byte) /\ Len(rx) <= QUEUE /\ out \in Seq(Byte)
      /\ tx \in Seq(Answer) /\ Len(tx) <= QUEUE /\ due \in 0 .. CHUNKS
      /\ QUEUE \in Nat /\ CHUNKS \in Nat /\ CHUNKS > 0
    BY LinkAssumption DEF LinkInv, LinkTypeOK
<1> USE DEF LinkInv, LinkTypeOK, HostCounts, devVars, hostVars, commVars, ghosts
<1>1. CASE hostSends
  <2>1. Head(out) \in Byte /\ out' \in Seq(Byte)
    BY <1>0, <1>1, TailType DEF hostSends
  <2>2. rx' \in Seq(Byte) /\ Len(rx') <= QUEUE
    BY <1>0, <1>1, <2>1, PutType DEF hostSends
  <2> QED
    BY <1>1, <2>1, <2>2 DEF hostSends
<1>2. CASE hostReceives
  <2>1. tx' \in Seq(Answer) /\ Len(tx') <= QUEUE
    <3>1. tx' = Tail(tx) /\ tx # <<>>
      BY <1>2 DEF hostReceives
    <3>2. Tail(tx) \in Seq(Answer) /\ Len(Tail(tx)) <= Len(tx)
          /\ Len(Tail(tx)) \in Nat /\ Len(tx) \in Nat
      BY <1>0, <3>1, TailType
    <3> QED
      BY <1>0, <3>1, <3>2
  <2>2. Data(PAYLOAD) \in Seq(Byte) /\ <<"ack">> \in Seq(Byte)
    BY LinkAssumption DEF Data, Byte
  <2>3. out' \in Seq(Byte) /\ host' \in {"idle", "answer", "chunk"}
    BY <1>0, <1>2, <2>2 DEF hostReceives
  <2>4. due' \in 0 .. CHUNKS /\ (host' = "chunk" => due' > 0)
    <3>1. CASE Head(tx) \in {"status", "zero", "one"}
      BY <1>0, <1>2, <3>1 DEF hostReceives
    <3>2. CASE Head(tx) = "size"
      BY <1>0, <1>2, <3>2 DEF hostReceives
    <3>3. CASE Head(tx) = "chunk"
      <4>1. host = "chunk" /\ due' = due - 1
            /\ host' = IF due > 1 THEN "chunk" ELSE "idle"
        BY <1>2, <3>3 DEF hostReceives
      <4> QED
        BY <1>0, <4>1
    <3> QED
      BY <1>2, <3>1, <3>2, <3>3 DEF hostReceives
  <2> QED
    BY <1>2, <2>1, <2>3, <2>4 DEF hostReceives
<1>3. CASE hostMistakes
    BY <1>3 DEF hostMistakes
<1> QED
    BY <1>1, <1>2, <1>3 DEF HostStep

\* New commands, the bus and abort.
LEMMA OutsideKeepsType == LinkInv /\ OutsideStep => LinkInv'
<1> SUFFICES ASSUME LinkInv, OutsideStep PROVE LinkInv'
    OBVIOUS
<1> USE DEF LinkInv, LinkTypeOK, HostCounts, devVars, hostVars, commVars, ghosts
<1>0. <<>> \in Seq(Byte) /\ <<>> \in Seq(Answer) /\ Len(<<>>) = 0
      /\ 0 <= QUEUE /\ 0 \in 0 .. CHUNKS
    BY LinkAssumption
<1>w. ASSUME WakesWaiting PROVE woken' \in BOOLEAN
    BY <1>w, Zenon DEF WakesWaiting
<1>1. ASSUME NEW c \in Command, NEW size \in {"fits", "big"}, hostCommand(c, size)
      PROVE  LinkInv'
    BY <1>1, BytesType DEF hostCommand
<1>2. CASE suspend
  <2>1. woken' \in BOOLEAN
    BY <1>2, <1>w DEF suspend
  <2>2. disturbed' \in BOOLEAN /\ suspended' \in BOOLEAN
    BY <1>2, Zenon DEF suspend
  <2>3. drops' \in 0 .. MaxDrops
    BY <1>2, LinkAssumption DEF suspend
  <2> QED
    BY <1>2, <2>1, <2>2, <2>3 DEF suspend
<1>3. CASE wakeup
  <2>1. suspended' \in BOOLEAN
    BY <1>3, Zenon DEF wakeup
  <2> QED
    BY <1>3, <2>1 DEF wakeup
<1>4. CASE configure
  <2>1. woken' \in BOOLEAN
    BY <1>4, <1>w DEF configure
  <2>2. disturbed' \in BOOLEAN /\ suspended' \in BOOLEAN
    BY <1>4, Zenon DEF configure
  <2> QED
    BY <1>0, <1>4, <2>1, <2>2 DEF configure
<1>5. CASE abort
  <2>1. em' \in 0 .. MAX_ERROR_QUEUE_SIZE
    BY <1>5, ErrorType DEF abort
  <2> QED
    BY <1>5, <2>1 DEF abort
<1> QED
    BY <1>1, <1>2, <1>3, <1>4, <1>5 DEF OutsideStep

-----------------------------------------------------------------------------
(* The status thread.                                                      *)

\* Steps of the link leave the status thread where it is and note the
\* beginning of a conversion.
LEMMA BesideKeepsLed ==
    ASSUME LinkTypeOK, LedTypeOK, LedInv, Beside
    PROVE  LedTypeOK' /\ LedInv'
<1>1. ~Locked /\ UNCHANGED <<led, isidle, erroron, red>>
      /\ begun' = (led # "blink" /\ (begun \/ ConversionBegins))
    BY Zenon DEF Beside
<1>2. begun' \in BOOLEAN
    BY <1>1, Zenon
<1>3. LedTypeOK'
    BY <1>1, <1>2 DEF LedTypeOK
<1>4. ASSUME led' \in {"check", "locked"}, isidle', run_status' = "Running"
      PROVE  begun'
  <2>1. led = "check" /\ isidle
    BY <1>1, <1>4 DEF Locked
  <2>2. CASE run_status = "Running"
    BY <1>1, <2>1, <2>2 DEF LedInv
  <2>3. CASE run_status = "Idle"
    BY <1>1, <1>4, <2>1, <2>3 DEF ConversionBegins
  <2> QED
    BY <2>2, <2>3 DEF LinkTypeOK
<1>5. ~Locked'
    BY <1>1 DEF Locked
<1> QED
    BY <1>3, <1>4, <1>5 DEF LedInv

\* The status thread's own steps.
LEMMA LedKeepsLed ==
    ASSUME LinkTypeOK, LedTypeOK, LedInv, Led \/ Button
    PROVE  LedTypeOK' /\ LedInv'
<1>0. UNCHANGED run_status
    BY DEF Led, Button, linkVars, devVars
<1>1. CASE ledBlink(run_status = "Idle")
  <2>1. isidle' = (run_status = "Idle") /\ led' = "check" /\ begun' = FALSE
        /\ UNCHANGED <<erroron, red>>
    BY <1>1, Zenon DEF ledBlink
  <2>2. isidle' \in BOOLEAN /\ begun' \in BOOLEAN
    BY <2>1, Zenon
  <2>3. isidle' => run_status' # "Running"
    BY <1>0, <2>1
  <2> QED
    BY <2>1, <2>2, <2>3 DEF LedTypeOK, LedInv, Locked
<1>2. CASE ledCheck
    BY <1>0, <1>2 DEF ledCheck, LedTypeOK, LedInv, Locked
<1>3. CASE ledUnlock
    BY <1>3 DEF ledUnlock, LedTypeOK, LedInv, Locked
<1>4. CASE ledError(hasError)
  <2>1. hasError \in BOOLEAN
    BY DEF hasError
  <2>2. erroron' \in BOOLEAN /\ red' \in BOOLEAN
    BY <1>4, <2>1, Zenon DEF ledError, LedTypeOK
  <2>3. led' = "blink" /\ isidle' = FALSE /\ begun' = FALSE
    BY <1>4, Zenon DEF ledError
  <2>4. isidle' \in BOOLEAN /\ begun' \in BOOLEAN
    BY <2>3, Zenon
  <2> QED
    BY <2>2, <2>3, <2>4 DEF LedTypeOK, LedInv, Locked
<1> QED
    BY <1>1, <1>2, <1>3, <1>4 DEF Led, Button

-----------------------------------------------------------------------------
(* The theorems.                                                           *)

DeviceInv == LinkInv /\ LedTypeOK /\ LedInv /\ starved \in BOOLEAN

\* The initial states satisfy the invariant.
LEMMA InitInv == Init => DeviceInv
<1> SUFFICES ASSUME Init PROVE DeviceInv
    OBVIOUS
<1>0. <<>> \in Seq(Byte) /\ <<>> \in Seq(Answer) /\ Len(<<>>) = 0
    OBVIOUS
<1>1. /\ 0 \in 0 .. MAX_ERROR_QUEUE_SIZE /\ 0 <= QUEUE /\ 0 \in 0 .. CHUNKS
      /\ 0 \in 0 .. MaxDrops /\ 0 \in 0 .. PAYLOAD + CHUNKS + 1
    BY LinkAssumption
<1>2. generating \in BOOLEAN /\ suspended \in BOOLEAN /\ woken \in BOOLEAN /\ disturbed \in BOOLEAN
    BY Zenon DEF Init, LinkInit
<1>3. comm \in CommType
    BY <1>1 DEF Init, LinkInit, Top, CommType, Places
<1>4. LinkInv
    BY <1>0, <1>1, <1>2, <1>3
    DEF Init, LinkInit, LinkInv, LinkTypeOK, HostCounts, CommType, Places
<1>5. LedTypeOK /\ LedInv
    BY Zenon DEF Init, LedInit, LedTypeOK, LedInv, Locked
<1>6. starved \in BOOLEAN
    BY Zenon DEF Init
<1> QED
    BY <1>4, <1>5, <1>6 DEF DeviceInv

\* It is inductive.
LEMMA Inductive == DeviceInv /\ [Next]_vars => DeviceInv'
<1> SUFFICES ASSUME DeviceInv, [Next]_vars PROVE DeviceInv'
    OBVIOUS
<1>0. starved' \in BOOLEAN
  <2>1. CASE Next
    BY <2>1, Zenon
    DEF Next, Comm, Host, Outside, Beside, Led, Button, Starve, DeviceInv
  <2>2. CASE UNCHANGED vars
    BY <2>2, Zenon DEF vars, DeviceInv
  <2> QED
    BY <2>1, <2>2
<1>1. CASE Comm \/ Host \/ Outside
    BY <1>0, <1>1, CommKeepsType, HostKeepsType, OutsideKeepsType, BesideKeepsLed
    DEF Comm, Host, Outside, DeviceInv, LinkInv
<1>2. CASE Led \/ Button
  <2>1. UNCHANGED linkVars
    BY <1>2 DEF Led, Button
  <2>2. LinkInv'
    BY <2>1
    DEF DeviceInv, linkVars, devVars, commVars, hostVars, ghosts, LinkInv,
        LinkTypeOK, HostCounts
  <2> QED
    BY <1>0, <1>2, <2>2, LedKeepsLed DEF DeviceInv, LinkInv
<1>3. CASE Starve \/ UNCHANGED vars
  <2>1. UNCHANGED <<linkVars, ledVars>>
    BY <1>3 DEF Starve, vars
  <2> QED
    BY <1>0, <2>1
    DEF DeviceInv, linkVars, ledVars, devVars, commVars, hostVars, ghosts,
        LinkInv, LinkTypeOK, HostCounts, LedTypeOK, LedInv, Locked
<1> QED
    BY <1>1, <1>2, <1>3 DEF Next

\* The invariant holds throughout.
THEOREM Invariance == Spec => []DeviceInv
<1> QED
    BY InitInv, Inductive, PTL DEF Spec

\* Every variable keeps its type; the driver's queues stay within their size
\* and the errors within theirs, whenever the link goes down.
THEOREM TypeCorrect == Spec => []TypeOK
<1>1. DeviceInv => TypeOK
    BY DEF DeviceInv, LinkInv, TypeOK
<1> QED
    BY <1>1, Invariance, PTL

\* The button stops no conversion but one begun since the status thread read
\* run_status.
THEOREM LockSafe == Spec => []LockSeesIdle
<1>1. DeviceInv => LockSeesIdle
    BY DEF DeviceInv, LedInv, Locked, LockSeesIdle
<1> QED
    BY <1>1, Invariance, PTL

=============================================================================
