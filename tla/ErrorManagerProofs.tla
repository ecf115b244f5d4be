------------------------- MODULE ErrorManagerProofs -------------------------
(***************************************************************************)
(* Proofs about ErrorManager, for every queue with room for the numbers of *)
(* the errors and every set of errors the communication thread adds.       *)
(***************************************************************************)
EXTENDS ErrorManager, ErrorStackProofs

\* Where the index can be inside an operation, whatever abort does to it.
IndexInv ==
    /\ pc # "addStore" => m_index <= MAX_ERROR_QUEUE_SIZE
    /\ pc = "addStore" /\ tmp # MAX_ERROR_QUEUE_SIZE => m_index <= MAX_ERROR_QUEUE_SIZE
    /\ pc = "popLoad" => m_index > 0
    /\ pc = "popDecrement" => tmp > 0

DamageInv == TypeOK /\ IndexInv

\* The first n slots hold the first n elements of the stack.
Holds(n) == \A i \in 1 .. n : m_queue[i - 1] = stack[i]

\* How far an operation no abort has hit has got with the stack it is to
\* produce.
AddInv ==
    /\ pc \in {"idle", "addLoad", "addIncrement", "addStore"} =>
         reported = expected
    /\ pc = "idle" => m_index = Len(stack) /\ Holds(Len(stack))
    /\ pc \in {"addLoad", "addIncrement"} =>
         Len(stack) = m_index + 1 /\ stack[m_index + 1] = error /\ Holds(m_index)
    /\ pc = "addIncrement" => tmp = m_index
    /\ pc = "addStore" =>
         /\ m_index = Len(stack) /\ m_index = tmp + 1
         /\ stack[tmp + 1] = error /\ Holds(tmp)

PopInv ==
    /\ pc \in {"popLoad", "popDecrement"} => m_index = Len(stack) + 1
    /\ pc = "popDecrement" => tmp = m_index
    /\ pc \in {"popReload", "popRead"} => m_index = Len(stack)
    /\ pc = "popRead" => tmp = m_index
    /\ pc \in {"popLoad", "popDecrement", "popReload", "popRead"} =>
         /\ Holds(Len(stack)) /\ m_queue[Len(stack)] = expected
         /\ Len(stack) < MAX_ERROR_QUEUE_SIZE

StackInv == ~torn => AddInv /\ PopInv

-----------------------------------------------------------------------------
(* The index.                                                              *)

\* An Error stored in m_index leaves it in range.
LEMMA CodeInRange ==
    ASSUME NEW e \in Error \union {"None"}
    PROVE  Code(e) \in 0 .. MAX_ERROR_QUEUE_SIZE - 1 \/ Code(e) = MAX_ERROR_QUEUE_SIZE
<1> DEFINE name == <<"None", "BadParam", "BadParamSize", "BadUserCodeLoad",
              "BadUserCodeSize", "NotIdle", "ConversionAborted",
              "NotRunning">>
<1>1. \E n \in 0 .. 7 : e = name[n + 1]
  <2>1. /\ name[0 + 1] = "None" /\ name[1 + 1] = "BadParam"
        /\ name[2 + 1] = "BadParamSize" /\ name[3 + 1] = "BadUserCodeLoad"
        /\ name[4 + 1] = "BadUserCodeSize" /\ name[5 + 1] = "NotIdle"
        /\ name[6 + 1] = "ConversionAborted" /\ name[7 + 1] = "NotRunning"
    OBVIOUS
  <2>2. 0 \in 0 .. 7 /\ 1 \in 0 .. 7 /\ 2 \in 0 .. 7 /\ 3 \in 0 .. 7
        /\ 4 \in 0 .. 7 /\ 5 \in 0 .. 7 /\ 6 \in 0 .. 7 /\ 7 \in 0 .. 7
    OBVIOUS
  <2> HIDE DEF name
  <2> QED
    BY <2>1, <2>2, Zenon DEF Error
<1>2. Code(e) \in 0 .. 7
    BY <1>1, Zenon DEF Code
<1> QED
    BY <1>2, RoomAssumption, ErrorQueueAssumption

\* m_queue[i] = e keeps the types and the index in range.
LEMMA StoreType ==
    ASSUME TypeOK, NEW i \in 0 .. MAX_ERROR_QUEUE_SIZE, NEW e \in Error \union {"None"},
           Store(i, e),
           i # MAX_ERROR_QUEUE_SIZE => m_index <= MAX_ERROR_QUEUE_SIZE
    PROVE  /\ m_queue' \in [Slots -> Error \union {"None"}]
           /\ m_index' \in 0 .. MAX_ERROR_QUEUE_SIZE
<1>1. m_index \in 0 .. MAX_ERROR_QUEUE_SIZE + 1 /\ MAX_ERROR_QUEUE_SIZE \in Nat
    BY ErrorQueueAssumption DEF TypeOK
<1>2. CASE i \in Slots
  <2>1. m_queue' = [m_queue EXCEPT ![i] = e] /\ m_index' = m_index
    BY <1>2 DEF Store
  <2>2. m_queue' \in [Slots -> Error \union {"None"}]
    BY <2>1 DEF TypeOK
  <2>3. m_index \in 0 .. MAX_ERROR_QUEUE_SIZE
    BY <1>1, <1>2 DEF Slots
  <2> QED
    BY <2>1, <2>2, <2>3
<1>3. CASE i \notin Slots
  <2>1. m_index' = Code(e) /\ m_queue' = m_queue
    BY <1>3 DEF Store
  <2>2. Code(e) \in 0 .. MAX_ERROR_QUEUE_SIZE
    BY <1>1, CodeInRange
  <2> QED
    BY <2>1, <2>2 DEF TypeOK
<1> QED
    BY <1>2, <1>3

\* What m_queue[i] yields, inside the queue or one past its end.
LEMMA LoadType ==
    ASSUME TypeOK, NEW i
    PROVE  Load(i) \in Error \union {"None", "garbage"}
BY DEF Load, TypeOK

\* DamageInv is inductive.
LEMMA DamageInductive == DamageInv /\ [Next]_vars => DamageInv'
<1> SUFFICES ASSUME DamageInv, [Next]_vars PROVE DamageInv'
    OBVIOUS
<1>0. /\ TypeOK /\ IndexInv /\ MAX_ERROR_QUEUE_SIZE \in Nat
      /\ stack \in ErrorStacks /\ <<>> \in ErrorStacks
  <2>1. <<>> \in Seq(Error) /\ Len(<<>>) = 0
    OBVIOUS
  <2> QED
    BY <2>1, ErrorQueueAssumption DEF DamageInv, TypeOK, ErrorStacks
<1>1. ASSUME NEW e \in HostErrors, addCheck(e) PROVE DamageInv'
  <2>1. e \in Error /\ add(stack, e) \in ErrorStacks
    BY <1>0, HostErrorAssumption, AddType
  <2>2. stack' \in ErrorStacks
    BY <1>0, <1>1, <2>1 DEF addCheck
  <2>3. TypeOK'
    BY <1>0, <1>1, <2>1, <2>2 DEF addCheck, TypeOK
  <2>4. IndexInv'
    BY <1>0, <1>1 DEF addCheck, IndexInv, TypeOK
  <2> QED
    BY <2>3, <2>4 DEF DamageInv
<1>2. CASE addLoad
  <2>1. TypeOK'
    BY <1>0, <1>2 DEF addLoad, TypeOK, IndexInv, ghosts
  <2>2. IndexInv'
    BY <1>0, <1>2 DEF addLoad, TypeOK, IndexInv
  <2> QED
    BY <2>1, <2>2 DEF DamageInv
<1>3. CASE addIncrement
  <2>1. TypeOK'
    BY <1>0, <1>3 DEF addIncrement, TypeOK, ghosts
  <2>2. IndexInv'
    BY <1>0, <1>3 DEF addIncrement, TypeOK, IndexInv
  <2> QED
    BY <2>1, <2>2 DEF DamageInv
<1>4. CASE addStore
  <2>1. Store(tmp, error) /\ pc = "addStore" /\ pc' = "idle"
    BY <1>4 DEF addStore
  <2>2. tmp \in 0 .. MAX_ERROR_QUEUE_SIZE /\ error \in Error \union {"None"}
        /\ (tmp # MAX_ERROR_QUEUE_SIZE => m_index <= MAX_ERROR_QUEUE_SIZE)
    BY <1>0, <2>1 DEF TypeOK, IndexInv
  <2>3. /\ m_queue' \in [Slots -> Error \union {"None"}]
        /\ m_index' \in 0 .. MAX_ERROR_QUEUE_SIZE
    BY <1>0, <2>1, <2>2, StoreType
  <2>4. TypeOK'
    BY <1>0, <1>4, <2>3 DEF addStore, TypeOK, ghosts
  <2>5. IndexInv'
    BY <1>0, <2>1, <2>3 DEF IndexInv
  <2> QED
    BY <2>4, <2>5 DEF DamageInv
<1>5. CASE popCheck
  <2>1. stack' \in ErrorStacks
    BY <1>0, <1>5, PopType DEF popCheck
  <2>2. TypeOK'
    BY <1>0, <1>5, <2>1 DEF popCheck, TypeOK
  <2>3. IndexInv'
    BY <1>0, <1>5 DEF popCheck, IndexInv, TypeOK
  <2> QED
    BY <2>2, <2>3 DEF DamageInv
<1>6. CASE popLoad
  <2>1. TypeOK'
    BY <1>0, <1>6 DEF popLoad, TypeOK, IndexInv, ghosts
  <2>2. IndexInv'
    BY <1>0, <1>6 DEF popLoad, TypeOK, IndexInv
  <2> QED
    BY <2>1, <2>2 DEF DamageInv
<1>7. CASE popDecrement
  <2>1. TypeOK'
    BY <1>0, <1>7 DEF popDecrement, TypeOK, IndexInv, ghosts
  <2>2. IndexInv'
    BY <1>0, <1>7 DEF popDecrement, TypeOK, IndexInv
  <2> QED
    BY <2>1, <2>2 DEF DamageInv
<1>8. CASE popReload
  <2>1. TypeOK'
    BY <1>0, <1>8 DEF popReload, TypeOK, IndexInv, ghosts
  <2>2. IndexInv'
    BY <1>0, <1>8 DEF popReload, TypeOK, IndexInv
  <2> QED
    BY <2>1, <2>2 DEF DamageInv
<1>9. CASE popRead
  <2>1. TypeOK'
    BY <1>0, <1>9, LoadType DEF popRead, TypeOK, ghosts
  <2>2. IndexInv'
    BY <1>0, <1>9 DEF popRead, TypeOK, IndexInv
  <2> QED
    BY <2>1, <2>2 DEF DamageInv
<1>10. CASE abortAdd
  <2>1. stack' \in ErrorStacks
    BY <1>0, <1>10, AddType DEF abortAdd, Error
  <2>2. /\ m_queue' \in [Slots -> Error \union {"None"}]
        /\ m_index' \in 0 .. MAX_ERROR_QUEUE_SIZE + 1
        /\ owed' \in BOOLEAN
    BY <1>0, <1>10 DEF abortAdd, TypeOK, Slots, Error
  <2>3. torn' \in BOOLEAN
    BY <1>10, Zenon DEF abortAdd
  <2>4. TypeOK'
    BY <1>0, <1>10, <2>1, <2>2, <2>3 DEF abortAdd, TypeOK
  <2>5. IndexInv'
    BY <1>0, <1>10 DEF abortAdd, IndexInv, TypeOK
  <2> QED
    BY <2>4, <2>5 DEF DamageInv
<1>11. CASE UNCHANGED vars
  <2>1. TypeOK'
    BY <1>0, <1>11 DEF vars, TypeOK
  <2>2. IndexInv'
    BY <1>0, <1>11 DEF vars, IndexInv
  <2> QED
    BY <2>1, <2>2 DEF DamageInv
<1> QED
    BY <1>1, <1>2, <1>3, <1>4, <1>5, <1>6, <1>7, <1>8, <1>9, <1>10, <1>11
    DEF Next

-----------------------------------------------------------------------------
(* The stack.                                                              *)

\* Between two operations the queue and the index are the stack; inside one
\* they are as far from it as the instructions still to come.
LEMMA StackInductive == DamageInv /\ StackInv /\ [Next]_vars => StackInv'
<1> SUFFICES ASSUME DamageInv, StackInv, [Next]_vars, ~torn' PROVE AddInv' /\ PopInv'
    BY DEF StackInv
<1>0. /\ MAX_ERROR_QUEUE_SIZE \in Nat /\ Len(stack) \in Nat
      /\ Len(stack) <= MAX_ERROR_QUEUE_SIZE
      /\ stack \in ErrorStacks
      /\ m_queue \in [Slots -> Error \union {"None"}]
      /\ m_index \in 0 .. MAX_ERROR_QUEUE_SIZE + 1
      /\ tmp \in 0 .. MAX_ERROR_QUEUE_SIZE
    BY ErrorQueueAssumption DEF DamageInv, TypeOK, ErrorStacks
<1>t. ~torn /\ AddInv /\ PopInv
  <2>1. ~torn
    BY DEF Next, vars, ghosts, addCheck, addLoad, addIncrement, addStore,
           popCheck, popLoad, popDecrement, popReload, popRead, abortAdd
  <2> QED
    BY <2>1 DEF StackInv
<1>1. ASSUME NEW e \in HostErrors, addCheck(e) PROVE AddInv' /\ PopInv'
  <2>1. /\ m_index = Len(stack) /\ Holds(Len(stack)) /\ reported = expected
        /\ stack' = add(stack, e) /\ e \in Error /\ pc = "idle"
    BY <1>1, <1>t, HostErrorAssumption DEF addCheck, AddInv
  <2>2. CASE m_index < MAX_ERROR_QUEUE_SIZE
    <3>1. /\ Len(stack') = Len(stack) + 1
          /\ \A i \in 1 .. Len(stack) : stack'[i] = stack[i]
          /\ stack'[Len(stack) + 1] = e
      BY <1>0, <2>1, <2>2, AddEffect
    <3>2. UNCHANGED <<m_queue, m_index, reported, expected>> /\ pc' = "addLoad"
          /\ error' = e
      BY <1>1, <2>2 DEF addCheck
    <3>3. Holds(m_index)'
      BY <2>1, <3>1, <3>2 DEF Holds
    <3>4. AddInv'
      BY <2>1, <3>1, <3>2, <3>3 DEF AddInv
    <3> QED
      BY <3>2, <3>4 DEF PopInv
  <2>3. CASE ~(m_index < MAX_ERROR_QUEUE_SIZE)
    <3>1. stack' = stack
      BY <1>0, <2>1, <2>3, AddEffect
    <3>2. UNCHANGED <<m_queue, m_index, reported, expected>> /\ pc' = "idle"
      BY <1>1, <2>3 DEF addCheck
    <3> QED
      BY <2>1, <3>1, <3>2 DEF AddInv, PopInv, Holds
  <2> QED
    BY <2>2, <2>3
<1>2. CASE addLoad
    BY <1>2, <1>t DEF addLoad, ghosts, AddInv, PopInv, Holds
<1>3. CASE addIncrement
    BY <1>3, <1>t DEF addIncrement, ghosts, AddInv, PopInv, Holds
<1>4. CASE addStore
  <2>1. /\ m_index = Len(stack) /\ m_index = tmp + 1 /\ stack[tmp + 1] = error
        /\ Holds(tmp) /\ reported = expected
    BY <1>4, <1>t DEF addStore, AddInv
  <2>2. tmp \in Slots
    BY <1>0, <2>1 DEF Slots
  <2>3. /\ m_queue' = [m_queue EXCEPT ![tmp] = error] /\ m_index' = m_index
        /\ UNCHANGED <<stack, expected, reported>> /\ pc' = "idle"
    BY <1>4, <2>2 DEF addStore, Store, ghosts
  <2>4. \A i \in 1 .. Len(stack) : m_queue'[i - 1] = stack[i]
    <3> SUFFICES ASSUME NEW i \in 1 .. Len(stack) PROVE m_queue'[i - 1] = stack[i]
      OBVIOUS
    <3>1. i - 1 \in Slots
      BY <1>0, <2>1, <2>2 DEF Slots
    <3>2. CASE i - 1 = tmp
      <4>1. i = tmp + 1
        BY <1>0, <3>2
      <4> QED
        BY <1>0, <2>1, <2>2, <2>3, <3>2, <4>1
    <3>3. CASE i - 1 # tmp
      <4>1. i \in 1 .. tmp
        BY <1>0, <2>1, <3>3
      <4> QED
        BY <1>0, <2>1, <2>2, <2>3, <3>1, <3>3, <4>1 DEF Holds
    <3> QED
      BY <3>2, <3>3
  <2> QED
    BY <2>1, <2>3, <2>4 DEF AddInv, PopInv, Holds
<1>5. CASE popCheck
  <2>1. /\ m_index = Len(stack) /\ Holds(Len(stack)) /\ reported = expected
        /\ stack' = pop(stack) /\ expected' = popped(stack)
        /\ UNCHANGED <<m_queue, m_index>>
    BY <1>5, <1>t DEF popCheck, AddInv
  <2>2. CASE m_index = 0
    <3>1. stack' = stack /\ expected' = "None" /\ reported' = "None" /\ pc' = "idle"
      BY <1>0, <1>5, <2>1, <2>2, PopEffect DEF popCheck
    <3> QED
      BY <2>1, <3>1 DEF AddInv, PopInv, Holds
  <2>3. CASE m_index # 0
    <3>1. /\ expected' = stack[Len(stack)]
          /\ Len(stack') = Len(stack) - 1
          /\ \A i \in 1 .. Len(stack) - 1 : stack'[i] = stack[i]
          /\ pc' = "popLoad"
      BY <1>0, <1>5, <2>1, <2>3, PopEffect DEF popCheck
    <3>2. Len(stack) \in 1 .. Len(stack)
      BY <1>0, <2>1, <2>3
    <3>3. m_queue[Len(stack) - 1] = stack[Len(stack)]
      BY <2>1, <3>2 DEF Holds
    <3>4. Holds(Len(stack))'
      BY <1>0, <2>1, <3>1 DEF Holds
    <3>5. Len(stack') + 1 = m_index /\ Len(stack') < MAX_ERROR_QUEUE_SIZE
      BY <1>0, <2>1, <3>1
    <3>6. m_queue'[Len(stack')] = expected'
      BY <2>1, <3>1, <3>3
    <3>7. PopInv'
      BY <2>1, <3>1, <3>4, <3>5, <3>6 DEF PopInv
    <3> QED
      BY <3>1, <3>7 DEF AddInv
  <2> QED
    BY <2>2, <2>3
<1>6. CASE popLoad
    BY <1>6, <1>t DEF popLoad, ghosts, AddInv, PopInv, Holds
<1>7. CASE popDecrement
    BY <1>0, <1>7, <1>t DEF popDecrement, ghosts, AddInv, PopInv, Holds
<1>8. CASE popReload
    BY <1>8, <1>t DEF popReload, ghosts, AddInv, PopInv, Holds
<1>9. CASE popRead
  <2>1. tmp = Len(stack) /\ m_index = Len(stack) /\ Holds(Len(stack))
        /\ m_queue[Len(stack)] = expected /\ Len(stack) < MAX_ERROR_QUEUE_SIZE
    BY <1>9, <1>t DEF popRead, PopInv
  <2>2. tmp \in Slots
    BY <1>0, <2>1 DEF Slots
  <2>3. reported' = expected /\ pc' = "idle" /\ UNCHANGED <<m_queue, m_index, stack, expected>>
    BY <1>9, <2>1, <2>2 DEF popRead, Load, ghosts
  <2> QED
    BY <2>1, <2>3 DEF AddInv, PopInv, Holds
<1>10. CASE abortAdd
  <2>1. pc = "idle" /\ UNCHANGED <<pc, reported, expected>>
    BY <1>10 DEF abortAdd
  <2>2. /\ m_index = Len(stack) /\ Holds(Len(stack)) /\ reported = expected
        /\ stack' = add(stack, "ConversionAborted") /\ "ConversionAborted" \in Error
    BY <1>10, <1>t, <2>1 DEF abortAdd, AddInv, Error
  <2>3. CASE m_index < MAX_ERROR_QUEUE_SIZE
    <3>1. /\ Len(stack') = Len(stack) + 1
          /\ \A i \in 1 .. Len(stack) : stack'[i] = stack[i]
          /\ stack'[Len(stack) + 1] = "ConversionAborted"
      BY <1>0, <2>2, <2>3, AddEffect
    <3>2. m_queue' = [m_queue EXCEPT ![m_index] = "ConversionAborted"]
          /\ m_index' = m_index + 1
      BY <1>10, <2>3 DEF abortAdd
    <3>3. ASSUME NEW i \in 1 .. Len(stack') PROVE m_queue'[i - 1] = stack'[i]
      <4>1. i - 1 \in Slots
        BY <1>0, <2>2, <2>3, <3>1, <3>3 DEF Slots
      <4>2. CASE i \in 1 .. Len(stack)
        <5>1. i - 1 # m_index
          BY <1>0, <2>2, <4>2
        <5> QED
          BY <1>0, <2>2, <3>1, <3>2, <4>1, <4>2, <5>1 DEF Holds
      <4>3. CASE i \notin 1 .. Len(stack)
        <5>1. i = Len(stack) + 1 /\ i - 1 = m_index
          BY <1>0, <2>2, <3>1, <3>3, <4>3
        <5> QED
          BY <1>0, <3>1, <3>2, <4>1, <5>1
      <4> QED
        BY <4>2, <4>3
    <3> QED
      BY <2>1, <2>2, <3>1, <3>2, <3>3 DEF AddInv, PopInv, Holds
  <2>4. CASE ~(m_index < MAX_ERROR_QUEUE_SIZE)
    <3>1. stack' = stack /\ UNCHANGED <<m_queue, m_index>>
      BY <1>0, <1>10, <2>2, <2>4, AddEffect DEF abortAdd
    <3> QED
      BY <2>1, <2>2, <3>1 DEF AddInv, PopInv, Holds
  <2> QED
    BY <2>3, <2>4
<1>11. CASE UNCHANGED vars
    BY <1>11, <1>t DEF vars, AddInv, PopInv, Holds
<1> QED
    BY <1>1, <1>2, <1>3, <1>4, <1>5, <1>6, <1>7, <1>8, <1>9, <1>10, <1>11
    DEF Next

-----------------------------------------------------------------------------
(* The theorems.                                                           *)

\* The manager starts empty, with both invariants.
LEMMA InitInv == Init => DamageInv /\ StackInv
<1> SUFFICES ASSUME Init PROVE DamageInv /\ StackInv
    OBVIOUS
<1>0. <<>> \in Seq(Error) /\ Len(<<>>) = 0
    OBVIOUS
<1>1. TypeOK
  <2>1. stack \in ErrorStacks
    BY <1>0, ErrorQueueAssumption DEF Init, ErrorStacks
  <2>2. m_queue \in [Slots -> Error \union {"None"}]
    BY DEF Init
  <2>3. torn \in BOOLEAN /\ owed \in BOOLEAN
    BY Zenon DEF Init
  <2>4. m_index \in 0 .. MAX_ERROR_QUEUE_SIZE + 1 /\ tmp \in 0 .. MAX_ERROR_QUEUE_SIZE
    BY ErrorQueueAssumption DEF Init
  <2> QED
    BY <2>1, <2>2, <2>3, <2>4 DEF Init, TypeOK
<1>2. IndexInv
    BY ErrorQueueAssumption DEF Init, IndexInv
<1>3. AddInv /\ PopInv
    BY <1>0 DEF Init, AddInv, PopInv, Holds
<1> QED
    BY <1>1, <1>2, <1>3 DEF DamageInv, StackInv

\* Both invariants hold throughout.
THEOREM Invariance == Spec => [](DamageInv /\ StackInv)
<1>1. DamageInv /\ StackInv /\ [Next]_vars => (DamageInv /\ StackInv)'
    BY DamageInductive, StackInductive
<1> QED
    BY <1>1, InitInv, PTL DEF Spec

\* Every variable keeps its type: m_index is at most one past its largest
\* value even in the middle of an operation an abort has hit.
THEOREM TypeCorrect == Spec => []TypeOK
<1>1. DamageInv /\ StackInv => TypeOK
    BY DEF DamageInv
<1> QED
    BY <1>1, Invariance, PTL

\* Whatever add or pop an abort hits, and wherever, m_index is back in its
\* range when the operation returns and no store or load leaves the object.
THEOREM DamageSafe == Spec => []DamageContained
<1>1. DamageInv /\ StackInv => DamageContained
    BY ErrorQueueAssumption DEF DamageInv, IndexInv, TypeOK, DamageContained
<1> QED
    BY <1>1, Invariance, PTL

\* Until an abort hits inside an operation, add and pop are the operations of
\* the bounded stack, with aborts in between them.
THEOREM StackSafe == Spec => []ImplementsStack
<1>1. DamageInv /\ StackInv => ImplementsStack
    BY DEF StackInv, AddInv, Holds, ImplementsStack
<1> QED
    BY <1>1, Invariance, PTL

=============================================================================
