-------------------------- MODULE ErrorStackProofs --------------------------
(***************************************************************************)
(* Facts about the operations of ErrorStack, for every size of the stack.  *)
(***************************************************************************)
EXTENDS ErrorStack, SequenceTheorems, TLAPS

\* ErrorManager::add keeps the stack a stack of at most
\* MAX_ERROR_QUEUE_SIZE errors.
LEMMA AddType ==
    ASSUME NEW q \in ErrorStacks, NEW error \in Error
    PROVE  add(q, error) \in ErrorStacks
BY ErrorQueueAssumption DEF add, ErrorStacks

\* So does EM.assert, whatever its condition.
LEMMA AssertType ==
    ASSUME NEW q \in ErrorStacks, NEW error \in Error, NEW condition \in BOOLEAN
    PROVE  assert(q, condition, error) \in ErrorStacks
BY AddType DEF assert

\* ErrorManager::pop keeps it one too.
LEMMA PopType ==
    ASSUME NEW q \in ErrorStacks
    PROVE  pop(q) \in ErrorStacks
BY ErrorQueueAssumption DEF pop, ErrorStacks

\* What add does to the elements: room, and the error is on top; no room, and
\* nothing changes.
LEMMA AddEffect ==
    ASSUME NEW q \in ErrorStacks, NEW error \in Error
    PROVE  /\ Len(q) < MAX_ERROR_QUEUE_SIZE =>
                /\ Len(add(q, error)) = Len(q) + 1
                /\ \A i \in 1 .. Len(q) : add(q, error)[i] = q[i]
                /\ add(q, error)[Len(q) + 1] = error
           /\ ~(Len(q) < MAX_ERROR_QUEUE_SIZE) => add(q, error) = q
<1>1. q \in Seq(Error)
    BY DEF ErrorStacks
<1> QED
    BY <1>1, AppendProperties DEF add

\* What pop does to them: it answers with the top and leaves the rest.
LEMMA PopEffect ==
    ASSUME NEW q \in ErrorStacks
    PROVE  /\ Len(q) \in Nat
           /\ Len(q) = 0 => pop(q) = q /\ popped(q) = "None"
           /\ Len(q) # 0 => /\ popped(q) = q[Len(q)]
                            /\ Len(pop(q)) = Len(q) - 1
                            /\ \A i \in 1 .. Len(q) - 1 : pop(q)[i] = q[i]
<1>1. q \in Seq(Error) /\ Len(q) \in Nat
    BY DEF ErrorStacks
<1>2. Len(q) = 0 <=> q = <<>>
    BY <1>1, EmptySeq
<1>3. CASE q = <<>>
  <2>1. pop(q) = q /\ popped(q) = "None"
    BY <1>3 DEF pop, popped
  <2> QED
    BY <1>1, <1>2, <1>3, <2>1, Zenon
<1>4. CASE q # <<>>
  <2>1. pop(q) = SubSeq(q, 1, Len(q) - 1) /\ popped(q) = q[Len(q)] /\ Len(q) > 0
    BY <1>1, <1>2, <1>4 DEF pop, popped
  <2>2. \A i \in 1 .. Len(q) - 1 : q[i] \in Error
    BY <1>1
  <2>3. /\ Len(SubSeq(q, 1, Len(q) - 1)) = Len(q) - 1
        /\ \A i \in 1 .. Len(q) - 1 : SubSeq(q, 1, Len(q) - 1)[i] = q[i]
    <3> DEFINE n == Len(q) - 1
    <3>1. n \in Nat /\ n \in Int /\ 1 \in Int
      BY <1>1, <2>1
    <3>2. \A i \in 1 .. n : q[i] \in Error
      BY <2>2
    <3> HIDE DEF n
    <3>3. /\ Len(SubSeq(q, 1, n)) = IF 1 <= n THEN n - 1 + 1 ELSE 0
          /\ \A i \in 1 .. n - 1 + 1 : SubSeq(q, 1, n)[i] = q[1 + i - 1]
      BY <3>1, <3>2, SubSeqProperties
    <3>4. Len(SubSeq(q, 1, n)) = n
      BY <3>1, <3>3
    <3>5. \A i \in 1 .. n : i \in 1 .. n - 1 + 1 /\ 1 + i - 1 = i
      BY <3>1
    <3>6. \A i \in 1 .. n : SubSeq(q, 1, n)[i] = q[i]
      BY <3>3, <3>5
    <3> QED
      BY <3>4, <3>6 DEF n
  <2> QED
    BY <1>1, <1>2, <1>4, <2>1, <2>3
<1> QED
    BY <1>3, <1>4

=============================================================================
