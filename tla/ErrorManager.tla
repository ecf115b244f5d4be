---------------------------- MODULE ErrorManager ----------------------------
(***************************************************************************)
(* ErrorManager (src/source/error.cpp) in the steps the processor takes.   *)
(* The communication thread adds and pops errors with no protection, while *)
(* abort, in the ADC interrupt or in a fault of the runner it is           *)
(* pre-empted by, adds ConversionAborted between any two of its steps.     *)
(* The steps are those of the build, which does not optimise: m_index is   *)
(* loaded for the test, loaded again for the update, and pop loads it once *)
(* more to index the queue.                                                *)
(***************************************************************************)
EXTENDS Integers, Sequences, ErrorStack

CONSTANT HostErrors   \* the errors the communication thread adds

ASSUME HostErrorAssumption ==
    HostErrors \subseteq Error \ {"ConversionAborted"}

\* An Error's number is an index of the queue, or one past its end.
ASSUME RoomAssumption == MAX_ERROR_QUEUE_SIZE >= 7

VARIABLES
    m_queue,   \* the array, by index
    m_index,   \* the next free slot
    pc,        \* where the communication thread is
    tmp,       \* the index it has in a register
    error,     \* the error it is adding
    reported,  \* what the last pop answered
    stack,     \* the stack the operations should have produced,
    expected,  \*   the answer pop should have given,
    torn,      \*   and whether an abort has hit inside an operation
    owed       \* an abort was recorded and no pop has begun since

vars == <<m_queue, m_index, pc, tmp, error, reported, stack, expected, torn, owed>>
ghosts == <<stack, expected, torn, owed>>

Slots == 0 .. MAX_ERROR_QUEUE_SIZE - 1

\* enum class Error, in order.
Code(e) ==
    CHOOSE n \in 0 .. 7 :
        e = <<"None", "BadParam", "BadParamSize", "BadUserCodeLoad",
              "BadUserCodeSize", "NotIdle", "ConversionAborted",
              "NotRunning">>[n + 1]

\* m_queue[i] = e.  One past its end lies the low byte of m_index.
Store(i, e) ==
    IF i \in Slots
      THEN m_queue' = [m_queue EXCEPT ![i] = e] /\ UNCHANGED m_index
      ELSE m_index' = Code(e) /\ UNCHANGED m_queue

\* The value of m_queue[i]; one past the end it is no Error.
Load(i) == IF i \in Slots THEN m_queue[i] ELSE "garbage"

Init ==
    /\ m_queue = [i \in Slots |-> "None"]
    /\ m_index = 0
    /\ pc = "idle"
    /\ tmp = 0
    /\ error = "None"
    /\ reported = "None"
    /\ stack = <<>>
    /\ expected = "None"
    /\ torn = FALSE
    /\ owed = FALSE

-----------------------------------------------------------------------------
(* add, in the communication thread: EM.assert of a condition that fails.  *)

addCheck(e) ==
    /\ pc = "idle"
    /\ pc' = IF m_index < MAX_ERROR_QUEUE_SIZE THEN "addLoad" ELSE "idle"
    /\ error' = e
    /\ stack' = IF torn THEN stack ELSE add(stack, e)
    /\ UNCHANGED <<m_queue, m_index, tmp, reported, expected, torn, owed>>

addLoad ==
    /\ pc = "addLoad"
    /\ pc' = "addIncrement"
    /\ tmp' = m_index
    /\ UNCHANGED <<m_queue, m_index, error, reported, ghosts>>

\* Mutant: the increment takes m_index from memory, not from the register.
addIncrement_memory ==
    /\ pc = "addIncrement"
    /\ pc' = "addStore"
    /\ m_index' = m_index + 1
    /\ UNCHANGED <<m_queue, tmp, error, reported, ghosts>>

addIncrement ==
    /\ pc = "addIncrement"
    /\ pc' = "addStore"
    /\ m_index' = tmp + 1
    /\ UNCHANGED <<m_queue, tmp, error, reported, ghosts>>

addStore ==
    /\ pc = "addStore"
    /\ pc' = "idle"
    /\ Store(tmp, error)
    /\ UNCHANGED <<tmp, error, reported, ghosts>>

-----------------------------------------------------------------------------
(* pop, in the communication thread.                                       *)

\* Mutant: no test for an empty stack.
popCheck_unguarded ==
    /\ pc = "idle"
    /\ pc' = "popLoad"
    /\ stack' = IF torn THEN stack ELSE pop(stack)
    /\ expected' = IF torn THEN expected ELSE popped(stack)
    /\ owed' = FALSE
    /\ UNCHANGED <<m_queue, m_index, tmp, error, reported, torn>>

popCheck ==
    /\ pc = "idle"
    /\ pc' = IF m_index = 0 THEN "idle" ELSE "popLoad"
    /\ reported' = IF m_index = 0 THEN "None" ELSE reported
    /\ stack' = IF torn THEN stack ELSE pop(stack)
    /\ expected' = IF torn THEN expected ELSE popped(stack)
    /\ owed' = FALSE
    /\ UNCHANGED <<m_queue, m_index, tmp, error, torn>>

popLoad ==
    /\ pc = "popLoad"
    /\ pc' = "popDecrement"
    /\ tmp' = m_index
    /\ UNCHANGED <<m_queue, m_index, error, reported, ghosts>>

\* Mutant: m_queue[m_index--], which reads at the old index.
popDecrement_post ==
    /\ pc = "popDecrement"
    /\ pc' = "popRead"
    /\ m_index' = tmp - 1
    /\ UNCHANGED <<m_queue, tmp, error, reported, ghosts>>

popDecrement ==
    /\ pc = "popDecrement"
    /\ pc' = "popReload"
    /\ m_index' = tmp - 1
    /\ UNCHANGED <<m_queue, tmp, error, reported, ghosts>>

popReload ==
    /\ pc = "popReload"
    /\ pc' = "popRead"
    /\ tmp' = m_index
    /\ UNCHANGED <<m_queue, m_index, error, reported, ghosts>>

popRead ==
    /\ pc = "popRead"
    /\ pc' = "idle"
    /\ reported' = Load(tmp)
    /\ UNCHANGED <<m_queue, m_index, tmp, error, ghosts>>

-----------------------------------------------------------------------------
\* EM.add(Error::ConversionAborted) in abort.  Nothing that adds or pops can
\* pre-empt it.
abortAdd ==
    /\ IF m_index < MAX_ERROR_QUEUE_SIZE
         THEN /\ m_queue' = [m_queue EXCEPT ![m_index] = "ConversionAborted"]
              /\ m_index' = m_index + 1
              /\ owed' = TRUE
         ELSE UNCHANGED <<m_queue, m_index, owed>>
    /\ torn' = (torn \/ pc # "idle")
    /\ stack' = IF torn' THEN <<>> ELSE add(stack, "ConversionAborted")
    /\ expected' = IF torn' THEN "None" ELSE expected
    /\ UNCHANGED <<pc, tmp, error, reported>>

Next ==
    \/ \E e \in HostErrors : addCheck(e)
    \/ addLoad \/ addIncrement \/ addStore
    \/ popCheck \/ popLoad \/ popDecrement \/ popReload \/ popRead
    \/ abortAdd

Spec == Init /\ [][Next]_vars

-----------------------------------------------------------------------------
\* Types; m_index is at most two past the last slot, even inside an operation.
TypeOK ==
    /\ m_queue \in [Slots -> Error \union {"None"}]
    /\ m_index \in 0 .. MAX_ERROR_QUEUE_SIZE + 1
    /\ pc \in {"idle", "addLoad", "addIncrement", "addStore",
               "popLoad", "popDecrement", "popReload", "popRead"}
    /\ tmp \in 0 .. MAX_ERROR_QUEUE_SIZE
    /\ error \in Error \union {"None"}
    /\ reported \in Error \union {"None", "garbage"}
    /\ stack \in ErrorStacks
    /\ torn \in BOOLEAN
    /\ owed \in BOOLEAN

\* Operations no abort hits implement the bounded stack: between operations
\* the queue below m_index is the stack and pop answered with its top.
ImplementsStack ==
    pc = "idle" /\ ~torn =>
        /\ m_index = Len(stack)
        /\ \A i \in 1 .. Len(stack) : m_queue[i - 1] = stack[i]
        /\ reported = expected

\* Whatever an abort hits, the index recovers its range by the end of the
\* operation, and add and pop touch nothing beyond the object: at worst
\* m_index itself, one past the end of m_queue.
DamageContained ==
    /\ pc = "idle" => m_index <= MAX_ERROR_QUEUE_SIZE
    /\ pc = "addStore" => tmp <= MAX_ERROR_QUEUE_SIZE
    /\ pc = "popRead" => tmp <= MAX_ERROR_QUEUE_SIZE

\* "Tracks and reports non-critical errors": an abort that found room in the
\* queue is still there, or was answered, when the operation it hit is over.
AbortIsTracked ==
    pc = "idle" /\ owed =>
        \/ \E i \in 0 .. m_index - 1 : m_queue[i] = "ConversionAborted"
        \/ reported = "ConversionAborted"

=============================================================================
