----------------------------- MODULE ErrorStack -----------------------------
(***************************************************************************)
(* What ErrorManager (src/source/error.cpp) keeps: a bounded stack of the  *)
(* errors not yet reported to the host.  add drops an error that finds the *)
(* stack full; pop reports the newest one.  These are the operations as    *)
(* they behave when nothing interrupts them; ErrorManager.tla takes them   *)
(* apart into the machine's steps.                                         *)
(***************************************************************************)
EXTENDS Naturals, Sequences

CONSTANT MAX_ERROR_QUEUE_SIZE

ASSUME ErrorQueueAssumption == MAX_ERROR_QUEUE_SIZE \in Nat \ {0}

\* enum class Error, without None: None is the answer of pop on an empty stack.
Error == {"BadParam", "BadParamSize", "BadUserCodeLoad", "BadUserCodeSize",
          "NotIdle", "ConversionAborted", "NotRunning"}

ErrorStacks == {q \in Seq(Error) : Len(q) <= MAX_ERROR_QUEUE_SIZE}

\* Mutant: no test for room.
add_unchecked(q, error) == Append(q, error)

\* ErrorManager::add.
add(q, error) == IF Len(q) < MAX_ERROR_QUEUE_SIZE THEN Append(q, error) ELSE q

\* EM.assert(condition, error): the stack after it.
assert(q, condition, error) == IF condition THEN q ELSE add(q, error)

\* The error pop returns, and the stack it leaves.
popped(q) == IF q = <<>> THEN "None" ELSE q[Len(q)]
pop(q) == IF q = <<>> THEN q ELSE SubSeq(q, 1, Len(q) - 1)

=============================================================================
