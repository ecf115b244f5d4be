------------------------------ MODULE Pipeline ------------------------------
(***************************************************************************)
(* What the signal-processing pipeline promises, without its threads, its  *)
(* mailbox and its interrupts: every half of the input buffer that fills   *)
(* becomes a request; requests are worked on one at a time, in the order   *)
(* in which the halves filled, each once.  A request is given up only in   *)
(* an overrun, which unloads the algorithm.                                *)
(***************************************************************************)
EXTENDS Naturals, Sequences

CONSTANTS
    Request,       \* requests
    None,          \* no request
    Half,          \* the two halves of the input buffer
    Other(_),      \* the other half
    HalfOf(_)      \* the half a request is about

VARIABLES
    half,          \* the half being filled
    pending,       \* requests not yet begun, oldest first
    working,       \* the request being worked on, or None
    loaded         \* an algorithm is loaded

vars == <<half, pending, working, loaded>>

\* Requests the pipeline takes on beyond the one it works on.
Room == 3

\* The half being filled is full and becomes a request.
Accept ==
    /\ half' = Other(half)
    /\ Len(pending) < Room
    /\ \E request \in Request :
         /\ HalfOf(request) = half
         /\ pending' = Append(pending, request)
    /\ UNCHANGED <<working, loaded>>

\* The half being filled is full and two requests or more are pending: it is
\* given up with them, except for one that is already being handed over, and
\* the algorithm is unloaded.  The work under way may be given up too.
Overrun ==
    /\ half' = Other(half)
    /\ Len(pending) > 1
    /\ pending' \in {<<>>, SubSeq(pending, 1, 1)}
    /\ working' \in {working, None}
    /\ loaded' = FALSE

\* The oldest request is taken up; the previous one is over.
Begin ==
    /\ pending # <<>>
    /\ working = None
    /\ working' = Head(pending)
    /\ pending' = Tail(pending)
    /\ UNCHANGED <<half, loaded>>

\* The work is done, or a fault of the algorithm ends it.
End ==
    /\ working # None
    /\ working' = None
    /\ loaded' \in {loaded, FALSE}
    /\ UNCHANGED <<half, pending>>

\* A conversion starts over, with nothing left of the previous one.
Restart ==
    /\ pending = <<>> /\ working = None
    /\ half' \in Half
    /\ UNCHANGED <<pending, working, loaded>>

\* An algorithm is loaded with no work under way, or unloaded at any time.
Load ==
    /\ loaded' \in {FALSE, pending = <<>> /\ working = None}
    /\ UNCHANGED <<half, pending, working>>

Init ==
    /\ half \in Half
    /\ pending = <<>>
    /\ working = None
    /\ loaded = FALSE

Next == Accept \/ Overrun \/ Begin \/ End \/ Restart \/ Load

Spec == Init /\ [][Next]_vars

=============================================================================
