--------------------------- MODULE StatusMonitor ----------------------------
(***************************************************************************)
(* The thread of src/source/monitor.cpp: it blinks a light by run_status,  *)
(* shows on the red one whether there are errors, and stops the whole      *)
(* device, with the kernel locked, from one press of the button to the     *)
(* next.  It has the lowest priority.                                      *)
(***************************************************************************)

VARIABLES
    led,       \* where the thread is
    isidle,    \* run_status was Idle when the blink began
    erroron,   \* the thread's copy of what the red light shows
    red,       \* the red light is on
    begun      \* a conversion has begun since isidle was read

ledVars == <<led, isidle, erroron, red, begun>>

LedInit ==
    /\ led = "blink" /\ isidle = FALSE /\ erroron = FALSE
    /\ red = FALSE /\ begun = FALSE

\* The kernel is locked: no interrupt is taken and no other thread runs.
Locked == led = "locked"

\* The blink begins; the light is toggled twice, with a sleep after each.
ledBlink(idle) ==
    /\ led = "blink"
    /\ led' = "check"
    /\ isidle' = idle
    /\ begun' = FALSE
    /\ UNCHANGED <<erroron, red>>

\* Mutant: the button works in every state.
ledCheck_always ==
    /\ led = "check"
    /\ \E button \in BOOLEAN : led' = IF button THEN "locked" ELSE "error"
    /\ UNCHANGED <<isidle, erroron, red, begun>>

\* Half a second or a second later; the button is pressed or not.
ledCheck ==
    /\ led = "check"
    /\ \E button \in BOOLEAN :
           led' = IF isidle /\ button THEN "locked" ELSE "error"
    /\ UNCHANGED <<isidle, erroron, red, begun>>

\* The kernel stays locked until the user has released the button and pressed it
\* again.
ledUnlock ==
    /\ led = "locked"
    /\ led' = "error"
    /\ UNCHANGED <<isidle, erroron, red, begun>>

\* Mutant: the test is and, not exclusive or.
ledError_and(err) ==
    /\ led = "error"
    /\ led' = "blink"
    /\ IF err /\ erroron THEN erroron' = err /\ red' = err
                         ELSE UNCHANGED <<erroron, red>>
    /\ isidle' = FALSE /\ begun' = FALSE

\* The red light follows hasError when it differs from the thread's copy.
ledError(err) ==
    /\ led = "error"
    /\ led' = "blink"
    /\ IF err # erroron THEN erroron' = err /\ red' = err
                        ELSE UNCHANGED <<erroron, red>>
    /\ isidle' = FALSE /\ begun' = FALSE

LedTypeOK ==
    /\ led \in {"blink", "check", "locked", "error"}
    /\ isidle \in BOOLEAN /\ erroron \in BOOLEAN /\ red \in BOOLEAN
    /\ begun \in BOOLEAN

=============================================================================
