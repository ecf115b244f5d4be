------------------------------- MODULE Device -------------------------------
(***************************************************************************)
(* The communication thread and the host (CommandLink) with the status     *)
(* thread (StatusMonitor), which reads the run_status and the errors the   *)
(* former keeps, runs only while it sleeps or waits, and can stop it.      *)
(***************************************************************************)
EXTENDS CommandLink, StatusMonitor

VARIABLE starved    \* the pipeline never leaves the processor to them again

vars == <<linkVars, ledVars, starved>>

Init == LinkInit /\ LedInit /\ starved = FALSE

ConversionBegins == run_status = "Idle" /\ run_status' = "Running"

\* A step of CommandLink: not while the kernel is locked, and none once the
\* framing is lost, where that model ends.
Beside ==
    /\ ~Locked /\ framing = "kept"
    /\ begun' = (led # "blink" /\ (begun \/ ConversionBegins))
    /\ UNCHANGED <<led, isidle, erroron, red, starved>>

Comm == CommStep /\ ~starved /\ Beside
Host == HostStep /\ Beside
Outside == OutsideStep /\ Beside

\* A step of the status thread.
Led ==
    /\ ~starved
    /\ Asleep \/ framing = "lost"
    /\ ledBlink(run_status = "Idle") \/ ledCheck \/ ledError(hasError)
    /\ UNCHANGED <<linkVars, starved>>

\* The user ends the lock, some time or never.
Button == ledUnlock /\ UNCHANGED <<linkVars, starved>>

\* The runner has the highest priority, and what it calls may not return: an
\* undefined service spins, abort does not end a system call, a fault handler can
\* hang.  Interrupts go on, and may add an error.
Starve ==
    /\ ~starved /\ ~Locked /\ framing = "kept" /\ run_status = "Running"
    /\ starved' = TRUE
    /\ UNCHANGED <<linkVars, ledVars>>

Next == Comm \/ Host \/ Outside \/ Led \/ Button \/ Starve

Spec == Init /\ [][Next]_vars

\* Unless it keeps the processor for good, the pipeline leaves it again and again.
\* Then the communication thread runs when it can, and the host goes on with what
\* it has begun; the status thread runs if the other sleeps again and again.
Fairness == WF_vars(Comm) /\ WF_vars(Host) /\ SF_vars(Led)

FairSpec == Spec /\ Fairness

-----------------------------------------------------------------------------
\* Types; the queues stay within their size.
TypeOK == LinkTypeOK /\ LedTypeOK /\ starved \in BOOLEAN

\* The communication thread takes every byte for what the host sent it as, until
\* a command is refused with bytes to come or the link goes down once the thread
\* has found it active.  Setting the link up anew, with the thread back in its
\* loop, makes up for both: the queues are emptied (sduConfigureHookI) and the host
\* begins again.
FramingKept == framing = "lost" => disturbed

\* The host can neither send nor receive, and the thread has nothing to read or
\* no room to write to.
HostWaits == IF out = <<>> THEN host = "idle" \/ tx = <<>> ELSE Len(rx) = QUEUE
ThreadWaits == Waits \/ (comm.at = "top" /\ rx = <<>>)

\* Reads and writes wait without limit (usbserial.cpp) and the queues are bounded,
\* yet the host and the thread never wait for each other: when both wait, the
\* last command is over, or something has disturbed the link.
NoStandoff ==
    HostWaits /\ ThreadWaits =>
        disturbed \/ (host = "idle" /\ out = <<>> /\ comm.at = "top")

\* As long as nothing disturbs the link, the host gets every answer and chunk
\* it waits for, and the communication thread every byte: they never wait for
\* each other, whatever is queued.  A press of the button stops both, and the
\* pipeline can.
NobodyWaitsForever ==
    /\ host # "idle" ~>
         host = "idle" \/ disturbed \/ suspended \/ Locked \/ starved
    /\ comm.at # "top" ~> comm.at = "top" \/ disturbed \/ Locked \/ starved

\* The button stops the device only when it was idle as the blink began.  The
\* conversion it stops, if any, was begun during the blink (monitor.cpp, isidle).
LockSeesIdle == Locked /\ run_status = "Running" => begun

\* An error is shown, unless the host takes it first, the thread is locked or
\* another takes the whole processor: the communication thread, polling for an
\* acknowledgement over a link that is down, or the runner.
RedFollowsErrors ==
    hasError /\ ~red ~> red \/ ~hasError \/ Spinning \/ Locked \/ starved

\* "Packet received, first byte represents the desired command/action"
\* (communication.cpp:78): what threadComm reads first is a command.
PacketStartsWithCommand == framing # "lost"

=============================================================================
