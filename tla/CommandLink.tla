---------------------------- MODULE CommandLink -----------------------------
(***************************************************************************)
(* The command protocol between the host and the communication thread      *)
(* (src/source/communication.cpp) over the USB serial driver.  The link is *)
(* a stream of bytes without packets: what a byte means depends on where   *)
(* the thread is when it reads it.  Reads and writes wait without limit,   *)
(* except that a suspended link makes them return early.                   *)
(*                                                                         *)
(* The host keeps to the protocol: it sends whole commands, waits for the  *)
(* answer where there is one and acknowledges every chunk.  It does not    *)
(* know when the device refuses a command.  The model ends at the first    *)
(* byte taken for something it is not: what follows depends on the data.   *)
(***************************************************************************)
EXTENDS Integers, Sequences

CONSTANTS
    MAX_ERROR_QUEUE_SIZE,
    QUEUE,      \* bytes the driver's queues hold each way
    PAYLOAD,    \* bytes of a file, of a buffer and of half the generator's
    CHUNKS,     \* chunks of a streamed half
    MaxDrops    \* bound: suspensions of the link in a behaviour

ASSUME LinkAssumption ==
    /\ MAX_ERROR_QUEUE_SIZE \in Nat \ {0} /\ QUEUE \in Nat \ {0}
    /\ PAYLOAD \in Nat \ {0} /\ CHUNKS \in Nat \ {0}
    /\ MaxDrops \in Nat

VARIABLES
    run_status,
    em,         \* how many errors ErrorManager holds: which is not told apart
    generating, \* the signal generator is on; it stays as it is
    suspended,  \* the bus is suspended or disconnected
    rx, tx,     \* the driver's queues, from and to the host
    comm,       \* the communication thread: where it is, in which command, and
                \* the bytes or chunks it still has to transfer
    woken,      \* its read or write was cut short: MSG_RESET
    host,       \* "idle", or the host awaits an "answer" or a "chunk"
    due,        \* chunks it still expects
    out,        \* bytes it still has to send
    framing,    \* "lost" once a byte was taken for what it is not
    disturbed,  \* a reason for that has come up since the link was set up
    drops       \* suspensions so far

commVars == <<comm, woken>>
devVars == <<run_status, em, generating>>
hostVars == <<host, due, out>>
ghosts == <<framing, disturbed, drops>>
linkVars == <<devVars, suspended, rx, tx, commVars, hostVars, ghosts>>

-----------------------------------------------------------------------------
(* Bytes.                                                                  *)

\* 'A' is sent with data, 'B', 'D', 'E' and 'r' with parameters, 'D' and 'E'
\* with data after them; 's' stands for 's' and 't'.  'a', 'd', 'i' and 'm' only
\* answer, as 'r' may; 'M', 'W', 'e', 'u' and 'w' do not even that.
Command == {"A", "B", "D", "E", "I", "R", "S", "r", "s"}
Args == [c \in {"B", "D", "E", "r"} |-> IF c = "r" THEN 1 ELSE 2]

\* The first byte of a size, and the second: with it the size is known to be
\* in range or not.  A rate of 0xFF, "big" too, asks for the one in use.
Arg == {"low", "fits", "big"}
Byte == Command \union Arg \union {"data", "ack"}

Answer == {"status", "zero", "one", "size", "chunk"}

\* n bytes of data.
Data(n) == [i \in 1 .. n |-> "data"]

\* What the host sends for the command c, with a size that fits or not.
Bytes(c, size) ==
    CASE c = "A" -> <<c>> \o Data(PAYLOAD)
      [] c = "r" -> <<c, size>>
      [] c = "B" \/ (c = "D" /\ generating) -> <<c, "low", size>>
      [] c = "E" \/ (c = "D" /\ ~generating) ->
             <<c, "low", size>> \o Data(PAYLOAD)
      [] OTHER -> <<c>>

Answered(c, size) ==
    \/ c \in {"I", "s"}
    \/ c = "D" /\ generating
    \/ c = "r" /\ size = "big"

-----------------------------------------------------------------------------
(* ErrorManager, as ErrorStack.tla has it.                                 *)

add == IF em < MAX_ERROR_QUEUE_SIZE THEN em + 1 ELSE em
assert(condition) == IF condition THEN em ELSE add

\* Mutant: pop does not look whether there is an error.
pop_unchecked == em - 1

pop == IF em = 0 THEN 0 ELSE em - 1
hasError == em > 0

-----------------------------------------------------------------------------
\* Between two commands.
Top == [at |-> "top", cmd |-> "none", left |-> 0]

LinkInit ==
    /\ run_status = "Idle" /\ em = 0
    /\ generating \in BOOLEAN
    /\ suspended = FALSE /\ rx = <<>> /\ tx = <<>> /\ drops = 0
    /\ comm = Top /\ woken = FALSE
    /\ host = "idle" /\ due = 0 /\ out = <<>>
    /\ framing = "kept" /\ disturbed = FALSE

-----------------------------------------------------------------------------
(* The host.                                                               *)

hostCommand(c, size) ==
    /\ ~suspended
    /\ host = "idle" /\ out = <<>>
    /\ out' = Bytes(c, size)
    /\ host' = IF Answered(c, size) THEN "answer" ELSE "idle"
    /\ UNCHANGED <<devVars, suspended, rx, tx, commVars, due, ghosts>>

hostSends ==
    /\ ~suspended
    /\ out # <<>> /\ Len(rx) < QUEUE
    /\ rx' = Append(rx, Head(out))
    /\ out' = Tail(out)
    /\ UNCHANGED <<devVars, suspended, tx, commVars, host, due, ghosts>>

\* A size announces chunks, each of which is acknowledged; "one" asks for half
\* of the generator's buffer.
hostReceives ==
    /\ ~suspended
    /\ host # "idle" /\ out = <<>> /\ tx # <<>>
    /\ tx' = Tail(tx)
    /\ host = "chunk" <=> Head(tx) = "chunk"
    /\ \/ /\ Head(tx) \in {"status", "zero"}
          /\ host' = "idle"
          /\ UNCHANGED <<due, out>>
       \/ /\ Head(tx) = "one"
          /\ host' = "idle" /\ out' = Data(PAYLOAD)
          /\ UNCHANGED due
       \/ /\ Head(tx) = "size"
          /\ host' = "chunk" /\ due' = CHUNKS
          /\ UNCHANGED out
       \/ /\ Head(tx) = "chunk"
          /\ host' = IF due > 1 THEN "chunk" ELSE "idle"
          /\ due' = due - 1 /\ out' = <<"ack">>
    /\ UNCHANGED <<devVars, suspended, rx, commVars, ghosts>>

\* A chunk in place of an answer, or the other way round.
hostMistakes ==
    /\ ~suspended
    /\ host # "idle" /\ out = <<>> /\ tx # <<>>
    /\ ~(host = "chunk" <=> Head(tx) = "chunk")
    /\ framing' = "lost"
    /\ UNCHANGED <<devVars, suspended, rx, tx, commVars, hostVars, disturbed,
                   drops>>

-----------------------------------------------------------------------------
(* The communication thread.                                               *)

\* The thread is next to read or write, at the place to and n times, for the
\* command c; or its handler returns.
Goes(to, c, n) == comm' = [at |-> to, cmd |-> c, left |-> n]
Returns == comm' = Top

Reading == comm.at \in {"read", "args", "data", "ack"}
Writing == comm.at \in Answer

\* The thread waits in the driver, unless the link is suspended.
Waits ==
    \/ Reading /\ rx = <<>>
    \/ Writing /\ Len(tx) = QUEUE

\* Its call returns before it is done.
CutShort == woken \/ (suspended /\ Waits)

\* USBSerial::isActive: the link is up and a byte has come.  The thread goes on to
\* read it, whatever has become of the link by then.  Its two tests are one step: a
\* suspension between them does what one after them does.
isActive ==
    /\ comm.at = "top" /\ ~suspended /\ rx # <<>>
    /\ Goes("read", "none", 0)
    /\ UNCHANGED <<devVars, suspended, rx, tx, woken, hostVars, ghosts>>

\* The thread takes a byte it expects, or any other: what is queued is delivered
\* over a suspended link too.
Takes(at, bytes) ==
    /\ comm.at = at /\ ~woken
    /\ rx # <<>> /\ Head(rx) \in bytes
    /\ rx' = Tail(rx)
    /\ UNCHANGED <<suspended, tx, hostVars, generating, woken, drops>>

Mistakes(at, bytes) ==
    /\ Takes(at, Byte \ bytes)
    /\ framing' = "lost"
    /\ UNCHANGED <<run_status, em, comm, disturbed>>

\* The command is refused, with bytes of it still to come.
Refuses ==
    /\ em' = add
    /\ Returns
    /\ disturbed' = TRUE
    /\ UNCHANGED <<run_status, framing>>

\* Every step but a refusal.
Undisturbed == UNCHANGED <<framing, disturbed>>

\* 'R' and 'S'.
startStop ==
    /\ Takes("read", {"R", "S"})
    /\ run_status' = IF Head(rx) = "R" THEN "Running" ELSE "Idle"
    /\ em' = assert(run_status # run_status')
    /\ Returns /\ Undisturbed

\* 'I'.
readStatus ==
    /\ Takes("read", {"I"})
    /\ em' = pop
    /\ Goes("status", "none", 0)
    /\ Undisturbed /\ UNCHANGED run_status

\* 's' and 't', with a half to send or without.
readConversion ==
    /\ Takes("read", {"s"})
    /\ Goes("size", "none", 0) \/ Goes("zero", "none", 0)
    /\ Undisturbed /\ UNCHANGED <<run_status, em>>

\* 'A'.
writeADCBuffer ==
    /\ Takes("read", {"A"})
    /\ Goes("data", "A", PAYLOAD)
    /\ Undisturbed /\ UNCHANGED <<run_status, em>>

\* 'B', 'D', 'E' and 'r'.  'B' and 'E' look at run_status before they read their
\* parameters.
takesArguments ==
    /\ Takes("read", DOMAIN Args)
    /\ IF Head(rx) \in {"B", "E"} /\ run_status # "Idle"
         THEN Refuses
         ELSE /\ Goes("args", Head(rx), Args[Head(rx)])
              /\ Undisturbed /\ UNCHANGED <<run_status, em>>

\* A parameter byte before the last.
readArgument ==
    /\ comm.left > 1
    /\ Takes("args", Arg)
    /\ Goes("args", comm.cmd, comm.left - 1)
    /\ Undisturbed /\ UNCHANGED <<run_status, em>>

\* The last one: a size that does not fit is refused ...
refuseArguments ==
    /\ comm.left = 1 /\ comm.cmd \in {"D", "E"}
    /\ Takes("args", {"big"})
    /\ Refuses

\* ... and the command is carried out, with an answer or data to follow.
executeArguments ==
    /\ comm.left = 1
    /\ Takes("args", Arg)
    /\ em' = assert(comm.cmd = "B" => Head(rx) # "big")
    /\ \/ comm.cmd = "B" /\ Returns
       \/ /\ comm.cmd = "r"
          /\ IF Head(rx) = "big" THEN Goes("status", "none", 0) ELSE Returns
       \/ /\ comm.cmd = "D" /\ generating /\ Head(rx) # "big"
          /\ Goes("zero", "none", 0) \/ Goes("one", "none", 0)
       \/ /\ comm.cmd = "E" \/ (comm.cmd = "D" /\ ~generating)
          /\ Head(rx) # "big"
          /\ Goes("data", comm.cmd, PAYLOAD)
    /\ Undisturbed /\ UNCHANGED run_status

\* The data is in, or as much of it as came before the link went down: the
\* number of bytes is not looked at.  A file is loaded, with success or not.
DataEnds ==
    /\ Returns
    /\ em' \in {em} \union (IF comm.cmd = "E" THEN {add} ELSE {})

readData ==
    /\ Takes("data", {"data"})
    /\ IF comm.left > 1
         THEN Goes("data", comm.cmd, comm.left - 1) /\ UNCHANGED em
         ELSE DataEnds
    /\ Undisturbed /\ UNCHANGED run_status

\* Mutant: the loop ends a chunk early, as with total >= 1024.
readAck_early ==
    /\ Takes("ack", {"ack"})
    /\ IF comm.left > 2 THEN Goes("chunk", "none", comm.left - 1) ELSE Returns
    /\ Undisturbed /\ UNCHANGED <<run_status, em>>

\* An acknowledgement.
readAck ==
    /\ Takes("ack", {"ack"})
    /\ IF comm.left > 1 THEN Goes("chunk", "none", comm.left - 1) ELSE Returns
    /\ Undisturbed /\ UNCHANGED <<run_status, em>>

\* A write completes, or is cut short: nothing looks at which.
writeAnswer ==
    /\ Writing
    /\ IF CutShort THEN UNCHANGED tx
         ELSE Len(tx) < QUEUE /\ tx' = Append(tx, comm.at)
    /\ CASE comm.at = "one" -> Goes("data", "D", PAYLOAD)
         [] comm.at = "size" -> Goes("chunk", "none", CHUNKS)
         [] comm.at = "chunk" -> Goes("ack", "none", comm.left)
         [] OTHER -> Returns
    /\ woken' = FALSE
    /\ UNCHANGED <<devVars, suspended, rx, hostVars, ghosts>>

\* A read is cut short: without a command or its parameters there is nothing to
\* do, data is taken as it is, and an acknowledgement is asked for again, at once.
readCutShort ==
    /\ Reading /\ CutShort
    /\ woken' = FALSE
    /\ \/ comm.at = "read" /\ Returns /\ UNCHANGED em
       \/ comm.at = "args" /\ Returns /\ em' = add
       \/ comm.at = "data" /\ DataEnds
       \/ comm.at = "ack" /\ UNCHANGED <<comm, em>>
    /\ UNCHANGED <<run_status, generating, suspended, rx, tx, hostVars, ghosts>>

\* A byte is taken for what it is not.
misread ==
    \/ Mistakes("read", Command) \/ Mistakes("args", Arg)
    \/ Mistakes("data", {"data"}) \/ Mistakes("ack", {"ack"})

CommStep ==
    \/ isActive \/ startStop \/ readStatus \/ readConversion \/ writeADCBuffer
    \/ takesArguments \/ readArgument \/ refuseArguments \/ executeArguments
    \/ readData \/ readAck \/ writeAnswer \/ readCutShort \/ misread

\* The acknowledgement is polled for without a pause.
Spinning == comm.at = "ack" /\ suspended /\ rx = <<>>

\* The thread leaves the processor to threads of lower priority: it sleeps in
\* its loop, or waits in the driver.
Asleep == comm.at = "top" \/ (Waits /\ ~CutShort)

-----------------------------------------------------------------------------
(* The bus, and the pipeline.                                              *)

\* A thread that already waits is woken with MSG_RESET.
WakesWaiting == woken' \in {woken, (woken \/ Waits)}

\* sduSuspendHookI: suspended, reset or unplugged.  It does no harm only while the
\* thread has yet to look whether the link is active.
suspend ==
    /\ ~suspended /\ drops < MaxDrops
    /\ suspended' = TRUE
    /\ drops' = drops + 1
    /\ WakesWaiting
    /\ disturbed' = (disturbed \/ comm.at # "top")
    /\ UNCHANGED <<devVars, rx, tx, comm, hostVars, framing>>

\* sduWakeupHookI: the same host goes on.
wakeup ==
    /\ suspended
    /\ suspended' = FALSE
    /\ UNCHANGED <<devVars, rx, tx, commVars, hostVars, ghosts>>

\* Mutant: the queues keep what they held.
configure_keep ==
    /\ suspended
    /\ suspended' = FALSE
    /\ WakesWaiting
    /\ host' = "idle" /\ due' = 0 /\ out' = <<>>
    /\ disturbed' = (disturbed /\ comm.at # "top")
    /\ UNCHANGED <<devVars, rx, tx, comm, framing, drops>>

\* sduConfigureHookI: the host has enumerated the device anew and begins
\* again; the queues are emptied.
configure ==
    /\ suspended
    /\ suspended' = FALSE
    /\ rx' = <<>> /\ tx' = <<>>
    /\ WakesWaiting
    /\ host' = "idle" /\ due' = 0 /\ out' = <<>>
    /\ disturbed' = (disturbed /\ comm.at # "top")
    /\ UNCHANGED <<devVars, comm, framing, drops>>

\* ConversionManager::abort, in the interrupt or in a fault of the algorithm.
abort ==
    /\ run_status = "Running"
    /\ em' = add
    /\ UNCHANGED <<run_status, generating, suspended, rx, tx, commVars,
                   hostVars, ghosts>>

\* The host goes on with what it has begun.
HostStep == hostSends \/ hostReceives \/ hostMistakes

\* What nobody has to do.
OutsideStep ==
    \/ \E c \in Command, size \in {"fits", "big"} : hostCommand(c, size)
    \/ suspend \/ wakeup \/ configure \/ abort

LinkTypeOK ==
    /\ run_status \in {"Idle", "Running"} /\ em \in 0 .. MAX_ERROR_QUEUE_SIZE
    /\ generating \in BOOLEAN /\ suspended \in BOOLEAN
    /\ rx \in Seq(Byte) /\ Len(rx) <= QUEUE
    /\ tx \in Seq(Answer) /\ Len(tx) <= QUEUE
    /\ comm \in [at : {"top", "read", "args", "data", "ack"} \union Answer,
                 cmd : Command \union {"none"},
                 left : 0 .. PAYLOAD + CHUNKS + 1]
    /\ woken \in BOOLEAN
    /\ host \in {"idle", "answer", "chunk"} /\ due \in 0 .. CHUNKS
    /\ out \in Seq(Byte)
    /\ framing \in {"kept", "lost"} /\ disturbed \in BOOLEAN
    /\ drops \in 0 .. MaxDrops

=============================================================================
