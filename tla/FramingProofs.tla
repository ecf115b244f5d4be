--------------------------- MODULE FramingProofs ----------------------------
(***************************************************************************)
(* The proof that the communication thread takes every byte for what the   *)
(* host sent it as, for every size of the queues and of the data.          *)
(*                                                                         *)
(* The invariant says what the bytes on their way to the thread are: read  *)
(* one after the other from where the thread is, each is one it expects    *)
(* there, and the last one leaves it where the host believes it to be.     *)
(***************************************************************************)
EXTENDS DeviceProofs

-----------------------------------------------------------------------------
(* The protocol as the thread reads it.  g says whether the generator is   *)
(* on; a place is one of the thread's, or that of a handler which has all  *)
(* its bytes and is about to answer.                                       *)

Place(at, c, n) == [at |-> at, cmd |-> c, left |-> n]
Await == Place("answer", "none", 0)

\* The bytes that are right at the place p.
Expects(p) ==
    CASE p.at = "top" -> Command
      [] p.at = "args" -> Arg
      [] p.at = "data" -> {"data"}
      [] p.at = "ack" -> {"ack"}
      [] OTHER -> {}

\* Where the last parameter b of the command c leads.  One that is refused
\* has its data behind it all the same.
Executes(g, c, b) ==
    CASE c = "B" \/ (c = "r" /\ b # "big") -> Top
      [] (c = "r" /\ b = "big") \/ (c = "D" /\ g) -> Await
      [] OTHER -> Place("data", c, PAYLOAD)

\* Where the byte b leads from the place p.
Reads(g, p, b) ==
    CASE p.at = "top" -> (CASE b \in {"R", "S"} -> Top
                            [] b \in {"I", "s"} -> Await
                            [] b = "A" -> Place("data", b, PAYLOAD)
                            [] OTHER -> Place("args", b, Args[b]))
      [] p.at = "args" -> IF p.left > 1 THEN Place("args", p.cmd, p.left - 1)
                                        ELSE Executes(g, p.cmd, b)
      [] p.at = "data" -> IF p.left > 1 THEN Place("data", p.cmd, p.left - 1)
                                        ELSE Top
      [] OTHER -> IF p.left > 1 THEN Place("chunk", "none", p.left - 1) ELSE Top

\* st holds the places the bytes s lead through.
Run(g, st, s) ==
    \A i \in 1 .. Len(s) :
        s[i] \in Expects(st[i]) /\ st[i + 1] = Reads(g, st[i], s[i])

\* Every byte of s is right, and they lead from p to q.
Leads(g, p, s, q) == \E st : st[1] = p /\ st[Len(s) + 1] = q /\ Run(g, st, s)

\* No byte leads nowhere.
LEMMA LeadsNowhere ==
    ASSUME NEW g, NEW p
    PROVE  /\ Leads(g, p, <<>>, p)
           /\ \A q : Leads(g, p, <<>>, q) => p = q
<1>1. Len(<<>>) = 0
    OBVIOUS
<1>2. ASSUME NEW st PROVE Run(g, st, <<>>)
    BY <1>1 DEF Run
<1>3. Leads(g, p, <<>>, p)
  <2> DEFINE st == [i \in {1} |-> p]
  <2>1. st[1] = p
    OBVIOUS
  <2> HIDE DEF st
  <2>2. Run(g, st, <<>>)
    BY <1>2
  <2> QED
    BY <1>1, <2>1, <2>2 DEF Leads
<1>4. ASSUME NEW q, Leads(g, p, <<>>, q) PROVE p = q
    BY <1>1, <1>4 DEF Leads
<1> QED
    BY <1>3, <1>4

\* The first byte is right, and the others lead on from where it leads.
LEMMA LeadsTail ==
    ASSUME NEW g, NEW p, NEW q, NEW S, NEW s \in Seq(S), s # <<>>, Leads(g, p, s, q)
    PROVE  /\ Head(s) \in Expects(p)
           /\ Leads(g, Reads(g, p, Head(s)), Tail(s), q)
<1>1. PICK st : st[1] = p /\ st[Len(s) + 1] = q /\ Run(g, st, s)
    BY DEF Leads
<1>2. /\ Len(s) \in Nat \ {0} /\ Tail(s) \in Seq(S) /\ Len(Tail(s)) = Len(s) - 1
      /\ Head(s) = s[1] /\ \A i \in 1 .. Len(Tail(s)) : Tail(s)[i] = s[i + 1]
    BY HeadTailProperties
<1> DEFINE tail == [i \in 1 .. Len(s) |-> st[i + 1]]
<1>3. s[1] \in Expects(p) /\ st[2] = Reads(g, p, s[1])
    BY <1>1, <1>2 DEF Run
<1>4. tail[1] = Reads(g, p, Head(s)) /\ tail[Len(Tail(s)) + 1] = q
    BY <1>1, <1>2, <1>3
<1>5. ASSUME NEW i \in 1 .. Len(Tail(s))
      PROVE  Tail(s)[i] \in Expects(tail[i]) /\ tail[i + 1] = Reads(g, tail[i], Tail(s)[i])
  <2>1. i \in 1 .. Len(s) /\ i + 1 \in 1 .. Len(s) /\ Tail(s)[i] = s[i + 1]
    BY <1>2
  <2>2. tail[i] = st[i + 1] /\ tail[i + 1] = st[(i + 1) + 1]
    BY <2>1
  <2> QED
    BY <1>1, <2>1, <2>2 DEF Run
<1>6. Run(g, tail, Tail(s))
    BY <1>5 DEF Run
<1> HIDE DEF tail
<1> QED
    BY <1>2, <1>3, <1>4, <1>6 DEF Leads

\* One way after the other.
LEMMA LeadsOn ==
    ASSUME NEW g, NEW p, NEW q, NEW r, NEW S, NEW s \in Seq(S), NEW t \in Seq(S),
           Leads(g, p, s, r), Leads(g, r, t, q)
    PROVE  Leads(g, p, s \o t, q)
<1>1. PICK a : a[1] = p /\ a[Len(s) + 1] = r /\ Run(g, a, s)
    BY DEF Leads
<1>2. PICK b : b[1] = r /\ b[Len(t) + 1] = q /\ Run(g, b, t)
    BY DEF Leads
<1>3. /\ Len(s) \in Nat /\ Len(t) \in Nat /\ Len(s \o t) = Len(s) + Len(t)
      /\ \A i \in 1 .. Len(s) + Len(t) :
            (s \o t)[i] = IF i <= Len(s) THEN s[i] ELSE t[i - Len(s)]
    BY ConcatProperties
<1> DEFINE m == Len(s)
           n == Len(t)
           c == [i \in 1 .. m + n + 1 |-> IF i <= m + 1 THEN a[i] ELSE b[i - m]]
<1> HIDE DEF m, n
<1>4. m \in Nat /\ n \in Nat /\ m = Len(s) /\ n = Len(t)
    BY <1>3 DEF m, n
<1>5. /\ \A i \in 1 .. m + 1 : c[i] = a[i]
      /\ \A j \in 1 .. n + 1 : c[m + j] = b[j]
  <2>1. \A i \in 1 .. m + 1 : c[i] = a[i]
    BY <1>4
  <2>2. ASSUME NEW j \in 1 .. n + 1 PROVE c[m + j] = b[j]
    <3>1. CASE j = 1
      BY <1>1, <1>2, <1>4, <2>1, <3>1
    <3>2. CASE j # 1
      <4>1. m + j \in 1 .. m + n + 1 /\ ~(m + j <= m + 1) /\ (m + j) - m = j
        BY <1>4, <3>2
      <4> QED
        BY <4>1
    <3> QED
      BY <3>1, <3>2
  <2> QED
    BY <2>1, <2>2
<1> HIDE DEF c
<1>6. c[1] = p /\ c[Len(s \o t) + 1] = q
  <2>1. 1 \in 1 .. m + 1 /\ n + 1 \in 1 .. n + 1 /\ m + (n + 1) = (m + n) + 1
    BY <1>4
  <2> QED
    BY <1>1, <1>2, <1>3, <1>4, <1>5, <2>1
<1>7. ASSUME NEW i \in 1 .. Len(s \o t)
      PROVE  (s \o t)[i] \in Expects(c[i]) /\ c[i + 1] = Reads(g, c[i], (s \o t)[i])
  <2>1. CASE i <= m
    <3>1. i \in 1 .. Len(s) /\ i \in 1 .. m + 1 /\ i + 1 \in 1 .. m + 1 /\ (s \o t)[i] = s[i]
      BY <1>3, <1>4, <2>1
    <3> QED
      BY <1>1, <1>5, <3>1 DEF Run
  <2>2. CASE ~(i <= m)
    <3> DEFINE j == i - m
    <3>1. /\ j \in 1 .. Len(t) /\ j \in 1 .. n + 1 /\ j + 1 \in 1 .. n + 1
          /\ i = m + j /\ i + 1 = m + (j + 1) /\ (s \o t)[i] = t[j]
      BY <1>3, <1>4, <2>2
    <3> HIDE DEF j
    <3>2. c[i] = b[j] /\ c[i + 1] = b[j + 1]
      BY <1>5, <3>1
    <3> QED
      BY <1>2, <3>1, <3>2 DEF Run
  <2> QED
    BY <2>1, <2>2
<1>8. Run(g, c, s \o t)
    BY <1>7 DEF Run
<1> QED
    BY <1>6, <1>8 DEF Leads

\* One byte.
LEMMA LeadsByte ==
    ASSUME NEW g, NEW p, NEW b \in Expects(p)
    PROVE  Leads(g, p, <<b>>, Reads(g, p, b))
<1> DEFINE st == [i \in 1 .. 2 |-> IF i = 1 THEN p ELSE Reads(g, p, b)]
<1>1. st[1] = p /\ st[2] = Reads(g, p, b)
    OBVIOUS
<1>2. Len(<<b>>) = 1 /\ <<b>>[1] = b
    OBVIOUS
<1> HIDE DEF st
<1>3. Run(g, st, <<b>>)
    BY <1>1, <1>2 DEF Run
<1>4. st[Len(<<b>>) + 1] = Reads(g, p, b)
    BY <1>1, <1>2
<1> QED
    BY <1>1, <1>3, <1>4 DEF Leads

\* The data of a command, all of it.
LEMMA LeadsData ==
    ASSUME NEW g, NEW c, NEW n \in Nat \ {0}
    PROVE  Leads(g, Place("data", c, n), Data(n), Top)
<1> DEFINE st == [i \in 1 .. n + 1 |->
                    IF i = n + 1 THEN Top ELSE Place("data", c, n + 1 - i)]
<1>1. Len(Data(n)) = n /\ \A i \in 1 .. n : Data(n)[i] = "data"
    BY DEF Data
<1>2. st[1] = Place("data", c, n) /\ st[n + 1] = Top
    OBVIOUS
<1>3. ASSUME NEW i \in 1 .. n
      PROVE  "data" \in Expects(st[i]) /\ st[i + 1] = Reads(g, st[i], "data")
  <2>1. st[i] = Place("data", c, n + 1 - i)
    OBVIOUS
  <2>2. /\ Place("data", c, n + 1 - i).at = "data"
        /\ Place("data", c, n + 1 - i).cmd = c
        /\ Place("data", c, n + 1 - i).left = n + 1 - i
    BY DEF Place
  <2>3. "data" \in Expects(st[i])
    BY <2>1, <2>2 DEF Expects
  <2>4. CASE i = n
    <3>1. st[i + 1] = Top /\ ~(n + 1 - i > 1)
      BY <2>4
    <3> QED
      BY <2>1, <2>2, <2>3, <3>1 DEF Reads
  <2>5. CASE i # n
    <3>1. st[i + 1] = Place("data", c, n + 1 - i - 1) /\ n + 1 - i > 1
      BY <2>5
    <3> QED
      BY <2>1, <2>2, <2>3, <3>1 DEF Reads
  <2> QED
    BY <2>3, <2>4, <2>5
<1> HIDE DEF st
<1>4. Run(g, st, Data(n))
    BY <1>1, <1>3 DEF Run
<1> QED
    BY <1>1, <1>2, <1>4 DEF Leads

\* Two bytes in a row.
LEMMA TwoBytes == ASSUME NEW x, NEW y PROVE <<x>> \o <<y>> = <<x, y>>
<1> DEFINE S == {x, y}
<1>1. <<x>> \in Seq(S) /\ <<y>> \in Seq(S) /\ Len(<<x>>) = 1 /\ Len(<<y>>) = 1
    OBVIOUS
<1>2. /\ Len(<<x>> \o <<y>>) = 2 /\ <<x>> \o <<y>> \in Seq(S)
      /\ (<<x>> \o <<y>>)[1] = x /\ (<<x>> \o <<y>>)[2] = y
    BY <1>1
<1>3. /\ <<x, y>> \in Seq(S) /\ Len(<<x, y>>) = 2
      /\ <<x, y>>[1] = x /\ <<x, y>>[2] = y
    OBVIOUS
<1>4. \A i \in 1 .. Len(<<x>> \o <<y>>) : (<<x>> \o <<y>>)[i] = <<x, y>>[i]
    BY <1>2, <1>3
<1> HIDE DEF S
<1> QED
    BY <1>2, <1>3, <1>4, SeqEqual

\* A command with its parameters and data leads to the loop, or to the answer.
LEMMA LeadsCommand ==
    ASSUME NEW c \in Command, NEW size \in {"fits", "big"}
    PROVE  Leads(generating, Top, Bytes(c, size),
                 IF Answered(c, size) THEN Await ELSE Top)
<1> DEFINE g == generating
           end == IF Answered(c, size) THEN Await ELSE Top
           data == Data(PAYLOAD)
<1> HIDE DEF g
<1>1. /\ <<c>> \in Seq(Byte) /\ <<"low">> \in Seq(Byte) /\ <<size>> \in Seq(Byte)
      /\ <<c, size>> \in Seq(Byte)
      /\ <<c, "low", size>> \in Seq(Byte) /\ data \in Seq(Byte)
    BY LinkAssumption DEF Byte, Arg, Data
<1>2. PAYLOAD \in Nat \ {0}
    BY LinkAssumption
<1>3. Leads(g, Top, <<c>>, Reads(g, Top, c))
  <2>1. c \in Expects(Top)
    BY DEF Expects, Top
  <2> QED
    BY <2>1, LeadsByte
<1>4. /\ c \in {"R", "S"} => Reads(g, Top, c) = Top
      /\ c \in {"I", "s"} => Reads(g, Top, c) = Await
      /\ c = "A" => Reads(g, Top, c) = Place("data", c, PAYLOAD)
      /\ c = "r" => Reads(g, Top, c) = Place("args", c, 1)
      /\ c \in {"B", "D", "E"} => Reads(g, Top, c) = Place("args", c, 2)
    BY DEF Reads, Top, Args
<1> HIDE DEF data
<1>5. ASSUME NEW cmd PROVE Leads(g, Place("data", cmd, PAYLOAD), data, Top)
    BY <1>2, LeadsData DEF data
<1>6. CASE c \in {"R", "S", "I", "s"}
  <2>1. Bytes(c, size) = <<c>> /\ end = Reads(g, Top, c)
    BY <1>4, <1>6 DEF Bytes, Answered
  <2> QED
    BY <1>3, <2>1 DEF g
<1>7. CASE c = "A"
  <2>1. Bytes(c, size) = <<c>> \o data /\ end = Top
    BY <1>7 DEF Bytes, Answered, data
  <2>2. Leads(g, Top, <<c>> \o data, Top)
    BY <1>1, <1>3, <1>4, <1>5, <1>7, LeadsOn
  <2> QED
    BY <2>1, <2>2 DEF g
\* The last parameter, the one before it, and where they lead.
<1>8. ASSUME NEW cmd
      PROVE  /\ Leads(g, Place("args", cmd, 1), <<size>>, Executes(g, cmd, size))
             /\ Leads(g, Place("args", cmd, 2), <<"low">>, Place("args", cmd, 1))
  <2>1. ASSUME NEW n
        PROVE  /\ Place("args", cmd, n).at = "args" /\ Place("args", cmd, n).cmd = cmd
               /\ Place("args", cmd, n).left = n
    BY DEF Place
  <2>2. ASSUME NEW n PROVE Expects(Place("args", cmd, n)) = Arg
    BY <2>1 DEF Expects
  <2>3. size \in Arg /\ "low" \in Arg
    BY DEF Arg
  <2>4. Reads(g, Place("args", cmd, 1), size) = Executes(g, cmd, size)
    BY <2>1 DEF Reads
  <2>5. Reads(g, Place("args", cmd, 2), "low") = Place("args", cmd, 1)
    BY <2>1 DEF Reads
  <2>6. Leads(g, Place("args", cmd, 1), <<size>>, Reads(g, Place("args", cmd, 1), size))
    BY <2>2, <2>3, LeadsByte
  <2>7. Leads(g, Place("args", cmd, 2), <<"low">>, Reads(g, Place("args", cmd, 2), "low"))
    BY <2>2, <2>3, LeadsByte
  <2> QED
    BY <2>4, <2>5, <2>6, <2>7
<1>9. CASE c = "r"
  <2>1. Bytes(c, size) = <<c>> \o <<size>> /\ end = Executes(g, c, size)
    BY <1>9 DEF Bytes, Answered, Executes
  <2>2. Leads(g, Top, <<c>> \o <<size>>, Executes(g, c, size))
    BY <1>1, <1>3, <1>4, <1>8, <1>9, LeadsOn
  <2> QED
    BY <2>1, <2>2 DEF g
<1>10. ASSUME c \in {"B", "D", "E"}
       PROVE  Leads(g, Top, <<c, "low", size>>, Executes(g, c, size))
  <2>1. <<"low">> \o <<size>> = <<"low", size>>
    BY TwoBytes
  <2>2. <<c, "low", size>> = <<c>> \o <<"low", size>>
    OBVIOUS
  <2>3. Leads(g, Place("args", c, 2), <<"low">> \o <<size>>, Executes(g, c, size))
    BY <1>1, <1>8, LeadsOn
  <2>4. <<"low">> \o <<size>> \in Seq(Byte)
    BY <1>1, ConcatProperties
  <2>5. Leads(g, Top, <<c>> \o (<<"low">> \o <<size>>), Executes(g, c, size))
    BY <1>1, <1>3, <1>4, <1>10, <2>3, <2>4, LeadsOn
  <2> QED
    BY <2>1, <2>2, <2>5
<1>11. CASE c = "B" \/ (c = "D" /\ generating)
  <2>1. Bytes(c, size) = <<c, "low", size>> /\ end = Executes(g, c, size)
    BY <1>11 DEF Bytes, Answered, Executes, g
  <2> QED
    BY <1>10, <1>11, <2>1 DEF g
<1>12. CASE c = "E" \/ (c = "D" /\ ~generating)
  <2>1. Bytes(c, size) = <<c, "low", size>> \o data /\ end = Top
    BY <1>12 DEF Bytes, Answered, data
  <2>2. Executes(g, c, size) = Place("data", c, PAYLOAD)
    BY <1>12 DEF Executes, g
  <2>3. Leads(g, Top, <<c, "low", size>> \o data, Top)
    BY <1>1, <1>5, <1>10, <1>12, <2>2, LeadsOn
  <2> QED
    BY <2>1, <2>3 DEF g
<1> QED
    BY <1>6, <1>7, <1>9, <1>11, <1>12 DEF Command

-----------------------------------------------------------------------------
(* The invariant.                                                          *)

\* Where the thread is, and where the host believes its bytes will take it.  That
\* the link was found active makes no difference to what is read next.
Whereabouts ==
    CASE comm.at = "read" -> Top
      [] comm.at \in Answer \ {"chunk"} -> Await
      [] OTHER -> comm
Believed ==
    CASE host = "idle" -> Top
      [] host = "answer" -> Await
      [] OTHER -> Place("chunk", "none", due)

\* An answer is on its way to the host, and nothing to the thread.
Answering ==
    /\ rx = <<>> /\ out = <<>>
    /\ \/ host = "answer" /\ tx \in {<<"status">>, <<"zero">>} /\ comm = Top
       \/ host = "answer" /\ tx = <<"one">> /\ comm = Place("data", "D", PAYLOAD)
       \/ host = "answer" /\ tx = <<"size">> /\ comm = Place("chunk", "none", CHUNKS)
       \/ host = "answer" /\ tx = <<"size", "chunk">>
                          /\ comm = Place("ack", "none", CHUNKS)
       \/ host = "chunk" /\ tx = <<"chunk">> /\ comm = Place("ack", "none", due)

OnTrack ==
    /\ ~woken
    /\ suspended => comm.at = "top"
    /\ \/ tx = <<>> /\ Leads(generating, Whereabouts, rx \o out, Believed)
       \/ Answering

\* Between two commands nothing is left of the last one.
TopInv == comm.at = "top" => comm = Top /\ ~woken

\* What isActive has seen is still there to be read.
ReadFinds == comm.at = "read" => rx # <<>>

FrameInv == TopInv /\ (~disturbed => framing = "kept" /\ OnTrack /\ ReadFinds)

-----------------------------------------------------------------------------
(* The communication thread.                                               *)

\* The thread returns to its loop, or goes to another place.
LEMMA TopStep == TopInv /\ (CommStep \/ HostStep \/ OutsideStep) => TopInv'
<1> SUFFICES ASSUME TopInv, CommStep \/ HostStep \/ OutsideStep
             PROVE  TopInv'
    OBVIOUS
<1>1. ASSUME NEW at, NEW bytes, Takes(at, bytes) PROVE ~woken'
  <2>1. ~woken /\ woken' = woken
    BY <1>1, Zenon DEF Takes
  <2> QED
    BY <2>1, Zenon
<1>2. ASSUME ~woken', Returns \/ comm' = comm PROVE TopInv'
    BY <1>2 DEF Returns, TopInv
<1>3. ASSUME NEW to, NEW c, NEW n, Goes(to, c, n), to # "top" PROVE TopInv'
  <2>1. comm'.at = to
    BY <1>3 DEF Goes
  <2> QED
    BY <1>3, <2>1 DEF TopInv
<1>4. CASE startStop
    BY <1>1, <1>2, <1>4 DEF startStop
<1>5. CASE readStatus
    BY <1>3, <1>5 DEF readStatus
<1>6. CASE readConversion
    BY <1>3, <1>6 DEF readConversion
<1>7. CASE writeADCBuffer
    BY <1>3, <1>7 DEF writeADCBuffer
<1>8. CASE takesArguments
  <2>1. ~woken'
    BY <1>1, <1>8 DEF takesArguments
  <2>2. CASE Refuses
    BY <1>2, <2>1, <2>2 DEF Refuses
  <2>3. CASE Goes("args", Head(rx), Args[Head(rx)])
    BY <1>3, <2>3
  <2> QED
    BY <1>8, <2>2, <2>3 DEF takesArguments
<1>9. CASE readArgument
    BY <1>3, <1>9 DEF readArgument
<1>10. CASE refuseArguments
  <2>1. ~woken' /\ Returns
    BY <1>1, <1>10 DEF refuseArguments, Refuses
  <2> QED
    BY <1>2, <2>1
<1>11. CASE executeArguments
  <2>1. ~woken'
    BY <1>1, <1>11 DEF executeArguments
  <2>2. \/ Returns \/ Goes("status", "none", 0) \/ Goes("zero", "none", 0)
        \/ Goes("one", "none", 0) \/ Goes("data", comm.cmd, PAYLOAD)
    BY <1>11 DEF executeArguments
  <2> QED
    BY <1>2, <1>3, <2>1, <2>2
<1>12. CASE readData
  <2>1. ~woken' /\ (Returns \/ Goes("data", comm.cmd, comm.left - 1))
    BY <1>1, <1>12 DEF readData, DataEnds
  <2> QED
    BY <1>2, <1>3, <2>1
<1>13. CASE readAck
  <2>1. ~woken' /\ (Returns \/ Goes("chunk", "none", comm.left - 1))
    BY <1>1, <1>13 DEF readAck
  <2> QED
    BY <1>2, <1>3, <2>1
<1>14. CASE writeAnswer
  <2>1. /\ ~woken'
        /\ \/ Returns \/ Goes("data", "D", PAYLOAD)
           \/ Goes("chunk", "none", CHUNKS) \/ Goes("ack", "none", comm.left)
    BY <1>14 DEF writeAnswer
  <2> QED
    BY <1>2, <1>3, <2>1
<1>15. CASE readCutShort
  <2>1. ~woken' /\ (Returns \/ comm' = comm)
    BY <1>15 DEF readCutShort, DataEnds
  <2> QED
    BY <1>2, <2>1
<1>16. CASE misread
  <2>1. ~woken' /\ comm' = comm
    BY <1>1, <1>16 DEF misread, Mistakes
  <2> QED
    BY <1>2, <2>1
<1>17. CASE HostStep \/ wakeup \/ abort
           \/ \E c \in Command, size \in {"fits", "big"} : hostCommand(c, size)
  <2>1. UNCHANGED <<comm, woken>>
    BY <1>17 DEF HostStep, hostSends, hostReceives, hostMistakes, wakeup, abort,
                 hostCommand, commVars
  <2> QED
    BY <2>1 DEF TopInv
<1>18. CASE suspend \/ configure
  <2>1. UNCHANGED comm /\ WakesWaiting
    BY <1>18 DEF suspend, configure
  <2>2. comm.at = "top" => ~Waits
    BY DEF Waits, Reading, Writing, Answer
  <2>3. comm.at = "top" /\ ~woken => ~woken'
    BY <2>1, <2>2, Zenon DEF WakesWaiting
  <2> QED
    BY <2>1, <2>3 DEF TopInv
<1>19. CASE isActive
    BY <1>3, <1>19 DEF isActive
<1> QED
    BY <1>4, <1>5, <1>6, <1>7, <1>8, <1>9, <1>10, <1>11, <1>12, <1>13, <1>14,
       <1>15, <1>16, <1>17, <1>18, <1>19 DEF CommStep, OutsideStep

\* Only isActive sends the thread to the read of a command; a command it has
\* read, or not, takes it elsewhere.
LEMMA OnlyActiveReads ==
    ASSUME CommStep, framing = "kept", framing' = "kept", comm'.at = "read"
    PROVE  isActive
<1>1. ASSUME NEW to, NEW c, NEW n, Goes(to, c, n), to # "read" PROVE FALSE
  <2>1. comm'.at = to
    BY <1>1 DEF Goes
  <2> QED
    BY <1>1, <2>1
<1>2. ~Returns
    BY DEF Returns, Top
<1>3. ~startStop /\ ~readStatus /\ ~readConversion /\ ~writeADCBuffer
    BY <1>1, <1>2 DEF startStop, readStatus, readConversion, writeADCBuffer
<1>4. ~takesArguments /\ ~readArgument /\ ~refuseArguments
    BY <1>1, <1>2 DEF takesArguments, readArgument, refuseArguments, Refuses
<1>5. ~executeArguments
  <2>1. ASSUME executeArguments
        PROVE  \/ Returns \/ Goes("status", "none", 0) \/ Goes("zero", "none", 0)
               \/ Goes("one", "none", 0) \/ Goes("data", comm.cmd, PAYLOAD)
    BY <2>1 DEF executeArguments
  <2> QED
    BY <1>1, <1>2, <2>1
<1>6. ~readData /\ ~readAck
    BY <1>1, <1>2 DEF readData, readAck, DataEnds
<1>7. ~writeAnswer
  <2>1. ASSUME writeAnswer
        PROVE  \/ Returns \/ Goes("data", "D", PAYLOAD)
               \/ Goes("chunk", "none", CHUNKS) \/ Goes("ack", "none", comm.left)
    BY <2>1 DEF writeAnswer
  <2> QED
    BY <1>1, <1>2, <2>1
<1>8. ~readCutShort
  <2>1. ASSUME readCutShort PROVE Returns \/ (comm.at = "ack" /\ comm' = comm)
    BY <2>1 DEF readCutShort, DataEnds
  <2> QED
    BY <1>2, <2>1
<1>9. ~misread
    BY DEF misread, Mistakes
<1> QED
    BY <1>3, <1>4, <1>5, <1>6, <1>7, <1>8, <1>9, Zenon DEF CommStep

\* What is left once the first byte is taken from the queue.
LEMMA TailOfQueue ==
    ASSUME NEW S, NEW s \in Seq(S), NEW t \in Seq(S), s # <<>>
    PROVE  /\ s \o t \in Seq(S) /\ s \o t # <<>>
           /\ Head(s \o t) = Head(s) /\ Tail(s \o t) = Tail(s) \o t
<1>1. /\ s \o t \in Seq(S) /\ Len(s \o t) = Len(s) + Len(t)
      /\ Len(s) \in Nat \ {0} /\ Len(t) \in Nat
      /\ \A i \in 1 .. Len(s) + Len(t) :
            (s \o t)[i] = IF i <= Len(s) THEN s[i] ELSE t[i - Len(s)]
    BY ConcatProperties
<1>2. s \o t # <<>> /\ Head(s \o t) = (s \o t)[1] /\ Head(s) = s[1]
  <2>1. Len(<<>>) = 0
    OBVIOUS
  <2> QED
    BY <1>1, <2>1
<1>3. /\ Tail(s \o t) \in Seq(S) /\ Len(Tail(s \o t)) = Len(s) + Len(t) - 1
      /\ \A i \in 1 .. Len(Tail(s \o t)) : Tail(s \o t)[i] = (s \o t)[i + 1]
    BY <1>1, <1>2, HeadTailProperties
<1>4. /\ Tail(s) \in Seq(S) /\ Len(Tail(s)) = Len(s) - 1
      /\ \A i \in 1 .. Len(Tail(s)) : Tail(s)[i] = s[i + 1]
    BY HeadTailProperties
<1>5. /\ Tail(s) \o t \in Seq(S) /\ Len(Tail(s) \o t) = Len(s) - 1 + Len(t)
      /\ \A i \in 1 .. Len(Tail(s)) + Len(t) :
            (Tail(s) \o t)[i] = IF i <= Len(Tail(s)) THEN Tail(s)[i]
                                ELSE t[i - Len(Tail(s))]
    BY <1>4, ConcatProperties
<1>6. ASSUME NEW i \in 1 .. Len(Tail(s \o t))
      PROVE  Tail(s \o t)[i] = (Tail(s) \o t)[i]
  <2>1. i \in Nat /\ i + 1 \in 1 .. Len(s) + Len(t) /\ Tail(s \o t)[i] = (s \o t)[i + 1]
    BY <1>1, <1>3
  <2>2. CASE i + 1 <= Len(s)
    <3>1. i \in 1 .. Len(Tail(s)) /\ i \in 1 .. Len(Tail(s)) + Len(t) /\ i <= Len(Tail(s))
      BY <1>1, <1>3, <1>4, <2>1, <2>2
    <3> QED
      BY <1>1, <1>4, <1>5, <2>1, <2>2, <3>1
  <2>3. CASE ~(i + 1 <= Len(s))
    <3>1. /\ i \in 1 .. Len(Tail(s)) + Len(t) /\ ~(i <= Len(Tail(s)))
          /\ i - Len(Tail(s)) = (i + 1) - Len(s)
      BY <1>1, <1>3, <1>4, <2>1, <2>3
    <3> QED
      BY <1>1, <1>5, <2>1, <2>3, <3>1
  <2> QED
    BY <2>2, <2>3
<1>7. Tail(s \o t) = Tail(s) \o t
    BY <1>1, <1>3, <1>5, <1>6, SeqEqual
<1> QED
    BY <1>1, <1>2, <1>7

\* The byte the thread takes is one it expects; the others lead on from where
\* that byte leads.
LEMMA Taken ==
    ASSUME LinkTypeOK, OnTrack, NEW at \in {"read", "args", "data", "ack"},
           NEW bytes, Takes(at, bytes)
    PROVE  /\ Head(rx) \in Expects(Whereabouts)
           /\ tx' = <<>> /\ generating' = generating /\ Believed' = Believed
           /\ ~suspended' /\ ~woken'
           /\ Leads(generating, Reads(generating, Whereabouts, Head(rx)),
                    rx' \o out', Believed)
<1>1. /\ rx # <<>> /\ rx' = Tail(rx) /\ comm.at = at
      /\ UNCHANGED <<suspended, tx, host, due, out, generating, woken>>
    BY DEF Takes, hostVars
<1>2. tx = <<>> /\ Leads(generating, Whereabouts, rx \o out, Believed)
    BY <1>1 DEF OnTrack, Answering
<1>3. rx \in Seq(Byte) /\ out \in Seq(Byte)
    BY DEF LinkTypeOK
<1>4. /\ rx \o out \in Seq(Byte) /\ rx \o out # <<>>
      /\ Head(rx \o out) = Head(rx) /\ Tail(rx \o out) = Tail(rx) \o out
    BY <1>1, <1>3, TailOfQueue
<1>5. /\ Head(rx) \in Expects(Whereabouts)
      /\ Leads(generating, Reads(generating, Whereabouts, Head(rx)),
               Tail(rx) \o out, Believed)
  <2>1. /\ Head(rx \o out) \in Expects(Whereabouts)
        /\ Leads(generating, Reads(generating, Whereabouts, Head(rx \o out)),
                 Tail(rx \o out), Believed)
    BY <1>2, <1>4, LeadsTail
  <2> QED
    BY <1>4, <2>1
<1>6. Believed' = Believed
    BY <1>1 DEF Believed
<1>7. ~suspended' /\ ~woken'
  <2>1. ~suspended
    BY <1>1 DEF OnTrack
  <2>2. ~woken
    BY DEF OnTrack
  <2> QED
    BY <1>1, <2>1, <2>2, Zenon
<1> QED
    BY <1>1, <1>2, <1>5, <1>6, <1>7

\* The handler goes where the byte leads.
LEMMA TakenOnTrack ==
    ASSUME LinkTypeOK, OnTrack, NEW at \in {"read", "args", "data", "ack"},
           NEW bytes, Takes(at, bytes),
           Whereabouts' = Reads(generating, Whereabouts, Head(rx))
    PROVE  OnTrack'
<1>1. /\ tx' = <<>> /\ generating' = generating /\ Believed' = Believed
      /\ ~suspended' /\ ~woken'
      /\ Leads(generating, Reads(generating, Whereabouts, Head(rx)),
               rx' \o out', Believed)
    BY Taken
<1>2. Leads(generating', Whereabouts', rx' \o out', Believed')
    BY <1>1
<1> QED
    BY <1>1, <1>2 DEF OnTrack

\* The places of comm, as Reads has them.
LEMMA GoesWhere ==
    ASSUME NEW at, NEW c, NEW n, Goes(at, c, n), at # "read"
    PROVE  /\ at \notin Answer => Whereabouts' = Place(at, c, n)
           /\ at = "chunk" => Whereabouts' = Place(at, c, n)
           /\ at \in Answer \ {"chunk"} => Whereabouts' = Await
<1>1. comm' = Place(at, c, n) /\ comm'.at = at
    BY DEF Goes, Place
<1> QED
    BY <1>1 DEF Whereabouts

\* Back in the loop.
LEMMA ReturnsWhere == ASSUME Returns PROVE Whereabouts' = Top
BY DEF Returns, Whereabouts, Top, Answer

\* A link on track is not cut short.
LEMMA NotCutShort == OnTrack /\ (Reading \/ Writing) => ~CutShort
<1> SUFFICES ASSUME OnTrack, Reading \/ Writing PROVE ~CutShort
    OBVIOUS
<1>1. comm.at # "top"
    BY DEF Reading, Writing, Answer
<1>2. ~suspended /\ ~woken
    BY <1>1 DEF OnTrack
<1> QED
    BY <1>2, Zenon DEF CutShort

\* With the thread about to answer, nothing is under way to it.
LEMMA NothingComes ==
    ASSUME LinkTypeOK, OnTrack, Writing, ~Answering
    PROVE  rx = <<>> /\ out = <<>> /\ tx = <<>> /\ Whereabouts = Believed
<1>1. tx = <<>> /\ Leads(generating, Whereabouts, rx \o out, Believed)
    BY DEF OnTrack
<1>2. rx \in Seq(Byte) /\ out \in Seq(Byte) /\ rx \o out \in Seq(Byte)
    BY ConcatProperties DEF LinkTypeOK
<1>3. Expects(Whereabouts) = {}
  <2>1. Whereabouts.at \in {"answer", "chunk"}
    BY DEF Whereabouts, Writing, Answer, Await, Place
  <2> QED
    BY <2>1 DEF Expects
<1>4. rx \o out = <<>>
    BY <1>1, <1>2, <1>3, LeadsTail
<1>5. Whereabouts = Believed
  <2>1. Leads(generating, Whereabouts, <<>>, Believed)
    BY <1>1, <1>4
  <2> QED
    BY <2>1, LeadsNowhere
<1>6. rx = <<>> /\ out = <<>>
  <2>1. Len(rx \o out) = Len(rx) + Len(out) /\ Len(rx) \in Nat /\ Len(out) \in Nat
    BY <1>2, ConcatProperties
  <2>2. Len(rx \o out) = 0
    BY <1>4
  <2> QED
    BY <1>2, <2>1, <2>2, EmptySeq
<1> QED
    BY <1>1, <1>5, <1>6

\* The answer goes to a host that awaits it.
LEMMA AnswerOnTrack ==
    ASSUME LinkTypeOK, OnTrack, writeAnswer
    PROVE  OnTrack'
<1>1. Writing /\ ~CutShort
    BY NotCutShort DEF writeAnswer
<1>2. /\ tx' = Append(tx, comm.at) /\ ~woken'
      /\ UNCHANGED <<suspended, rx, host, due, out>>
    BY <1>1 DEF writeAnswer, hostVars
<1>3. ~suspended'
  <2>1. comm.at # "top"
    BY <1>1 DEF Writing, Answer
  <2> QED
    BY <1>2, <2>1, Zenon DEF OnTrack
<1>4. comm.at \in Answer
    BY <1>1 DEF Writing
<1>5. /\ comm.at = "one" => comm' = Place("data", "D", PAYLOAD)
      /\ comm.at = "size" => comm' = Place("chunk", "none", CHUNKS)
      /\ comm.at = "chunk" => comm' = Place("ack", "none", comm.left)
      /\ comm.at \in {"status", "zero"} => comm' = Top
    BY DEF writeAnswer, Goes, Returns, Place
<1>6. CASE Answering
  <2>1. tx = <<"size">> /\ comm = Place("chunk", "none", CHUNKS) /\ host = "answer"
        /\ rx = <<>> /\ out = <<>>
    BY <1>4, <1>6 DEF Answering, Answer, Top, Place
  <2>2. comm.at = "chunk" /\ comm.left = CHUNKS
    BY <2>1 DEF Place
  <2>3. tx' = <<"size", "chunk">>
    <3>1. Append(tx, comm.at) = <<"size">> \o <<"chunk">>
      BY <2>1, <2>2
    <3> QED
      BY <1>2, <3>1, TwoBytes
  <2>4. Answering'
    BY <1>2, <1>5, <2>1, <2>2, <2>3 DEF Answering
  <2> QED
    BY <1>2, <1>3, <2>4 DEF OnTrack
<1>7. CASE ~Answering
  <2>1. rx = <<>> /\ out = <<>> /\ tx = <<>> /\ Whereabouts = Believed
    BY <1>1, <1>7, NothingComes
  <2>2. tx' = <<comm.at>>
    BY <1>2, <2>1
  <2>3. host \in {"idle", "answer", "chunk"}
    BY DEF LinkTypeOK
  <2>4. CASE comm.at = "chunk"
    <3>1. Believed = comm
      BY <2>1, <2>4 DEF Whereabouts
    <3>2. host = "chunk" /\ comm = Place("chunk", "none", due)
      BY <2>3, <2>4, <3>1 DEF Believed, Top, Await, Place
    <3>3. comm.left = due
      BY <3>2 DEF Place
    <3> QED
      BY <1>2, <1>3, <1>5, <2>1, <2>2, <2>4, <3>2, <3>3 DEF OnTrack, Answering
  <2>5. CASE comm.at # "chunk"
    <3>1. Believed = Await
      BY <1>4, <2>1, <2>5 DEF Whereabouts
    <3>2. host = "answer"
      BY <2>3, <3>1 DEF Believed, Top, Await, Place
    <3>3. comm.at \in {"status", "zero", "one", "size"}
      BY <1>4, <2>5 DEF Answer
    <3> QED
      BY <1>2, <1>3, <1>5, <2>1, <2>2, <3>2, <3>3 DEF OnTrack, Answering
  <2> QED
    BY <2>4, <2>5
<1> QED
    BY <1>6, <1>7

\* A step of the thread keeps the link on track, or refuses a command.
LEMMA CommOnTrack ==
    ASSUME LinkTypeOK, TopInv, OnTrack, framing = "kept", CommStep
    PROVE  disturbed' \/ (framing' = "kept" /\ OnTrack')
<1> DEFINE next == Reads(generating, Whereabouts, Head(rx))
<1>0. /\ comm.at = "read" => Whereabouts = Top
      /\ comm.at \in {"args", "data", "ack"} => Whereabouts = comm
    BY DEF Whereabouts, Answer
<1>p. Top.at = "top"
    BY DEF Top
<1>t. ASSUME comm.at = "read"
      PROVE  /\ Head(rx) \in {"R", "S"} => next = Top
             /\ Head(rx) \in {"I", "s"} => next = Await
             /\ Head(rx) = "A" => next = Place("data", "A", PAYLOAD)
             /\ Head(rx) \in DOMAIN Args =>
                    next = Place("args", Head(rx), Args[Head(rx)])
    BY <1>0, <1>p, <1>t DEF Reads, Args
<1>a. ASSUME comm.at = "args"
      PROVE  next = IF comm.left > 1 THEN Place("args", comm.cmd, comm.left - 1)
                                     ELSE Executes(generating, comm.cmd, Head(rx))
    BY <1>0, <1>a DEF Reads
<1>d. ASSUME comm.at = "data"
      PROVE  next = IF comm.left > 1 THEN Place("data", comm.cmd, comm.left - 1) ELSE Top
    BY <1>0, <1>d DEF Reads
<1>k. ASSUME comm.at = "ack"
      PROVE  next = IF comm.left > 1 THEN Place("chunk", "none", comm.left - 1) ELSE Top
    BY <1>0, <1>k DEF Reads
<1> HIDE DEF next
<1>w. ASSUME NEW at \in {"read", "args", "data", "ack"}, NEW bytes, Takes(at, bytes),
             Whereabouts' = next
      PROVE  OnTrack'
    BY <1>w, TakenOnTrack DEF next
<1>u. ASSUME NEW at, NEW bytes, Takes(at, bytes)
      PROVE  comm.at = at /\ Head(rx) \in bytes
    BY <1>u DEF Takes
<1>1. CASE startStop
  <2>1. Takes("read", {"R", "S"}) /\ Returns /\ framing' = framing
    BY <1>1 DEF startStop, Undisturbed
  <2>2. Whereabouts' = next
    BY <1>t, <1>u, <2>1, ReturnsWhere
  <2> QED
    BY <1>w, <2>1, <2>2
<1>2. CASE readStatus
  <2>1. Takes("read", {"I"}) /\ Goes("status", "none", 0) /\ framing' = framing
    BY <1>2 DEF readStatus, Undisturbed
  <2>2. Whereabouts' = next
    BY <1>t, <1>u, <2>1, GoesWhere DEF Answer
  <2> QED
    BY <1>w, <2>1, <2>2
<1>3. CASE readConversion
  <2>1. /\ Takes("read", {"s"}) /\ framing' = framing
        /\ Goes("size", "none", 0) \/ Goes("zero", "none", 0)
    BY <1>3 DEF readConversion, Undisturbed
  <2>2. Whereabouts' = next
    BY <1>t, <1>u, <2>1, GoesWhere DEF Answer
  <2> QED
    BY <1>w, <2>1, <2>2
<1>4. CASE writeADCBuffer
  <2>1. Takes("read", {"A"}) /\ Goes("data", "A", PAYLOAD) /\ framing' = framing
    BY <1>4 DEF writeADCBuffer, Undisturbed
  <2>2. Whereabouts' = next
    BY <1>t, <1>u, <2>1, GoesWhere DEF Answer
  <2> QED
    BY <1>w, <2>1, <2>2
<1>5. CASE takesArguments
  <2>1. Takes("read", DOMAIN Args)
    BY <1>5 DEF takesArguments
  <2>2. CASE Refuses
    BY <2>2, Zenon DEF Refuses
  <2>3. CASE Goes("args", Head(rx), Args[Head(rx)]) /\ Undisturbed
    <3>1. Whereabouts' = next
      BY <1>t, <1>u, <2>1, <2>3, GoesWhere DEF Answer
    <3> QED
      BY <1>w, <2>1, <2>3, <3>1 DEF Undisturbed
  <2> QED
    BY <1>5, <2>2, <2>3 DEF takesArguments
<1>6. CASE readArgument
  <2>1. /\ Takes("args", Arg) /\ comm.left > 1 /\ framing' = framing
        /\ Goes("args", comm.cmd, comm.left - 1)
    BY <1>6 DEF readArgument, Undisturbed
  <2>2. Whereabouts' = next
    BY <1>a, <1>u, <2>1, GoesWhere DEF Answer
  <2> QED
    BY <1>w, <2>1, <2>2
<1>7. CASE refuseArguments
    BY <1>7, Zenon DEF refuseArguments, Refuses
<1>8. CASE executeArguments
  <2>1. Takes("args", Arg) /\ comm.left = 1 /\ framing' = framing
    BY <1>8 DEF executeArguments, Undisturbed
  <2>2. next = Executes(generating, comm.cmd, Head(rx))
    BY <1>a, <1>u, <2>1
  <2>3. CASE comm.cmd = "B" /\ Returns
    BY <1>w, <2>1, <2>2, <2>3, ReturnsWhere DEF Executes
  <2>4. CASE comm.cmd = "r" /\ Head(rx) = "big" /\ Goes("status", "none", 0)
    <3>1. Whereabouts' = next
      BY <2>2, <2>4, GoesWhere DEF Executes, Answer
    <3> QED
      BY <1>w, <2>1, <3>1
  <2>5. CASE comm.cmd = "r" /\ Head(rx) # "big" /\ Returns
    BY <1>w, <2>1, <2>2, <2>5, ReturnsWhere DEF Executes
  <2>6. CASE /\ comm.cmd = "D" /\ generating
             /\ Goes("zero", "none", 0) \/ Goes("one", "none", 0)
    <3>1. Whereabouts' = next
      BY <2>2, <2>6, GoesWhere DEF Executes, Answer
    <3> QED
      BY <1>w, <2>1, <3>1
  <2>7. CASE /\ comm.cmd = "E" \/ (comm.cmd = "D" /\ ~generating)
             /\ Goes("data", comm.cmd, PAYLOAD)
    <3>1. Whereabouts' = next
      BY <2>2, <2>7, GoesWhere DEF Executes, Answer
    <3> QED
      BY <1>w, <2>1, <3>1
  <2> QED
    BY <1>8, <2>3, <2>4, <2>5, <2>6, <2>7 DEF executeArguments
<1>9. CASE readData
  <2>1. /\ Takes("data", {"data"}) /\ framing' = framing
        /\ IF comm.left > 1 THEN Goes("data", comm.cmd, comm.left - 1) ELSE Returns
    BY <1>9 DEF readData, DataEnds, Undisturbed
  <2>2. Whereabouts' = next
    BY <1>d, <1>u, <2>1, GoesWhere, ReturnsWhere DEF Answer
  <2> QED
    BY <1>w, <2>1, <2>2
<1>10. CASE readAck
  <2>1. /\ Takes("ack", {"ack"}) /\ framing' = framing
        /\ IF comm.left > 1 THEN Goes("chunk", "none", comm.left - 1) ELSE Returns
    BY <1>10 DEF readAck, Undisturbed
  <2>2. Whereabouts' = next
    BY <1>k, <1>u, <2>1, GoesWhere, ReturnsWhere
  <2> QED
    BY <1>w, <2>1, <2>2
<1>11. CASE writeAnswer
    BY <1>11, AnswerOnTrack DEF writeAnswer, ghosts
<1>12. CASE readCutShort
    BY <1>12, NotCutShort DEF readCutShort
<1>13. CASE misread
  <2>1. ASSUME NEW at \in {"read", "args", "data", "ack"}, NEW bytes,
               Mistakes(at, bytes), Expects(Whereabouts) = bytes
        PROVE  FALSE
    <3>1. Takes(at, Byte \ bytes)
      BY <2>1 DEF Mistakes
    <3>2. Head(rx) \in Expects(Whereabouts)
      BY <3>1, Taken
    <3> QED
      BY <1>u, <2>1, <3>1, <3>2
  <2>2. /\ comm.at = "read" => Expects(Whereabouts) = Command
        /\ comm.at = "args" => Expects(Whereabouts) = Arg
        /\ comm.at = "data" => Expects(Whereabouts) = {"data"}
        /\ comm.at = "ack" => Expects(Whereabouts) = {"ack"}
    BY <1>0, <1>p DEF Expects
  <2>3. ASSUME NEW at, NEW bytes, Mistakes(at, bytes) PROVE comm.at = at
    BY <2>3 DEF Mistakes, Takes
  <2> QED
    BY <1>13, <2>1, <2>2, <2>3 DEF misread
<1>14. CASE isActive
  <2>1. /\ comm.at = "top" /\ ~suspended /\ rx # <<>> /\ Goes("read", "none", 0)
        /\ UNCHANGED <<generating, suspended, rx, tx, woken, host, due, out, framing>>
    BY <1>14 DEF isActive, devVars, hostVars, ghosts
  <2>2. tx = <<>> /\ Leads(generating, Whereabouts, rx \o out, Believed)
    BY <2>1 DEF OnTrack, Answering
  <2>3. Whereabouts = Top
    BY <2>1 DEF Whereabouts, TopInv, Answer
  <2>4. Whereabouts' = Top /\ Believed' = Believed
    BY <2>1 DEF Whereabouts, Believed, Goes, Answer
  <2>5. tx' = <<>> /\ Leads(generating', Whereabouts', rx' \o out', Believed')
    BY <2>1, <2>2, <2>3, <2>4
  <2>6. ~suspended' /\ ~woken'
    BY <2>1, Zenon DEF OnTrack
  <2> QED
    BY <2>1, <2>5, <2>6 DEF OnTrack
<1> QED
    BY <1>1, <1>2, <1>3, <1>4, <1>5, <1>6, <1>7, <1>8, <1>9, <1>10, <1>11, <1>12,
       <1>13, <1>14 DEF CommStep

-----------------------------------------------------------------------------
(* The host and the bus.                                                   *)

\* A byte that passes from the host into the queue stays where it is in the
\* stream.
LEMMA PassesOn ==
    ASSUME NEW S, NEW s \in Seq(S), NEW t \in Seq(S), t # <<>>
    PROVE  Append(s, Head(t)) \o Tail(t) = s \o t
<1> DEFINE h == Head(t)
           a == Append(s, h)
           r == Tail(t)
<1>1. /\ Len(t) \in Nat \ {0} /\ h \in S /\ h = t[1]
      /\ r \in Seq(S) /\ Len(r) = Len(t) - 1
      /\ \A i \in 1 .. Len(r) : r[i] = t[i + 1]
    BY HeadTailProperties
<1> HIDE DEF h, r
<1>2. /\ a \in Seq(S) /\ Len(a) = Len(s) + 1 /\ Len(s) \in Nat
      /\ \A i \in 1 .. Len(s) : a[i] = s[i]
      /\ a[Len(s) + 1] = h
    BY <1>1, AppendProperties
<1> HIDE DEF a
<1>3. /\ a \o r \in Seq(S) /\ Len(a \o r) = Len(s) + Len(t)
      /\ \A i \in 1 .. Len(s) + Len(t) :
            (a \o r)[i] = IF i <= Len(a) THEN a[i] ELSE r[i - Len(a)]
  <2>1. /\ a \o r \in Seq(S) /\ Len(a \o r) = Len(a) + Len(r)
        /\ \A i \in 1 .. Len(a) + Len(r) :
              (a \o r)[i] = IF i <= Len(a) THEN a[i] ELSE r[i - Len(a)]
    BY <1>1, <1>2, ConcatProperties
  <2>2. Len(a) + Len(r) = Len(s) + Len(t)
    BY <1>1, <1>2
  <2> QED
    BY <2>1, <2>2
<1>4. /\ s \o t \in Seq(S) /\ Len(s \o t) = Len(s) + Len(t)
      /\ \A i \in 1 .. Len(s) + Len(t) :
            (s \o t)[i] = IF i <= Len(s) THEN s[i] ELSE t[i - Len(s)]
    BY ConcatProperties
<1>5. ASSUME NEW i \in 1 .. Len(s) + Len(t) PROVE (a \o r)[i] = (s \o t)[i]
  <2>1. CASE i <= Len(s)
    <3>1. i \in 1 .. Len(s) /\ i <= Len(a)
      BY <1>1, <1>2, <2>1
    <3> QED
      BY <1>2, <1>3, <1>4, <2>1, <3>1
  <2>2. CASE i = Len(s) + 1
    <3>1. i <= Len(a) /\ ~(i <= Len(s)) /\ i - Len(s) = 1
      BY <1>2, <2>2
    <3> QED
      BY <1>1, <1>2, <1>3, <1>4, <2>2, <3>1
  <2>3. CASE ~(i <= Len(s) + 1)
    <3>1. /\ ~(i <= Len(a)) /\ ~(i <= Len(s))
          /\ i - Len(a) \in 1 .. Len(r) /\ (i - Len(a)) + 1 = i - Len(s)
      BY <1>1, <1>2, <2>3
    <3> QED
      BY <1>1, <1>3, <1>4, <3>1
  <2> QED
    BY <1>1, <1>2, <2>1, <2>2, <2>3
<1>6. a \o r = s \o t
    BY <1>3, <1>4, <1>5, SeqEqual
<1> QED
    BY <1>6 DEF a, r, h

\* Nothing before or after.
LEMMA NoBytes ==
    ASSUME NEW S, NEW s \in Seq(S)
    PROVE  <<>> \o s = s /\ s \o <<>> = s
BY ConcatEmptySeq

\* The host sends what it has begun and takes its answers for what they are.
LEMMA HostOnTrack ==
    ASSUME LinkInv, OnTrack, framing = "kept", HostStep
    PROVE  framing' = "kept" /\ OnTrack'
<1>0. LinkTypeOK /\ rx \in Seq(Byte) /\ out \in Seq(Byte)
    BY DEF LinkInv, LinkTypeOK
<1>1. CASE hostSends
  <2>1. /\ UNCHANGED <<suspended, tx, comm, woken, host, due, generating, framing>>
        /\ out # <<>> /\ rx' = Append(rx, Head(out)) /\ out' = Tail(out)
    BY <1>1 DEF hostSends, devVars, commVars, ghosts
  <2>2. rx' \o out' = rx \o out
    BY <1>0, <2>1, PassesOn
  <2>3. UNCHANGED <<Whereabouts, Believed>>
    BY <2>1 DEF Whereabouts, Believed
  <2>4. tx = <<>> /\ Leads(generating, Whereabouts, rx \o out, Believed)
    BY <2>1 DEF OnTrack, Answering
  <2>5. tx' = <<>> /\ Leads(generating', Whereabouts', rx' \o out', Believed')
    BY <2>1, <2>2, <2>3, <2>4
  <2> QED
    BY <2>1, <2>5 DEF OnTrack
<1>2. CASE hostReceives
  <2>1. /\ UNCHANGED <<suspended, rx, comm, woken, generating, framing>>
        /\ tx # <<>> /\ tx' = Tail(tx)
        /\ host = "chunk" <=> Head(tx) = "chunk"
    BY <1>2 DEF hostReceives, devVars, commVars, ghosts
  <2>2. Answering
    BY <2>1 DEF OnTrack
  <2>3. rx' = <<>> /\ out = <<>>
    BY <2>1, <2>2 DEF Answering
  <2>4. ASSUME tx' = <<>>, out' \in Seq(Byte),
               Leads(generating, Whereabouts', out', Believed')
        PROVE  OnTrack'
    <3>1. rx' \o out' = out'
      BY <2>3, <2>4, NoBytes
    <3>2. Leads(generating', Whereabouts', rx' \o out', Believed')
      BY <2>1, <2>4, <3>1
    <3> QED
      BY <2>1, <2>4, <3>2 DEF OnTrack
  <2>5. <<>> \in Seq(Byte)
    OBVIOUS
  <2>6. CASE tx \in {<<"status">>, <<"zero">>}
    <3>1. Head(tx) \in {"status", "zero"} /\ Tail(tx) = <<>> /\ comm = Top
      <4>1. Head(tx) \in {"status", "zero"} /\ Tail(tx) = <<>>
        <5>1. ASSUME NEW x, tx = <<x>> PROVE Head(tx) = x /\ Tail(tx) = <<>>
          BY <5>1
        <5> QED
          BY <2>6, <5>1, Zenon
      <4>2. ~(Head(tx) \in {"one", "size", "chunk"})
        BY <4>1
      <4> QED
        BY <2>2, <4>1, <4>2 DEF Answering
    <3>2. host' = "idle" /\ out' = <<>> /\ tx' = <<>> /\ comm' = Top
      BY <1>2, <2>1, <2>3, <3>1 DEF hostReceives
    <3>3. Whereabouts' = Top /\ Believed' = Top
      BY <3>2 DEF Whereabouts, Believed, Top, Answer
    <3> QED
      BY <2>1, <2>4, <2>5, <3>2, <3>3, LeadsNowhere
  <2>7. CASE tx = <<"one">>
    <3>1. Head(tx) = "one" /\ Tail(tx) = <<>> /\ comm = Place("data", "D", PAYLOAD)
      BY <2>2, <2>7 DEF Answering
    <3>2. host' = "idle" /\ out' = Data(PAYLOAD) /\ tx' = <<>> /\ comm' = comm
      BY <1>2, <2>1, <3>1 DEF hostReceives
    <3>3. Whereabouts' = Place("data", "D", PAYLOAD) /\ Believed' = Top
      BY <3>1, <3>2 DEF Whereabouts, Believed, Place, Answer
    <3>4. out' \in Seq(Byte)
      BY <3>2, LinkAssumption DEF Data, Byte
    <3>5. Leads(generating, Place("data", "D", PAYLOAD), Data(PAYLOAD), Top)
      BY LinkAssumption, LeadsData
    <3> QED
      BY <2>1, <2>4, <3>2, <3>3, <3>4, <3>5
  <2>8. CASE tx = <<"size">>
    <3>1. Head(tx) = "size" /\ Tail(tx) = <<>> /\ comm = Place("chunk", "none", CHUNKS)
      BY <2>2, <2>8 DEF Answering
    <3>2. /\ host' = "chunk" /\ due' = CHUNKS /\ out' = <<>> /\ tx' = <<>>
          /\ comm' = comm
      BY <1>2, <2>1, <2>3, <3>1 DEF hostReceives
    <3>3. Whereabouts' = comm /\ Believed' = comm
      BY <3>1, <3>2 DEF Whereabouts, Believed, Place
    <3> QED
      BY <2>1, <2>4, <2>5, <3>2, <3>3, LeadsNowhere
  <2>9. CASE tx = <<"size", "chunk">>
    <3>1. /\ Head(tx) = "size" /\ Tail(tx) = <<"chunk">>
          /\ comm = Place("ack", "none", CHUNKS)
      BY <2>2, <2>9 DEF Answering
    <3>2. /\ host' = "chunk" /\ due' = CHUNKS /\ out' = <<>> /\ tx' = <<"chunk">>
          /\ comm' = comm
      BY <1>2, <2>1, <2>3, <3>1 DEF hostReceives
    <3>3. Answering'
      BY <2>3, <3>1, <3>2 DEF Answering
    <3> QED
      BY <2>1, <3>3 DEF OnTrack
  <2>10. CASE tx = <<"chunk">>
    <3>1. /\ Head(tx) = "chunk" /\ Tail(tx) = <<>> /\ host = "chunk"
          /\ comm = Place("ack", "none", due)
      BY <2>2, <2>10 DEF Answering
    <3>2. /\ host' = IF due > 1 THEN "chunk" ELSE "idle"
          /\ due' = due - 1 /\ out' = <<"ack">> /\ tx' = <<>> /\ comm' = comm
      BY <1>2, <2>1, <3>1 DEF hostReceives
    <3>3. comm.at = "ack" /\ comm.left = due
      BY <3>1 DEF Place
    <3>4. Whereabouts' = comm
      BY <3>2, <3>3 DEF Whereabouts, Answer
    <3>5. Believed' = IF due > 1 THEN Place("chunk", "none", due - 1) ELSE Top
      BY <3>2 DEF Believed
    <3>6. Reads(generating, comm, "ack") = Believed' /\ "ack" \in Expects(comm)
      BY <3>3, <3>5 DEF Reads, Expects
    <3>7. Leads(generating, Whereabouts', <<"ack">>, Believed')
      BY <3>4, <3>6, LeadsByte
    <3>8. <<"ack">> \in Seq(Byte)
      BY DEF Byte
    <3> QED
      BY <2>1, <2>4, <3>2, <3>7, <3>8
  <2> QED
    BY <2>2, <2>6, <2>7, <2>8, <2>9, <2>10 DEF Answering
<1>3. CASE hostMistakes
  <2>1. host # "idle" /\ tx # <<>> /\ ~(host = "chunk" <=> Head(tx) = "chunk")
    BY <1>3 DEF hostMistakes
  <2>2. Answering
    BY <2>1 DEF OnTrack
  <2>3. host = "chunk" <=> Head(tx) = "chunk"
    BY <2>2 DEF Answering
  <2> QED
    BY <2>1, <2>3
<1> QED
    BY <1>1, <1>2, <1>3 DEF HostStep

\* A command is whole; a suspension between two commands keeps everything, and
\* a new set-up empties it.
LEMMA OutsideOnTrack ==
    ASSUME LinkTypeOK, FrameInv, framing = "kept", OutsideStep
    PROVE  ~disturbed' => framing' = "kept" /\ OnTrack'
<1> SUFFICES ASSUME ~disturbed' PROVE framing' = "kept" /\ OnTrack'
    OBVIOUS
<1>0. rx \in Seq(Byte) /\ out \in Seq(Byte)
    BY DEF LinkTypeOK
<1>1. ASSUME NEW c \in Command, NEW size \in {"fits", "big"}, hostCommand(c, size)
      PROVE  framing' = "kept" /\ OnTrack'
  <2>1. /\ UNCHANGED <<suspended, rx, tx, comm, woken, generating, framing, disturbed>>
        /\ host = "idle" /\ out = <<>> /\ out' = Bytes(c, size)
        /\ host' = IF Answered(c, size) THEN "answer" ELSE "idle"
    BY <1>1 DEF hostCommand, devVars, commVars, ghosts
  <2>2. OnTrack
    BY <2>1 DEF FrameInv
  <2>3. tx = <<>> /\ Leads(generating, Whereabouts, rx, Top)
    <3>1. tx = <<>> /\ Leads(generating, Whereabouts, rx \o out, Believed)
      BY <2>1, <2>2 DEF OnTrack, Answering
    <3>2. rx \o out = rx
      BY <1>0, <2>1, NoBytes
    <3>3. Believed = Top
      BY <2>1 DEF Believed
    <3> QED
      BY <3>1, <3>2, <3>3
  <2>4. Believed' = IF Answered(c, size) THEN Await ELSE Top
    BY <2>1 DEF Believed
  <2>5. Leads(generating, Top, Bytes(c, size), Believed')
    BY <2>4, LeadsCommand
  <2>6. Leads(generating, Whereabouts, rx \o Bytes(c, size), Believed')
    BY <1>0, <2>3, <2>5, BytesType, LeadsOn
  <2>7. Whereabouts' = Whereabouts
    BY <2>1 DEF Whereabouts
  <2>8. tx' = <<>> /\ Leads(generating', Whereabouts', rx' \o out', Believed')
    BY <2>1, <2>3, <2>6, <2>7
  <2> QED
    BY <2>1, <2>2, <2>8 DEF OnTrack
<1>2. ASSUME UNCHANGED <<rx, tx, comm, host, due, out, generating, framing, disturbed>>,
             ~woken', suspended' => comm.at = "top"
      PROVE  framing' = "kept" /\ OnTrack'
  <2>1. UNCHANGED <<Whereabouts, Believed, Answering>>
    BY <1>2 DEF Whereabouts, Believed, Answering
  <2>2. OnTrack
    BY <1>2 DEF FrameInv
  <2>3. \/ tx' = <<>> /\ Leads(generating', Whereabouts', rx' \o out', Believed')
        \/ Answering'
    BY <1>2, <2>1, <2>2 DEF OnTrack
  <2> QED
    BY <1>2, <2>3 DEF OnTrack
<1>3. CASE suspend
  <2>1. /\ UNCHANGED <<rx, tx, comm, host, due, out, generating, framing>>
        /\ disturbed' = (disturbed \/ comm.at # "top")
    BY <1>3 DEF suspend, devVars, hostVars
  <2>2. ~disturbed /\ comm.at = "top"
    BY <2>1, Zenon
  <2>3. ~woken' /\ disturbed' = disturbed
    <3>1. OutsideStep
      OBVIOUS
    <3>2. TopInv'
      BY <3>1, TopStep DEF FrameInv
    <3>3. disturbed' = disturbed
      BY <2>1, <2>2, Zenon DEF LinkTypeOK
    <3> QED
      BY <2>1, <2>2, <3>2, <3>3 DEF TopInv
  <2> QED
    BY <1>2, <2>1, <2>2, <2>3
<1>4. CASE wakeup \/ abort
  <2>1. /\ UNCHANGED <<rx, tx, comm, woken, host, due, out, generating, framing, disturbed>>
        /\ suspended' = FALSE \/ suspended' = suspended
    BY <1>4 DEF wakeup, abort, devVars, commVars, hostVars, ghosts
  <2>2. OnTrack
    BY <2>1 DEF FrameInv
  <2>3. ~woken' /\ (suspended' => comm.at = "top")
    BY <2>1, <2>2 DEF OnTrack
  <2> QED
    BY <1>2, <2>1, <2>3
<1>5. CASE configure
  <2>1. /\ rx' = <<>> /\ tx' = <<>> /\ host' = "idle" /\ out' = <<>>
        /\ UNCHANGED <<comm, framing>> /\ suspended' = FALSE /\ suspended
        /\ disturbed' = (disturbed /\ comm.at # "top")
    BY <1>5 DEF configure
  <2>2. comm.at = "top"
    <3>1. CASE disturbed
      BY <2>1, <3>1, Zenon
    <3>2. CASE ~disturbed
      BY <2>1, <3>2 DEF FrameInv, OnTrack
    <3> QED
      BY <3>1, <3>2
  <2>3. comm' = Top /\ ~woken'
    <3>1. TopInv'
      BY TopStep DEF FrameInv
    <3> QED
      BY <2>1, <2>2, <3>1 DEF TopInv
  <2>4. Whereabouts' = Top /\ Believed' = Top
    BY <2>1, <2>3 DEF Whereabouts, Believed, Top, Answer
  <2>5. rx' \o out' = <<>>
    BY <2>1
  <2>6. Leads(generating', Whereabouts', rx' \o out', Believed')
    BY <2>4, <2>5, LeadsNowhere
  <2> QED
    BY <2>1, <2>3, <2>6 DEF OnTrack
<1> QED
    BY <1>1, <1>3, <1>4, <1>5 DEF OutsideStep

\* What the thread has seen in the queue is taken by nobody else: the queue is
\* emptied only over a link that was down.
LEMMA ReadStep ==
    ASSUME LinkTypeOK, ~disturbed => OnTrack /\ ReadFinds, framing = "kept",
           framing' = "kept", ~disturbed',
           ((CommStep \/ HostStep) /\ ~disturbed) \/ OutsideStep
    PROVE  ReadFinds'
<1> SUFFICES ASSUME comm'.at = "read" PROVE rx' # <<>>
    BY DEF ReadFinds
<1>1. CASE CommStep /\ ~disturbed
  <2>1. isActive
    BY <1>1, OnlyActiveReads
  <2> QED
    BY <2>1 DEF isActive
<1>2. ASSUME UNCHANGED <<comm, rx>>, ~disturbed PROVE rx' # <<>>
    BY <1>2 DEF ReadFinds
<1>3. CASE HostStep /\ ~disturbed
  <2>1. CASE hostSends
    <3>1. rx \in Seq(Byte) /\ rx' = Append(rx, Head(out))
      BY <2>1 DEF hostSends, LinkTypeOK
    <3> QED
      BY <3>1
  <2>2. CASE hostReceives \/ hostMistakes
    BY <1>2, <1>3, <2>2 DEF hostReceives, hostMistakes, commVars
  <2> QED
    BY <1>3, <2>1, <2>2 DEF HostStep
<1>4. CASE wakeup \/ abort
           \/ \E c \in Command, size \in {"fits", "big"} : hostCommand(c, size)
  <2>1. UNCHANGED <<comm, rx, disturbed>>
    BY <1>4 DEF wakeup, abort, hostCommand, commVars, ghosts
  <2> QED
    BY <1>2, <2>1
<1>5. CASE suspend
  <2>1. UNCHANGED comm /\ disturbed' = (disturbed \/ comm.at # "top")
    BY <1>5 DEF suspend
  <2>2. comm.at = "top"
    BY <2>1, Zenon
  <2> QED
    BY <2>1, <2>2
<1>6. CASE configure
  <2>1. UNCHANGED comm /\ disturbed' = (disturbed /\ comm.at # "top") /\ suspended
    BY <1>6 DEF configure
  <2>2. CASE disturbed
    <3>1. comm.at = "top"
      BY <2>1, <2>2, Zenon
    <3> QED
      BY <2>1, <3>1
  <2>3. CASE ~disturbed
    <3>1. comm.at = "top"
      BY <2>1, <2>3, Zenon DEF OnTrack
    <3> QED
      BY <2>1, <3>1
  <2> QED
    BY <2>2, <2>3
<1> QED
    BY <1>1, <1>3, <1>4, <1>5, <1>6 DEF OutsideStep

-----------------------------------------------------------------------------
(* The theorem.                                                            *)

\* A link that has just been started is on track.
LEMMA FrameInit == Init => FrameInv
<1> SUFFICES ASSUME Init PROVE FrameInv
    OBVIOUS
<1>1. /\ comm = Top /\ woken = FALSE /\ suspended = FALSE /\ rx = <<>> /\ tx = <<>>
      /\ host = "idle" /\ out = <<>> /\ framing = "kept"
    BY DEF Init, LinkInit
<1>2. Whereabouts = Top /\ Believed = Top /\ rx \o out = <<>>
    BY <1>1 DEF Whereabouts, Believed, Top, Answer
<1>3. Leads(generating, Whereabouts, rx \o out, Believed)
    BY <1>2, LeadsNowhere
<1> QED
    BY <1>1, <1>3 DEF FrameInv, TopInv, OnTrack, ReadFinds, Top

\* Every step of the device, of the host and of the bus keeps the frames.
LEMMA FrameStep == DeviceInv /\ FrameInv /\ [Next]_vars => FrameInv'
<1> SUFFICES ASSUME DeviceInv, FrameInv, [Next]_vars PROVE FrameInv'
    OBVIOUS
<1>1. LinkInv /\ LinkTypeOK
    BY DEF DeviceInv, LinkInv
<1>2. CASE UNCHANGED linkVars
  <2>1. UNCHANGED <<generating, suspended, rx, tx, comm, woken, host, due, out,
                    framing, disturbed>>
    BY <1>2 DEF linkVars, devVars, commVars, hostVars, ghosts
  <2>2. UNCHANGED <<Whereabouts, Believed, Answering>>
    BY <2>1 DEF Whereabouts, Believed, Answering
  <2>3. OnTrack => OnTrack'
    <3>1. ASSUME tx = <<>>, Leads(generating, Whereabouts, rx \o out, Believed)
          PROVE  tx' = <<>> /\ Leads(generating', Whereabouts', rx' \o out', Believed')
      BY <2>1, <2>2, <3>1
    <3> QED
      BY <2>1, <2>2, <3>1 DEF OnTrack
  <2> QED
    BY <2>1, <2>3 DEF FrameInv, TopInv, ReadFinds
<1>3. CASE Comm
  <2>1. CommStep /\ framing = "kept"
    BY <1>3 DEF Comm, Beside
  <2>2. TopInv'
    BY <2>1, TopStep DEF FrameInv
  <2>3. ASSUME ~disturbed' PROVE framing' = "kept" /\ OnTrack' /\ ReadFinds'
    <3>1. ~disturbed
      <4>1. disturbed' \in {disturbed, TRUE}
        BY <2>1, Zenon DEF CommStep, isActive, startStop, readStatus, readConversion,
           writeADCBuffer, takesArguments, readArgument, refuseArguments,
           executeArguments, readData, readAck, writeAnswer, readCutShort, misread,
           Mistakes, Refuses, Undisturbed, ghosts
      <4> QED
        BY <2>3, <4>1, Zenon
    <3>2. framing' = "kept" /\ OnTrack'
      BY <1>1, <2>1, <2>3, <3>1, CommOnTrack DEF FrameInv
    <3> QED
      BY <1>1, <2>1, <2>3, <3>1, <3>2, ReadStep DEF FrameInv
  <2> QED
    BY <2>2, <2>3 DEF FrameInv
<1>4. CASE Host
  <2>1. HostStep /\ framing = "kept"
    BY <1>4 DEF Host, Beside
  <2>2. TopInv'
    BY <2>1, TopStep DEF FrameInv
  <2>3. disturbed' = disturbed
    BY <2>1 DEF HostStep, hostSends, hostReceives, hostMistakes, ghosts
  <2>4. ASSUME ~disturbed' PROVE framing' = "kept" /\ OnTrack' /\ ReadFinds'
    <3>1. ~disturbed
      BY <2>3, <2>4, Zenon
    <3>2. framing' = "kept" /\ OnTrack'
      BY <1>1, <2>1, <3>1, HostOnTrack DEF FrameInv
    <3> QED
      BY <1>1, <2>1, <2>4, <3>1, <3>2, ReadStep DEF FrameInv
  <2> QED
    BY <2>2, <2>4 DEF FrameInv
<1>5. CASE Outside
  <2>1. OutsideStep /\ framing = "kept"
    BY <1>5 DEF Outside, Beside
  <2>2. TopInv'
    BY <2>1, TopStep DEF FrameInv
  <2>3. ASSUME ~disturbed' PROVE framing' = "kept" /\ OnTrack' /\ ReadFinds'
    <3>1. framing' = "kept" /\ OnTrack'
      BY <1>1, <2>1, <2>3, OutsideOnTrack
    <3> QED
      BY <1>1, <2>1, <2>3, <3>1, ReadStep DEF FrameInv
  <2> QED
    BY <2>2, <2>3 DEF FrameInv
<1>6. CASE Led \/ Button \/ Starve \/ UNCHANGED vars
    BY <1>2, <1>6 DEF Led, Button, Starve, vars
<1> QED
    BY <1>3, <1>4, <1>5, <1>6 DEF Next

\* The communication thread takes every byte for what the host sent it as, unless
\* a command is refused with bytes to come or the link goes down once the thread has
\* found it active: for every size of the queues, of the data and of the chunks.
THEOREM FramingSafe == Spec => []FramingKept
<1>1. FrameInv /\ DeviceInv => FramingKept
    BY DEF FrameInv, FramingKept
<1> QED
    BY <1>1, FrameInit, FrameStep, InitInv, Inductive, PTL DEF Spec


\* The host and the thread never wait for each other, whatever the queues hold:
\* when both wait the last command is over, unless something disturbed the link.
THEOREM StandoffSafe == Spec => []NoStandoff
<1>1. ASSUME DeviceInv, FrameInv PROVE NoStandoff
  <2> SUFFICES ASSUME HostWaits, ThreadWaits, ~disturbed
               PROVE  host = "idle" /\ out = <<>> /\ comm.at = "top"
    BY Zenon DEF NoStandoff
  <2>1. LinkTypeOK /\ OnTrack /\ TopInv /\ ReadFinds
    BY <1>1, Zenon DEF DeviceInv, LinkInv, FrameInv
  <2>2. /\ rx \in Seq(Byte) /\ out \in Seq(Byte) /\ QUEUE \in Nat \ {0}
        /\ host \in {"idle", "answer", "chunk"}
    BY <2>1, LinkAssumption DEF LinkTypeOK
  <2>e. Len(<<>>) = 0
    OBVIOUS
  \* With an answer under way it is the host that goes on.
  <2>3. ~Answering
    <3>1. ASSUME Answering PROVE out = <<>> /\ host # "idle" /\ tx # <<>>
      BY <3>1 DEF Answering
    <3> QED
      BY <3>1 DEF HostWaits
  <2>4. tx = <<>> /\ Leads(generating, Whereabouts, rx \o out, Believed)
    BY <2>1, <2>3, Zenon DEF OnTrack
  \* With nothing under way to the host the thread can write ...
  <2>5. ~(Writing /\ Len(tx) = QUEUE)
    BY <2>2, <2>4, <2>e
  <2>6. rx = <<>>
    BY <2>5, Zenon DEF ThreadWaits, Waits
  \* ... and with nothing under way to the thread the host can send.
  <2>7. out = <<>>
    BY <2>2, <2>6, <2>e DEF HostWaits
  <2>8. Whereabouts = Believed
    <3>1. rx \o out = <<>>
      BY <2>2, <2>6, <2>7
    <3>2. Leads(generating, Whereabouts, <<>>, Believed)
      BY <2>4, <3>1
    <3> QED
      BY <3>2, LeadsNowhere, Zenon
  <2>9. ~Writing
    BY <2>5, <2>6 DEF ThreadWaits, Waits, Reading, Writing, Answer
  <2>10. Whereabouts = comm /\ comm.at \in {"top", "args", "data", "ack"}
    BY <2>1, <2>6, <2>9 DEF Whereabouts, Writing, LinkTypeOK, ReadFinds
  <2>11. /\ host = "idle" => Believed.at = "top"
         /\ host = "answer" => Believed.at = "answer"
         /\ host = "chunk" => Believed.at = "chunk"
    BY DEF Believed, Await, Place, Top
  <2> QED
    BY <2>2, <2>7, <2>8, <2>10, <2>11
<1> QED
    BY <1>1, FrameInit, FrameStep, InitInv, Inductive, PTL DEF Spec

=============================================================================
