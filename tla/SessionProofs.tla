--------------------------- MODULE SessionProofs ---------------------------
(***************************************************************************)
(* The safety properties of Session, for every bound on the client's lines *)
(* and on the pieces of a transfer, and the refinement of Dialogue; then   *)
(* those of Sandbox, the supervisor a session may run under, and of the    *)
(* fenced buffers (Secbuf) and the strings (Mystr) it works with.          *)
(***************************************************************************)
EXTENDS Session, Sandbox, Mystr, Secbuf, TLAPS

\* The steps are about sets and functions, save where arithmetic is named SMT.
USE ZenonT(60)

Open == {"mark", "early", "xfer", "dispose", "close"}
Serving == {"early", "xfer", "dispose", "close", "answer", "cos"}

\* Where the descriptor, the i/o handler, the scan and handle_sigurg can be.
Phases ==
  /\ pc # "exit" => (dataFd <=> pc \in Open)
  /\ pc # "exit" => (io <=> pc \in Open \ {"close"})
  /\ pc \in {"mark", "close", "exit", "idle"} => scan = "no"
  /\ urg => pc \in {"early", "xfer", "dispose"}
  /\ abor => pc \in Serving \cup {"abor", "exit"}

\* The address is there when it is used, and gone or new afterwards.
Addresses ==
  /\ ~(port /\ listen)
  /\ pc = "accept" => port \/ listen
  /\ pc \in {"idle", "getline", "dispatch", "checks", "end"} /\ (port \/ listen) => ~used

\* At most one ABOR is under way, in the connection or in abor_received.
Abors ==
  /\ \A j, k \in DOMAIN input : input[j] = "abor" /\ input[k] = "abor" => j = k
  /\ abor => \A k \in DOMAIN input : input[k] # "abor"

\* What is owed at every place; a reply is left out only after a data timeout.
Owed ==
  /\ pc \in {"idle", "getline"} => owed = 0
  /\ pc \in {"dispatch", "checks", "accept", "init", "mark"} => owed = 1
  /\ pc \in Serving => owed = IF abor THEN 2 ELSE 1
  /\ pc = "abor" => \/ owed = IF abor THEN 1 ELSE 0
                    \/ dataTimeout /\ owed = IF abor THEN 2 ELSE 1
  /\ pc \in {"cleanup", "end"} => owed = 0 \/ (dataTimeout /\ owed = 1)

\* The data alarm watches the whole data connection.
Alarms ==
  /\ pc \in Open => handler = "data"
  /\ pc \in Open \ {"close"} =>
       alarm \/ sigalrm \/ (dataTimeout /\ shut /\ readShut)
  /\ pc = "close" /\ linger => alarm \/ sigalrm
  /\ pc = "getline" => alarm \/ sigalrm \/ readShut

\* TypeOK in two parts, without the sequence.
Values ==
  /\ pc \in Where /\ cmd \in Transfer
  /\ owed \in 0 .. 2 /\ chunk \in 0 .. MaxChunks /\ ret \in {0, -1, -2}
  /\ handler \in {"idle", "data"} /\ scan \in {"no", "alrm", "urg"}

Flags ==
  /\ port \in BOOLEAN /\ listen \in BOOLEAN /\ epsvAll \in BOOLEAN /\ used \in BOOLEAN
  /\ dataFd \in BOOLEAN /\ io \in BOOLEAN /\ shut \in BOOLEAN /\ readShut \in BOOLEAN
  /\ linger \in BOOLEAN /\ cut \in BOOLEAN /\ abor \in BOOLEAN
  /\ progress \in BOOLEAN /\ dataTimeout \in BOOLEAN /\ idleTimeout \in BOOLEAN
  /\ alarm \in BOOLEAN /\ sigalrm \in BOOLEAN /\ sigurg \in BOOLEAN /\ urg \in BOOLEAN

Lines == {"line", "abor"}
Input == input \in Seq(Lines) /\ Len(input) <= MaxInput /\ Abors

IInv == Values /\ Flags /\ Input /\ Phases /\ Addresses /\ Owed /\ Alarms

-----------------------------------------------------------------------------
LEMMA AppendLine ==
  ASSUME NEW s \in Seq(Lines), NEW x \in Lines
  PROVE  /\ Append(s, x) \in Seq(Lines)
         /\ Len(Append(s, x)) = Len(s) + 1
         /\ \A k \in DOMAIN Append(s, x) :
              (k \in DOMAIN s /\ Append(s, x)[k] = s[k]) \/ (k = Len(s) + 1 /\ Append(s, x)[k] = x)
  BY SMT

LEMMA TailLines ==
  ASSUME NEW s \in Seq(Lines), s # <<>>
  PROVE  /\ Tail(s) \in Seq(Lines)
         /\ Len(Tail(s)) = Len(s) - 1
         /\ 1 \in DOMAIN s /\ Head(s) = s[1] /\ Head(s) \in Lines
         /\ \A k \in DOMAIN Tail(s) :
              k + 1 \in DOMAIN s /\ k + 1 # 1 /\ Tail(s)[k] = s[k + 1]
  BY SMT

LEMMA InvInit == Init => IInv
<1> SUFFICES ASSUME Init PROVE IInv
    OBVIOUS
<1>1. Values BY SMT, SessionAssumption DEF Init, Values, Where, Transfer
<1>2. Flags BY DEF Init, Flags
<1>3. Input BY SMT, SessionAssumption DEF Init, Input, Abors
<1>4. Phases /\ Addresses BY DEF Init, Phases, Addresses, Open, Serving
<1>5. Owed /\ Alarms BY DEF Init, Owed, Alarms, Open, Serving
<1>. QED BY <1>1, <1>2, <1>3, <1>4, <1>5 DEF IInv

(* The client's lines and the ABOR among them.                             *)
LEMMA InputNext == IInv /\ [Next]_vars => Input'
<1> SUFFICES ASSUME IInv, [Next]_vars PROVE Input'
    OBVIOUS
<1>0. Input /\ abor \in BOOLEAN /\ Len(input) \in Nat /\ MaxInput \in Nat
  BY SMT, SessionAssumption DEF IInv, Input, Flags
<1> USE <1>0 DEF Input, Abors, conn, data, timer, chan, At, IO, NoIO, Goto, Quiet, Reply, Dispatch
<1>1. CASE SendLine
  BY SMT, <1>1, AppendLine DEF SendLine, Lines
<1>2. CASE SendAbor
  BY SMT, <1>2, AppendLine DEF SendAbor, Lines
<1>3. CASE AlarmFires
  BY <1>3 DEF AlarmFires
<1>4. CASE ScanAlarm
  BY <1>4 DEF ScanAlarm, HandleIdle, HandleData
<1>5. CASE ScanUrg
  BY <1>5 DEF ScanUrg
<1>6. CASE UrgLine
  BY SMT, <1>6, TailLines DEF UrgLine
<1>7. CASE UrgInterrupted
  BY <1>7 DEF UrgInterrupted
<1>8. CASE UrgEof
  BY <1>8 DEF UrgEof
<1>9. CASE SetAlarm
  BY <1>9 DEF SetAlarm
<1>10. CASE ReadLine
  BY SMT, <1>10, TailLines DEF ReadLine
<1>11. CASE Interrupted
  BY <1>11 DEF Interrupted
<1>12. CASE Eof
  BY <1>12 DEF Eof
<1>13. CASE Timeout
  BY <1>13 DEF Timeout
<1>14. CASE Simple
  BY <1>14 DEF Simple
<1>15. CASE Quit
  BY <1>15 DEF Quit
<1>16. CASE StatFile
  BY <1>16 DEF StatFile
<1>17. CASE EpsvAll
  BY <1>17 DEF EpsvAll
<1>18. CASE \E e \in BOOLEAN : Pasv(e)
  BY SMT, <1>18 DEF Pasv
<1>19. CASE \E e \in BOOLEAN : PasvDies(e)
  BY SMT, <1>19 DEF PasvDies
<1>20. CASE \E e, l \in BOOLEAN : Port(e, l)
  BY SMT, <1>20 DEF Port
<1>21. CASE \E c \in Transfer : Begin(c)
  BY SMT, <1>21 DEF Begin
<1>22. CASE Refused
  BY <1>22 DEF Refused
<1>23. CASE StorRefused
  BY <1>23 DEF StorRefused
<1>24. CASE GetRemote
  BY <1>24 DEF GetRemote
<1>25. CASE NotConnected
  BY <1>25 DEF NotConnected
<1>26. CASE Connected
  BY <1>26 DEF Connected
<1>27. CASE InitData
  BY <1>27 DEF InitData
<1>28. CASE Mark
  BY <1>28 DEF Mark
<1>29. CASE EarlyCleanup
  BY <1>29 DEF EarlyCleanup
<1>30. CASE Shut
  BY <1>30 DEF Shut, XferEnds
<1>31. CASE Dispose
  BY <1>31 DEF Dispose
<1>32. CASE Closed
  BY <1>32 DEF Closed, Closing
<1>33. CASE CloseInterrupted
  BY <1>33 DEF CloseInterrupted, Closing
<1>34. CASE Answer
  BY <1>34 DEF Answer
<1>35. CASE ToCos
  BY <1>35 DEF ToCos
<1>36. CASE AnswerStor
  BY <1>36 DEF AnswerStor
<1>37. CASE CheckAbor
  BY <1>37 DEF CheckAbor
<1>38. CASE Cleanup
  BY <1>38 DEF Cleanup
<1>39. CASE End
  BY <1>39 DEF End
<1>40. CASE Chunk
  BY <1>40 DEF Chunk
<1>41. CASE HangUp
  BY <1>41 DEF HangUp
<1>42. CASE \E r \in {0, -1, -2} : XferEnds(r)
  BY SMT, <1>42 DEF XferEnds
<1>43. CASE UNCHANGED vars
  BY <1>43 DEF vars
<1>44. CASE Urgent
  BY <1>44 DEF Urgent
<1>. QED
  BY <1>1, <1>2, <1>3, <1>4, <1>5, <1>6, <1>7, <1>8, <1>9, <1>10, <1>11, <1>12, <1>13,
     <1>14, <1>15, <1>16, <1>17, <1>18, <1>19, <1>20, <1>21, <1>22, <1>23, <1>24, <1>25,
     <1>26, <1>27, <1>28, <1>29, <1>30, <1>31, <1>32, <1>33, <1>34, <1>35, <1>36, <1>37,
     <1>38, <1>39, <1>40, <1>41, <1>42, <1>43, <1>44 DEF Next, Server, Peer

(* The flags.                                                              *)
LEMMA FlagsNext == IInv /\ [Next]_vars => Flags'
<1> SUFFICES ASSUME IInv, [Next]_vars PROVE Flags'
    OBVIOUS
<1>0. Flags
  BY DEF IInv
<1> USE <1>0
<1>1. CASE SendLine
  BY SMT, <1>1 DEF SendLine, Flags, conn, data, timer, chan, IO, NoIO, Quiet
<1>2. CASE SendAbor
  BY SMT, <1>2 DEF SendAbor, Flags, conn, data, timer, chan, IO, NoIO, Quiet
<1>3. CASE AlarmFires
  BY SMT, <1>3 DEF AlarmFires, Flags, conn, data, timer, chan, IO, NoIO, Quiet
<1>4. CASE ScanAlarm
  <2>1. CASE ~sigalrm
    BY SMT, <1>4, <2>1 DEF ScanAlarm, Flags, conn, data, timer, chan
  <2>2. CASE sigalrm /\ handler = "idle"
    <3>1. sigalrm' \in BOOLEAN /\ idleTimeout' \in BOOLEAN /\ readShut' \in BOOLEAN /\ alarm' \in BOOLEAN
      BY <1>4, <2>2 DEF ScanAlarm, HandleIdle
    <3>. QED BY SMT, <1>4, <2>2, <3>1 DEF ScanAlarm, HandleIdle, Flags, conn, data, chan
  <2>3. CASE sigalrm /\ handler # "idle"
    <3>1. sigalrm' \in BOOLEAN
      BY <1>4, <2>3 DEF ScanAlarm
    <3>2. HandleData
      BY <1>4, <2>3 DEF ScanAlarm
    <3>3. /\ progress' \in BOOLEAN /\ alarm' \in BOOLEAN /\ dataTimeout' \in BOOLEAN
          /\ shut' \in BOOLEAN /\ readShut' \in BOOLEAN
      BY <3>2 DEF HandleData, Flags
    <3>. QED BY SMT, <1>4, <2>3, <3>1, <3>2, <3>3 DEF ScanAlarm, HandleData, Flags, conn, data, chan
  <2>. QED BY <2>1, <2>2, <2>3
<1>5. CASE ScanUrg
  <2>1. sigurg' \in BOOLEAN /\ urg' \in BOOLEAN
    BY <1>5 DEF ScanUrg, Flags
  <2>. QED BY SMT, <1>5, <2>1 DEF ScanUrg, Flags, conn, data, timer, chan, IO, NoIO, Quiet
<1>6. CASE UrgLine
  <2>1. urg' \in BOOLEAN /\ abor' \in BOOLEAN /\ shut' \in BOOLEAN
    BY <1>6 DEF UrgLine, Flags
  <2>. QED BY SMT, <1>6, <2>1 DEF UrgLine, Flags, conn, data, timer, chan, IO, NoIO, Quiet
<1>7. CASE UrgInterrupted
  BY SMT, <1>7 DEF UrgInterrupted, Flags, conn, data, timer, chan, IO, NoIO, Quiet
<1>8. CASE UrgEof
  <2>1. urg' \in BOOLEAN
    BY <1>8 DEF UrgEof, Flags
  <2>. QED BY SMT, <1>8, <2>1 DEF UrgEof, Flags, conn, data, timer, chan, IO, NoIO, Quiet
<1>9. CASE SetAlarm
  BY SMT, <1>9 DEF SetAlarm, Flags, conn, data, timer, chan, IO, NoIO, Quiet
<1>10. CASE ReadLine
  BY SMT, <1>10 DEF ReadLine, Flags, conn, data, timer, chan, IO, NoIO, Quiet
<1>11. CASE Interrupted
  BY SMT, <1>11 DEF Interrupted, Flags, conn, data, timer, chan, IO, NoIO, Quiet
<1>12. CASE Eof
  BY SMT, <1>12 DEF Eof, Flags, conn, data, timer, chan, IO, NoIO, Quiet
<1>13. CASE Timeout
  BY SMT, <1>13 DEF Timeout, Flags, conn, data, timer, chan, IO, NoIO, Quiet
<1>14. CASE Simple
  BY SMT, <1>14 DEF Simple, Flags, conn, data, timer, chan, IO, NoIO, Quiet
<1>15. CASE Quit
  BY SMT, <1>15 DEF Quit, Flags, conn, data, timer, chan, IO, NoIO, Quiet
<1>16. CASE StatFile
  <2>1. abor' \in BOOLEAN
    BY <1>16 DEF StatFile, Flags
  <2>. QED BY SMT, <1>16, <2>1 DEF StatFile, Flags, conn, data, timer, chan, IO, NoIO, Quiet
<1>17. CASE EpsvAll
  BY SMT, <1>17 DEF EpsvAll, Flags, conn, data, timer, chan, IO, NoIO, Quiet
<1>18. CASE \E e \in BOOLEAN : Pasv(e)
  <2>1. port' \in BOOLEAN /\ listen' \in BOOLEAN /\ used' \in BOOLEAN
    BY <1>18 DEF Pasv, Flags
  <2>. QED BY SMT, <1>18, <2>1 DEF Pasv, Flags, conn, data, timer, chan, IO, NoIO, Quiet
<1>19. CASE \E e \in BOOLEAN : PasvDies(e)
  <2>1. port' \in BOOLEAN /\ listen' \in BOOLEAN
    BY <1>19 DEF PasvDies, Flags
  <2>. QED BY SMT, <1>19, <2>1 DEF PasvDies, Flags, conn, data, timer, chan, IO, NoIO, Quiet
<1>20. CASE \E e, l \in BOOLEAN : Port(e, l)
  <2>1. port' \in BOOLEAN /\ listen' \in BOOLEAN /\ used' \in BOOLEAN
    BY <1>20 DEF Port, Flags
  <2>. QED BY SMT, <1>20, <2>1 DEF Port, Flags, conn, data, timer, chan, IO, NoIO, Quiet
<1>21. CASE \E c \in Transfer : Begin(c)
  BY SMT, <1>21 DEF Begin, Flags, conn, data, timer, chan, IO, NoIO, Quiet
<1>22. CASE Refused
  BY SMT, <1>22 DEF Refused, Flags, conn, data, timer, chan, IO, NoIO, Quiet
<1>23. CASE StorRefused
  BY SMT, <1>23 DEF StorRefused, Flags, conn, data, timer, chan, IO, NoIO, Quiet
<1>24. CASE GetRemote
  <2>1. abor' \in BOOLEAN /\ used' \in BOOLEAN
    BY <1>24 DEF GetRemote, Flags
  <2>. QED BY SMT, <1>24, <2>1 DEF GetRemote, Flags, conn, data, timer, chan, IO, NoIO, Quiet
<1>25. CASE NotConnected
  BY SMT, <1>25 DEF NotConnected, Flags, conn, data, timer, chan, IO, NoIO, Quiet
<1>26. CASE Connected
  BY SMT, <1>26 DEF Connected, Flags, conn, data, timer, chan, IO, NoIO, Quiet
<1>27. CASE InitData
  <2>1. progress' \in BOOLEAN
    BY <1>27 DEF InitData, Flags
  <2>. QED BY SMT, <1>27, <2>1 DEF InitData, Flags, conn, data, timer, chan, IO, NoIO, Quiet
<1>28. CASE Mark
  BY SMT, <1>28 DEF Mark, Flags, conn, data, timer, chan, IO, NoIO, Quiet
<1>29. CASE EarlyCleanup
  <2>1. listen' \in BOOLEAN
    BY <1>29 DEF EarlyCleanup, Flags
  <2>. QED BY SMT, <1>29, <2>1 DEF EarlyCleanup, Flags, conn, data, timer, chan, IO, NoIO, Quiet
<1>30. CASE Shut
  BY SMT, <1>30 DEF Shut, XferEnds, Flags, conn, data, timer, chan, IO, NoIO, Quiet
<1>31. CASE Dispose
  <2>1. io' \in BOOLEAN /\ linger' \in BOOLEAN /\ alarm' \in BOOLEAN
    BY <1>31 DEF Dispose, Flags
  <2>. QED BY SMT, <1>31, <2>1 DEF Dispose, Flags, conn, data, timer, chan, IO, NoIO, Quiet
<1>32. CASE Closed
  <2>1. cut' \in BOOLEAN /\ dataFd' \in BOOLEAN /\ shut' \in BOOLEAN /\ linger' \in BOOLEAN /\ alarm' \in BOOLEAN
    BY <1>32 DEF Closed, Closing, Flags
  <2>. QED BY SMT, <1>32, <2>1 DEF Closed, Closing, Flags, conn, data, timer, chan, IO, NoIO, Quiet
<1>33. CASE CloseInterrupted
  <2>1. cut' \in BOOLEAN /\ dataFd' \in BOOLEAN /\ shut' \in BOOLEAN /\ linger' \in BOOLEAN /\ alarm' \in BOOLEAN
    BY <1>33 DEF CloseInterrupted, Closing, Flags
  <2>. QED BY SMT, <1>33, <2>1 DEF CloseInterrupted, Closing, Flags, conn, data, timer, chan, IO, NoIO, Quiet
<1>34. CASE Answer
  BY SMTT(30), <1>34 DEF Answer, Flags, conn, data, timer, chan, IO, NoIO, Quiet
<1>35. CASE ToCos
  <2>1. port' \in BOOLEAN
    BY <1>35 DEF ToCos, Flags
  <2>. QED BY SMT, <1>35, <2>1 DEF ToCos, Flags, conn, data, timer, chan, IO, NoIO, Quiet
<1>36. CASE AnswerStor
  BY SMT, <1>36 DEF AnswerStor, Flags, conn, data, timer, chan, IO, NoIO, Quiet
<1>37. CASE CheckAbor
  <2>1. abor' \in BOOLEAN
    BY <1>37 DEF CheckAbor, Flags
  <2>. QED BY SMT, <1>37, <2>1 DEF CheckAbor, Flags, conn, data, timer, chan, IO, NoIO, Quiet
<1>38. CASE Cleanup
  <2>1. port' \in BOOLEAN /\ listen' \in BOOLEAN /\ cut' \in BOOLEAN
    BY <1>38 DEF Cleanup, Flags
  <2>. QED BY SMT, <1>38, <2>1 DEF Cleanup, Flags, conn, data, timer, chan, IO, NoIO, Quiet
<1>39. CASE End
  BY SMT, <1>39 DEF End, Flags, conn, data, timer, chan, IO, NoIO, Quiet
<1>40. CASE Chunk
  BY SMT, <1>40 DEF Chunk, Flags, conn, data, timer, chan, IO, NoIO, Quiet
<1>41. CASE HangUp
  <2>1. urg' \in BOOLEAN
    BY <1>41 DEF HangUp, Flags
  <2>. QED BY SMT, <1>41, <2>1 DEF HangUp, Flags, conn, data, timer, chan, IO, NoIO, Quiet
<1>42. CASE \E r \in {0, -1, -2} : XferEnds(r)
  BY SMT, <1>42 DEF XferEnds, Flags, conn, data, timer, chan, IO, NoIO, Quiet
<1>43. CASE UNCHANGED vars
  BY SMT, <1>43 DEF vars, Flags, conn, data, timer, chan, IO, NoIO, Quiet
<1>44. CASE Urgent
  BY SMT, <1>44 DEF Urgent, Flags, conn, data, timer, chan, IO, NoIO, Quiet
<1>. QED
  BY <1>1, <1>2, <1>3, <1>4, <1>5, <1>6, <1>7, <1>8, <1>9, <1>10, <1>11, <1>12, <1>13,
     <1>14, <1>15, <1>16, <1>17, <1>18, <1>19, <1>20, <1>21, <1>22, <1>23, <1>24, <1>25,
     <1>26, <1>27, <1>28, <1>29, <1>30, <1>31, <1>32, <1>33, <1>34, <1>35, <1>36, <1>37,
     <1>38, <1>39, <1>40, <1>41, <1>42, <1>43, <1>44 DEF Next, Server, Peer

(* The other values.                                                       *)
LEMMA ValuesNext == IInv /\ [Next]_vars => Values'
<1> SUFFICES ASSUME IInv, [Next]_vars PROVE Values'
    OBVIOUS
<1>0. /\ Values /\ Phases /\ Owed
      /\ MaxChunks \in Nat
      /\ input # <<>> => (Head(input) = "abor" => ~abor)
  BY SessionAssumption, TailLines DEF IInv, Input, Abors
<1> USE <1>0 DEF Values, Phases, Owed, Serving, Open, Where, Transfer, conn, data, timer, chan,
                 At, IO, NoIO, Goto, Quiet, Reply, Dispatch
<1>1. CASE SendLine
  BY <1>1 DEF SendLine
<1>2. CASE SendAbor
  BY <1>2 DEF SendAbor
<1>3. CASE AlarmFires
  BY SMT, <1>3 DEF AlarmFires
<1>4. CASE ScanAlarm
  BY <1>4 DEF ScanAlarm, HandleIdle, HandleData
<1>5. CASE ScanUrg
  BY <1>5 DEF ScanUrg
<1>6. CASE UrgLine
  BY SMT, <1>6 DEF UrgLine
<1>7. CASE UrgInterrupted
  BY <1>7 DEF UrgInterrupted
<1>8. CASE UrgEof
  BY <1>8 DEF UrgEof
<1>9. CASE SetAlarm
  BY <1>9 DEF SetAlarm
<1>10. CASE ReadLine
  BY SMT, <1>10 DEF ReadLine
<1>11. CASE Interrupted
  BY <1>11 DEF Interrupted
<1>12. CASE Eof
  BY <1>12 DEF Eof
<1>13. CASE Timeout
  BY SMT, <1>13 DEF Timeout
<1>14. CASE Simple
  BY SMT, <1>14 DEF Simple
<1>15. CASE Quit
  BY SMT, <1>15 DEF Quit
<1>16. CASE StatFile
  BY SMT, <1>16 DEF StatFile
<1>17. CASE EpsvAll
  BY SMT, <1>17 DEF EpsvAll
<1>18. CASE \E e \in BOOLEAN : Pasv(e)
  BY SMT, <1>18 DEF Pasv
<1>19. CASE \E e \in BOOLEAN : PasvDies(e)
  BY <1>19 DEF PasvDies
<1>20. CASE \E e, l \in BOOLEAN : Port(e, l)
  BY SMT, <1>20 DEF Port
<1>21. CASE \E c \in Transfer : Begin(c)
  BY <1>21 DEF Begin
<1>22. CASE Refused
  BY SMT, <1>22 DEF Refused
<1>23. CASE StorRefused
  BY SMT, <1>23 DEF StorRefused
<1>24. CASE GetRemote
  BY <1>24 DEF GetRemote
<1>25. CASE NotConnected
  BY SMT, <1>25 DEF NotConnected
<1>26. CASE Connected
  BY <1>26 DEF Connected
<1>27. CASE InitData
  BY <1>27 DEF InitData
<1>28. CASE Mark
  BY <1>28 DEF Mark
<1>29. CASE EarlyCleanup
  BY <1>29 DEF EarlyCleanup
<1>30. CASE Shut
  BY SMT, <1>30 DEF Shut, XferEnds
<1>31. CASE Dispose
  BY <1>31 DEF Dispose
<1>32. CASE Closed
  BY <1>32 DEF Closed, Closing
<1>33. CASE CloseInterrupted
  BY <1>33 DEF CloseInterrupted, Closing
<1>34. CASE Answer
  BY SMT, <1>34 DEF Answer
<1>35. CASE ToCos
  BY <1>35 DEF ToCos
<1>36. CASE AnswerStor
  BY SMT, <1>36 DEF AnswerStor
<1>37. CASE CheckAbor
  BY SMT, <1>37 DEF CheckAbor
<1>38. CASE Cleanup
  BY <1>38 DEF Cleanup
<1>39. CASE End
  BY <1>39 DEF End
<1>40. CASE Chunk
  BY SMT, <1>40 DEF Chunk
<1>41. CASE HangUp
  BY <1>41 DEF HangUp
<1>42. CASE \E r \in {0, -1, -2} : XferEnds(r)
  BY SMT, <1>42 DEF XferEnds
<1>43. CASE UNCHANGED vars
  BY SMT, <1>43 DEF vars
<1>44. CASE Urgent
  BY SMTT(30), <1>44 DEF Urgent
<1>. QED
  BY <1>1, <1>2, <1>3, <1>4, <1>5, <1>6, <1>7, <1>8, <1>9, <1>10, <1>11, <1>12, <1>13,
     <1>14, <1>15, <1>16, <1>17, <1>18, <1>19, <1>20, <1>21, <1>22, <1>23, <1>24, <1>25,
     <1>26, <1>27, <1>28, <1>29, <1>30, <1>31, <1>32, <1>33, <1>34, <1>35, <1>36, <1>37,
     <1>38, <1>39, <1>40, <1>41, <1>42, <1>43, <1>44 DEF Next, Server, Peer

(* The phases of the session, its addresses, debts and alarms.             *)
LEMMA StateNext == IInv /\ [Next]_vars => (Phases /\ Addresses /\ Owed /\ Alarms)'
<1> SUFFICES ASSUME IInv, [Next]_vars PROVE (Phases /\ Addresses /\ Owed /\ Alarms)'
    OBVIOUS
<1>0. /\ Values /\ Flags /\ Phases /\ Addresses /\ Owed /\ Alarms
      /\ input # <<>> => (Head(input) = "abor" => ~abor)
  BY TailLines DEF IInv, Input, Abors
<1> USE <1>0 DEF Values, Flags, Phases, Addresses, Owed, Alarms, Open, Serving, Where, Transfer,
            conn, data, timer, chan, At, IO, NoIO, Goto, Quiet, Reply, Dispatch
<1>1. CASE SendLine
  BY SMTT(30), <1>1 DEF SendLine
<1>2. CASE SendAbor
  BY SMTT(30), <1>2 DEF SendAbor
<1>3. CASE AlarmFires
  BY SMTT(30), <1>3 DEF AlarmFires
<1>4. CASE ScanAlarm
  BY SMTT(30), <1>4 DEF ScanAlarm, HandleIdle, HandleData
<1>5. CASE ScanUrg
  BY SMTT(30), <1>5 DEF ScanUrg
<1>6. CASE UrgLine
  BY SMT, <1>6 DEF UrgLine
<1>7. CASE UrgInterrupted
  BY <1>7 DEF UrgInterrupted
<1>8. CASE UrgEof
  BY <1>8 DEF UrgEof
<1>9. CASE SetAlarm
  BY <1>9 DEF SetAlarm
<1>10. CASE ReadLine
  BY SMT, <1>10 DEF ReadLine
<1>11. CASE Interrupted
  BY <1>11 DEF Interrupted
<1>12. CASE Eof
  BY <1>12 DEF Eof
<1>13. CASE Timeout
  BY <1>13 DEF Timeout
<1>14. CASE Simple
  BY SMT, <1>14 DEF Simple
<1>15. CASE Quit
  BY <1>15 DEF Quit
<1>16. CASE StatFile
  BY SMTT(30), <1>16 DEF StatFile
<1>17. CASE EpsvAll
  BY SMTT(30), <1>17 DEF EpsvAll
<1>18. CASE \E e \in BOOLEAN : Pasv(e)
  BY SMTT(30), <1>18 DEF Pasv
<1>19. CASE \E e \in BOOLEAN : PasvDies(e)
  BY SMTT(30), <1>19 DEF PasvDies
<1>20. CASE \E e, l \in BOOLEAN : Port(e, l)
  BY SMTT(30), <1>20 DEF Port
<1>21. CASE \E c \in Transfer : Begin(c)
  BY SMTT(30), <1>21 DEF Begin
<1>22. CASE Refused
  BY SMTT(30), <1>22 DEF Refused
<1>23. CASE StorRefused
  BY SMT, <1>23 DEF StorRefused
<1>24. CASE GetRemote
  BY <1>24 DEF GetRemote
<1>25. CASE NotConnected
  BY SMT, <1>25 DEF NotConnected
<1>26. CASE Connected
  BY <1>26 DEF Connected
<1>27. CASE InitData
  BY <1>27 DEF InitData
<1>28. CASE Mark
  BY <1>28 DEF Mark
<1>29. CASE EarlyCleanup
  BY <1>29 DEF EarlyCleanup
<1>30. CASE Shut
  BY <1>30 DEF Shut, XferEnds
<1>31. CASE Dispose
  BY <1>31 DEF Dispose
<1>32. CASE Closed
  BY <1>32 DEF Closed, Closing
<1>33. CASE CloseInterrupted
  BY <1>33 DEF CloseInterrupted, Closing
<1>34. CASE Answer
  BY SMT, <1>34 DEF Answer
<1>35. CASE ToCos
  BY <1>35 DEF ToCos
<1>36. CASE AnswerStor
  BY SMTT(30), <1>36 DEF AnswerStor
<1>37. CASE CheckAbor
  BY SMT, <1>37 DEF CheckAbor
<1>38. CASE Cleanup
  BY <1>38 DEF Cleanup
<1>39. CASE End
  BY <1>39 DEF End
<1>40. CASE Chunk
  BY <1>40 DEF Chunk
<1>41. CASE HangUp
  BY <1>41 DEF HangUp
<1>42. CASE \E r \in {0, -1, -2} : XferEnds(r)
  BY SMTT(30), <1>42 DEF XferEnds
<1>43. CASE UNCHANGED vars
  BY SMTT(30), <1>43 DEF vars
<1>44. CASE Urgent
  BY SMT, <1>44 DEF Urgent
<1>. QED
  BY <1>1, <1>2, <1>3, <1>4, <1>5, <1>6, <1>7, <1>8, <1>9, <1>10, <1>11, <1>12, <1>13,
     <1>14, <1>15, <1>16, <1>17, <1>18, <1>19, <1>20, <1>21, <1>22, <1>23, <1>24, <1>25,
     <1>26, <1>27, <1>28, <1>29, <1>30, <1>31, <1>32, <1>33, <1>34, <1>35, <1>36, <1>37,
     <1>38, <1>39, <1>40, <1>41, <1>42, <1>43, <1>44 DEF Next, Server, Peer

LEMMA InvNext == IInv /\ [Next]_vars => IInv'
  BY InputNext, FlagsNext, ValuesNext, StateNext DEF IInv

-----------------------------------------------------------------------------
(* Every reachable state satisfies the inductive invariant.                *)
THEOREM Invariance == Spec => []IInv
  BY InvInit, InvNext, PTL DEF Spec

(* The session's variables keep their types; in particular no more than two*)
(* lines, a command and an ABOR, are ever unanswered.                      *)
THEOREM TypeCorrect == Spec => []TypeOK
<1>1. IInv => TypeOK
  BY DEF IInv, Values, Flags, Input, Lines, TypeOK
<1>. QED BY <1>1, Invariance, PTL

(* No bug() or die() of PORT, PASV and the data connection is reachable.   *)
THEOREM NeverBug == Spec => []NoBug
<1>1. IInv => NoBug
  BY DEF IInv, Phases, Addresses, Open, NoBug
<1>. QED BY <1>1, Invariance, PTL

(* abor_received never outlives the transfer it was meant for.             *)
THEOREM AborStays == Spec => []AborInTransfer
<1>1. IInv => AborInTransfer
  BY DEF IInv, Phases, Open, Serving, AborInTransfer
<1>. QED BY <1>1, Invariance, PTL

(* The address of a PORT or PASV serves one connection attempt.            *)
THEOREM AddressesOnce == Spec => []AddressOnce
<1>1. IInv => AddressOnce
  BY DEF IInv, Addresses, AddressOnce
<1>. QED BY <1>1, Invariance, PTL

(* The session never waits for the client without an alarm behind it.      *)
THEOREM AlwaysWatched == Spec => []Watched
<1>1. IInv => Watched
  BY DEF IInv, Phases, Alarms, Open, Watched
<1>. QED BY <1>1, Invariance, PTL

-----------------------------------------------------------------------------
(* Every step of the session is a step of the dialogue or changes nothing  *)
(* the client sees.                                                        *)
LEMMA DialogueNext == IInv /\ [Next]_vars => [Promise!Next]_(Promise!vars)
<1> SUFFICES ASSUME IInv, [Next]_vars PROVE [Promise!Next]_(Promise!vars)
    OBVIOUS
<1>0. /\ Values /\ Flags /\ Phases /\ Owed
      /\ input # <<>> => (Head(input) = "abor" => ~abor)
  BY TailLines DEF IInv, Input, Abors
<1> USE <1>0 DEF Values, Flags, Phases, Owed, Open, Serving, conn, data, chan,
            At, Goto, Reply, Dispatch,
            Promise!Next, Promise!vars, Promise!Take, Promise!Connect, Promise!TakeAbor,
            Promise!Close, Promise!Answer, Promise!Leave
<1>1. CASE SendLine
  BY <1>1 DEF SendLine
<1>2. CASE SendAbor
  BY <1>2 DEF SendAbor
<1>3. CASE AlarmFires
  BY <1>3 DEF AlarmFires
<1>4. CASE ScanAlarm
  BY <1>4 DEF ScanAlarm, HandleIdle, HandleData
<1>5. CASE ScanUrg
  BY <1>5 DEF ScanUrg
<1>6. CASE UrgLine
  BY SMT, <1>6 DEF UrgLine
<1>7. CASE UrgInterrupted
  BY <1>7 DEF UrgInterrupted
<1>8. CASE UrgEof
  BY <1>8 DEF UrgEof
<1>9. CASE SetAlarm
  BY <1>9 DEF SetAlarm
<1>10. CASE ReadLine
  BY SMT, <1>10 DEF ReadLine
<1>11. CASE Interrupted
  BY <1>11 DEF Interrupted
<1>12. CASE Eof
  BY <1>12 DEF Eof
<1>13. CASE Timeout
  BY <1>13 DEF Timeout
<1>14. CASE Simple
  BY SMT, <1>14 DEF Simple
<1>15. CASE Quit
  BY <1>15 DEF Quit
<1>16. CASE StatFile
  BY SMTT(30), <1>16 DEF StatFile
<1>17. CASE EpsvAll
  BY SMTT(30), <1>17 DEF EpsvAll
<1>18. CASE \E e \in BOOLEAN : Pasv(e)
  BY SMT, <1>18 DEF Pasv
<1>19. CASE \E e \in BOOLEAN : PasvDies(e)
  BY <1>19 DEF PasvDies
<1>20. CASE \E e, l \in BOOLEAN : Port(e, l)
  BY SMT, <1>20 DEF Port
<1>21. CASE \E c \in Transfer : Begin(c)
  BY <1>21 DEF Begin
<1>22. CASE Refused
  BY SMTT(30), <1>22 DEF Refused
<1>23. CASE StorRefused
  BY SMT, <1>23 DEF StorRefused
<1>24. CASE GetRemote
  BY <1>24 DEF GetRemote
<1>25. CASE NotConnected
  BY SMT, <1>25 DEF NotConnected
<1>26. CASE Connected
  BY <1>26 DEF Connected
<1>27. CASE InitData
  BY <1>27 DEF InitData
<1>28. CASE Mark
  BY <1>28 DEF Mark
<1>29. CASE EarlyCleanup
  BY <1>29 DEF EarlyCleanup
<1>30. CASE Shut
  BY <1>30 DEF Shut, XferEnds
<1>31. CASE Dispose
  BY <1>31 DEF Dispose
<1>32. CASE Closed
  BY <1>32 DEF Closed, Closing
<1>33. CASE CloseInterrupted
  BY <1>33 DEF CloseInterrupted, Closing
<1>34. CASE Answer
  BY SMT, <1>34 DEF Answer
<1>35. CASE ToCos
  BY <1>35 DEF ToCos
<1>36. CASE AnswerStor
  BY SMTT(30), <1>36 DEF AnswerStor
<1>37. CASE CheckAbor
  BY SMT, <1>37 DEF CheckAbor
<1>38. CASE Cleanup
  BY <1>38 DEF Cleanup
<1>39. CASE End
  BY <1>39 DEF End
<1>40. CASE Chunk
  BY <1>40 DEF Chunk
<1>41. CASE HangUp
  BY <1>41 DEF HangUp
<1>42. CASE \E r \in {0, -1, -2} : XferEnds(r)
  BY <1>42 DEF XferEnds
<1>43. CASE UNCHANGED vars
  BY <1>43 DEF vars
<1>44. CASE Urgent
  BY <1>44 DEF Urgent
<1>. QED
  BY <1>1, <1>2, <1>3, <1>4, <1>5, <1>6, <1>7, <1>8, <1>9, <1>10, <1>11, <1>12, <1>13,
     <1>14, <1>15, <1>16, <1>17, <1>18, <1>19, <1>20, <1>21, <1>22, <1>23, <1>24, <1>25,
     <1>26, <1>27, <1>28, <1>29, <1>30, <1>31, <1>32, <1>33, <1>34, <1>35, <1>36, <1>37,
     <1>38, <1>39, <1>40, <1>41, <1>42, <1>43, <1>44 DEF Next, Server, Peer

(* The session implements the dialogue it promises its client.             *)
THEOREM Refinement == Spec => ImplementsDialogue
<1>1. Init => Promise!Init
  BY DEF Init, Promise!Init
<1>. QED BY <1>1, DialogueNext, Invariance, PTL DEF Spec, ImplementsDialogue, Promise!Spec

-----------------------------------------------------------------------------
(* A one-process session may be traced (ptracesandbox.c).  The supervisor  *)
(* and the traced session are those of module Sandbox.                     *)

\* The session is in a call only when it is stopped or running in one.
InCall == child \in {"entry", "call", "exit"} => call \in Calls

\* The supervisor is launched once, on a session that has not run.
Launched ==
  /\ child \in {"start", "attached"} => sup \in {"launch", "gone"}
  /\ sup = "launch" => child \in {"start", "attached", "zombie"} /\ ~is_exit

\* What waitpid reported holds while the supervisor handles it, unless the
\* session has been killed since.
Reported ==
  sup = "handle" => /\ status # "none"
                    /\ status = "zombie" => child = "reaped"
                    /\ Alive => child = status

\* The process is forgotten before the kill, and gone when the sandbox is freed.
Forgotten == sup \in {"rewrite", "free"} => ~pid

BoxInv == Judged /\ InCall /\ Launched /\ Reported /\ Forgotten

LEMMA BoxInit == ASSUME SandboxInit PROVE BoxInv
  BY DEF SandboxInit, BoxInv, InCall, Launched, Reported, Forgotten, Judged, SandboxTypeOK, InPhase,
         OnlyAllowed, FreeClean

\* Attach, EnterCall, LeaveCall and Signal: the session moves, and the
\* supervisor does not.
LEMMA BoxSession ==
  ASSUME BoxInv, Attach \/ EnterCall \/ LeaveCall \/ Signal
  PROVE  BoxInv'
<1> USE DEF BoxInv, Judged
<1>0. status \in {"none", "entry", "exit", "signal", "zombie"}
  BY DEF SandboxTypeOK
<1>1. CASE Attach
  <2>1. SandboxTypeOK' /\ OnlyAllowed' /\ InCall' /\ Forgotten'
    BY <1>1 DEF Attach, SandboxTypeOK, OnlyAllowed, InCall, Forgotten
  <2>2. InPhase' /\ Launched' /\ Reported' /\ FreeClean'
    BY <1>1 DEF Attach, InPhase, Launched, Reported, FreeClean, Alive
  <2> QED BY <2>1, <2>2
<1>2. CASE EnterCall
  <2>1. SandboxTypeOK' /\ OnlyAllowed' /\ InCall' /\ Forgotten'
    BY <1>2 DEF EnterCall, SandboxTypeOK, OnlyAllowed, InCall, Forgotten
  <2>2. InPhase' /\ Launched' /\ Reported' /\ FreeClean'
    BY <1>0, <1>2 DEF EnterCall, InPhase, Launched, Reported, FreeClean, Alive
  <2> QED BY <2>1, <2>2
<1>3. CASE LeaveCall
  <2>1. SandboxTypeOK' /\ OnlyAllowed' /\ InCall' /\ Forgotten'
    BY <1>3 DEF LeaveCall, SandboxTypeOK, OnlyAllowed, InCall, Forgotten
  <2>2. InPhase' /\ Launched' /\ Reported' /\ FreeClean'
    BY <1>0, <1>3 DEF LeaveCall, InPhase, Launched, Reported, FreeClean, Alive
  <2> QED BY <2>1, <2>2
<1>4. CASE Signal
  <2>1. SandboxTypeOK' /\ OnlyAllowed' /\ InCall' /\ Forgotten'
    BY <1>4 DEF Signal, SandboxTypeOK, OnlyAllowed, InCall, Forgotten
  <2>2. InPhase' /\ Launched' /\ Reported' /\ FreeClean'
    BY <1>0, <1>4 DEF Signal, InPhase, Launched, Reported, FreeClean, Alive
  <2> QED BY <2>1, <2>2
<1> QED BY <1>1, <1>2, <1>3, <1>4

\* KillOutside, and the death signal that is one: the session is gone, and a
\* call it was stopped in may have run.
LEMMA BoxKill == ASSUME BoxInv, KillOutside PROVE BoxInv'
<1> USE DEF BoxInv, Judged, KillOutside
<1>1. SandboxTypeOK'
  BY DEF SandboxTypeOK, InCall
<1>2. InCall' /\ Forgotten'
  BY DEF InCall, Forgotten
<1>3. OnlyAllowed'
  BY SMT DEF OnlyAllowed
<1>4. child \notin {"zombie", "reaped"} /\ child' = "zombie" /\ UNCHANGED <<sup, status, pid, is_exit>>
  BY DEF Alive
<1>5. InPhase'
  BY <1>4 DEF InPhase
<1>6. Launched'
  BY SMT, <1>4 DEF Launched
<1>7. Reported'
  BY <1>4 DEF Reported, Alive
<1>8. FreeClean'
  BY <1>4 DEF FreeClean, Alive
<1> QED BY <1>1, <1>2, <1>3, <1>5, <1>6, <1>7, <1>8

\* Launch: the session goes on with no call in between, or there is none.
LEMMA BoxLaunch == ASSUME BoxInv, Launch PROVE BoxInv'
<1> USE DEF BoxInv, Judged
<1>1. CASE child = "attached"
  <2>1. /\ sup' = "wait" /\ child' = "user" /\ call' = None /\ ~is_exit /\ ~is_exit'
        /\ UNCHANGED <<conf, status, pid, is_exit, ran, raced>>
    BY <1>1 DEF Launch, Resume, Launched
  <2>2. SandboxTypeOK'
    BY <2>1 DEF SandboxTypeOK
  <2>3. OnlyAllowed' /\ InCall' /\ Forgotten'
    BY <2>1 DEF OnlyAllowed, InCall, Forgotten
  <2>4. InPhase' /\ Launched' /\ Reported' /\ FreeClean'
    BY <2>1 DEF InPhase, Launched, Reported, FreeClean
  <2> QED BY <2>2, <2>3, <2>4
<1>2. CASE child # "attached"
  <2>1. /\ sup' = "gone" /\ child' = "reaped" /\ pid' = FALSE
        /\ UNCHANGED <<conf, call, status, is_exit, ran, raced>>
    BY <1>2 DEF Launch
  <2>2. SandboxTypeOK'
    BY <2>1 DEF SandboxTypeOK
  <2>3. OnlyAllowed' /\ InCall' /\ Forgotten'
    BY <2>1 DEF OnlyAllowed, InCall, Forgotten
  <2>4. InPhase' /\ Launched' /\ Reported' /\ FreeClean'
    BY <2>1 DEF InPhase, Launched, Reported, FreeClean
  <2> QED BY <2>2, <2>3, <2>4
<1> QED BY <1>1, <1>2

\* Wait: the stop that is reported is where the session is.
LEMMA BoxWait == ASSUME BoxInv, Wait PROVE BoxInv'
<1> USE DEF BoxInv, Judged
<1>1. /\ child \in {"entry", "exit", "signal", "zombie"} /\ sup = "wait" /\ sup' = "handle" /\ status' = child
      /\ child' = IF child = "zombie" THEN "reaped" ELSE child
      /\ UNCHANGED <<conf, call, pid, is_exit, ran, raced>>
  BY DEF Wait, Stopped, Launched
<1>2. SandboxTypeOK'
  BY <1>1 DEF SandboxTypeOK
<1>3. OnlyAllowed' /\ InCall' /\ Forgotten'
  BY <1>1 DEF OnlyAllowed, InCall, Forgotten
<1>4. InPhase' /\ Launched' /\ Reported' /\ FreeClean'
  BY <1>1 DEF InPhase, Launched, Reported, FreeClean, Alive
<1> QED BY <1>2, <1>3, <1>4

\* HandleEnd, HandleDead and HandleSignal: no call is judged.
LEMMA BoxEvent ==
  ASSUME BoxInv, HandleEnd \/ HandleDead \/ HandleSignal
  PROVE  BoxInv'
<1> USE DEF BoxInv, Judged
<1>1. CASE HandleEnd
  <2>1. SandboxTypeOK' /\ OnlyAllowed' /\ InCall' /\ Forgotten'
    BY <1>1 DEF HandleEnd, Forget, SandboxTypeOK, OnlyAllowed, InCall, Forgotten
  <2>2. InPhase' /\ Launched' /\ Reported' /\ FreeClean'
    BY <1>1 DEF HandleEnd, Forget, InPhase, Launched, Reported, FreeClean, Alive
  <2> QED BY <2>1, <2>2
<1>2. CASE HandleDead
  <2>0. is_exit' \in BOOLEAN
    BY <1>2 DEF HandleDead, SandboxTypeOK
  <2>1. SandboxTypeOK' /\ OnlyAllowed' /\ InCall' /\ Forgotten'
    BY <1>2, <2>0 DEF HandleDead, SandboxTypeOK, OnlyAllowed, InCall, Forgotten
  <2>2. InPhase' /\ Launched' /\ Reported' /\ FreeClean'
    BY <1>2 DEF HandleDead, InPhase, Launched, Reported, FreeClean, Alive
  <2> QED BY <2>1, <2>2
<1>3. CASE HandleSignal
  <2>0. /\ child = "signal" /\ child' \in {"user", "zombie"} /\ call' = None /\ sup = "handle" /\ sup' = "wait"
        /\ UNCHANGED <<conf, status, pid, is_exit, ran, raced>>
    BY <1>3 DEF HandleSignal, AfterSignal, Reported
  <2>1. SandboxTypeOK' /\ OnlyAllowed' /\ InCall' /\ Forgotten'
    BY <2>0 DEF SandboxTypeOK, OnlyAllowed, InCall, Forgotten
  <2>2. InPhase' /\ Launched' /\ Reported' /\ FreeClean'
    BY <2>0 DEF InPhase, Launched, Reported, FreeClean
  <2> QED BY <2>1, <2>2
<1> QED BY <1>1, <1>2, <1>3

\* HandleCall: is_exit tells an entry from an exit, so that a call goes on
\* from its entry only when get_action has it.
LEMMA BoxCall == ASSUME BoxInv, HandleCall PROVE BoxInv'
<1> USE DEF BoxInv, Judged
<1>1. /\ sup = "handle" /\ child = status /\ status \in {"entry", "exit"}
      /\ is_exit' = ~is_exit /\ UNCHANGED <<conf, status, pid>>
  BY DEF HandleCall, Reported
<1>2. CASE is_exit
  <2>1. /\ child = "exit" /\ child' = "user" /\ sup' = "wait" /\ call' = None /\ ~is_exit'
        /\ UNCHANGED <<ran, raced>>
    BY <1>1, <1>2 DEF HandleCall, Resume, InPhase
  <2>2. SandboxTypeOK'
    BY <1>1, <2>1 DEF SandboxTypeOK
  <2>3. OnlyAllowed' /\ InCall' /\ Forgotten'
    BY <1>1, <2>1 DEF OnlyAllowed, InCall, Forgotten
  <2>4. InPhase' /\ Launched' /\ Reported' /\ FreeClean'
    BY <1>1, <2>1 DEF InPhase, Launched, Reported, FreeClean
  <2> QED BY <2>2, <2>3, <2>4
<1>3. CASE ~is_exit /\ get_action(call)
  <2>1. /\ child = "entry" /\ sup' = "wait" /\ is_exit' /\ call \in Calls
        /\ ran' = call /\ raced' = FALSE
        /\ child' \in {"zombie", "call"} /\ call' = IF child' = "call" THEN call ELSE None
    BY <1>1, <1>3 DEF HandleCall, Resume, InPhase, InCall
  <2>2. SandboxTypeOK'
    BY <1>1, <2>1 DEF SandboxTypeOK
  <2>3. OnlyAllowed' /\ InCall' /\ Forgotten'
    BY <1>1, <1>3, <2>1 DEF OnlyAllowed, get_action, InCall, Forgotten
  <2>4. InPhase' /\ Launched' /\ Reported' /\ FreeClean'
    BY <1>1, <2>1 DEF InPhase, Launched, Reported, FreeClean
  <2> QED BY <2>2, <2>3, <2>4
<1>4. CASE ~is_exit /\ ~get_action(call)
  <2>1. sup' = "kill" /\ UNCHANGED <<child, call, ran, raced>>
    BY <1>4 DEF HandleCall, Refuse
  <2>2. SandboxTypeOK'
    BY <1>1, <2>1 DEF SandboxTypeOK
  <2>3. OnlyAllowed' /\ InCall' /\ Forgotten'
    BY <1>1, <2>1 DEF OnlyAllowed, InCall, Forgotten
  <2>4. InPhase' /\ Launched' /\ Reported' /\ FreeClean'
    BY <1>1, <2>1 DEF InPhase, Launched, Reported, FreeClean
  <2> QED BY <2>2, <2>3, <2>4
<1> QED BY <1>2, <1>3, <1>4

\* KillProcesses, KillRewrite and Free: the process is forgotten, and gone
\* before the sandbox is freed.
LEMMA BoxEnd ==
  ASSUME BoxInv, KillProcesses \/ KillRewrite \/ Free
  PROVE  BoxInv'
<1> USE DEF BoxInv, Judged
<1>1. CASE KillProcesses
  <2>1. SandboxTypeOK' /\ OnlyAllowed' /\ InCall' /\ Forgotten'
    BY <1>1 DEF KillProcesses, SandboxTypeOK, OnlyAllowed, InCall, Forgotten
  <2>2. InPhase' /\ Launched' /\ Reported' /\ FreeClean'
    BY <1>1 DEF KillProcesses, InPhase, Launched, Reported, FreeClean, Alive
  <2> QED BY <2>1, <2>2
<1>2. CASE KillRewrite
  <2>0. /\ sup = "rewrite" /\ sup' = "free" /\ child' = "reaped" /\ call' = None
        /\ UNCHANGED <<conf, status, pid, is_exit, ran, raced>>
    BY <1>2 DEF KillRewrite, Rewrite
  <2>1. SandboxTypeOK' /\ OnlyAllowed' /\ InCall' /\ Forgotten'
    BY <2>0 DEF SandboxTypeOK, OnlyAllowed, InCall, Forgotten
  <2>2. InPhase' /\ Launched' /\ Reported' /\ FreeClean'
    BY <2>0 DEF InPhase, Launched, Reported, FreeClean, Alive, Forgotten
  <2> QED BY <2>1, <2>2
<1>3. CASE Free
  <2>1. SandboxTypeOK' /\ OnlyAllowed' /\ InCall' /\ Forgotten'
    BY <1>3 DEF Free, SandboxTypeOK, OnlyAllowed, InCall, Forgotten
  <2>2. InPhase' /\ Launched' /\ Reported' /\ FreeClean'
    BY <1>3 DEF Free, InPhase, Launched, Reported, FreeClean, Alive
  <2> QED BY <2>1, <2>2
<1> QED BY <1>1, <1>2, <1>3

LEMMA BoxNext == ASSUME BoxInv, SandboxNext \/ UNCHANGED sandboxVars PROVE BoxInv'
<1>1. CASE SupervisorDies
  <2>1. SandboxTypeOK' /\ OnlyAllowed' /\ InCall' /\ Forgotten'
    BY <1>1 DEF BoxInv, Judged, SupervisorDies, SandboxTypeOK, OnlyAllowed, InCall, Forgotten
  <2>2. InPhase' /\ Launched' /\ Reported' /\ FreeClean'
    BY <1>1 DEF BoxInv, Judged, SupervisorDies, InPhase, Launched, Reported, FreeClean
  <2> QED BY <2>1, <2>2 DEF BoxInv, Judged
<1>2. CASE UNCHANGED sandboxVars
  <2>1. SandboxTypeOK' /\ OnlyAllowed' /\ InCall' /\ Forgotten'
    <3>1. SandboxTypeOK'
      BY <1>2 DEF BoxInv, Judged, sandboxVars, SandboxTypeOK
    <3>2. OnlyAllowed'
      BY <1>2 DEF BoxInv, Judged, sandboxVars, OnlyAllowed
    <3>3. InCall' /\ Forgotten'
      BY <1>2 DEF BoxInv, Judged, sandboxVars, InCall, Forgotten
    <3> QED BY <3>1, <3>2, <3>3
  <2>2. InPhase' /\ Launched' /\ Reported' /\ FreeClean'
    BY <1>2 DEF BoxInv, Judged, sandboxVars, InPhase, Launched, Reported, FreeClean, Alive
  <2> QED BY <2>1, <2>2 DEF BoxInv, Judged
<1> QED
  BY <1>1, <1>2, BoxSession, BoxKill, BoxLaunch, BoxWait, BoxEvent, BoxCall, BoxEnd
     DEF SandboxNext, Supervise, DeathSignal

LEMMA BoxInvariant == SandboxSpec => []BoxInv
  BY BoxInit, BoxNext, PTL DEF SandboxSpec

\* ptrace_sandbox_handle_event, for every set of configurations: is_exit is
\* never out of phase with the kernel's stops, a call runs only if get_action
\* lets it unless a kill from outside came first, and ptrace_sandbox_free
\* finds no process.
THEOREM SandboxJudges == SandboxSpec => []Judged
  BY BoxInvariant, PTL DEF BoxInv

\* What a call's name and argument say of the sets that policy_setup joins.
LEMMA CallFields ==
  ASSUME NEW n, NEW a
  PROVE  Call(n, a).name = n /\ Call(n, a).arg = a
  BY DEF Call

LEMMA PlainNames == ASSUME NEW S, NEW x \in Plain(S) PROVE x.name \in S /\ x.arg = "any"
  BY SMT DEF Plain, Call

LEMMA WithNames == ASSUME NEW n, NEW S, NEW x \in With(n, S) PROVE x.name = n /\ x.arg \in S
  BY SMT DEF With, Call

\* The writes are in no part of the policy but the one of write_enable.
LEMMA PolicyWrites ==
  ASSUME NEW c, NEW x \in FileWrites, x \in Policy(c)
  PROVE  x \in Writes(c)
<1>1. (x.name \in permit_files /\ x.arg = "any") \/ (x.name = "open" /\ x.arg = "write")
  <2>1. CASE x \in Plain(permit_files)
    BY <2>1, PlainNames
  <2>2. CASE x = Call("open", "write")
    BY <2>2, CallFields
  <2> QED BY <2>1, <2>2 DEF FileWrites
<1>2. x \notin Plain(permit_always)
  <2>1. x.name \notin permit_always
    BY <1>1 DEF permit_files, permit_always, permit_basic, permit_waits
  <2> QED BY <2>1, PlainNames
<1>3. \A S : S \in {{"recv", "shutdown"}, {"mremap"}, {"sigaction"}, {"alarm"}, {"listen", "accept"}}
              => x \notin Plain(S)
  <2>1. x.name \notin {"recv", "shutdown", "mremap", "sigaction", "alarm", "listen", "accept"}
    BY <1>1 DEF permit_files
  <2> QED BY <2>1, PlainNames
<1>4. \A n, S : n \in {"mmap2", "fcntl", "setsockopt", "socket", "bind", "connect", "getsockopt"}
              => x \notin With(n, S)
  <2>1. x.name \notin {"mmap2", "fcntl", "setsockopt", "socket", "bind", "connect", "getsockopt"}
    BY <1>1 DEF permit_files
  <2> QED BY <2>1, WithNames
<1>5. x \notin With("open", validate_open_readonly)
  <2>1. "open" \notin permit_files /\ "write" \notin validate_open_readonly
    BY DEF validate_open_readonly, permit_files
  <2>2. ASSUME x \in With("open", validate_open_readonly) PROVE FALSE
    <3>1. x.name = "open" /\ x.arg \in validate_open_readonly
      BY <2>2, WithNames
    <3> QED BY <1>1, <2>1, <3>1
  <2> QED BY <2>2
<1>6. x \notin Network(c)
  BY SMT, <1>3, <1>4 DEF Network, When
<1> QED
  BY SMT, <1>2, <1>3, <1>4, <1>5, <1>6 DEF Policy, When

\* Each part of what write_enable adds stands under the setting that the
\* handler of its command asks for.
LEMMA WritesGranted ==
  ASSUME NEW c, NEW x \in FileWrites, x \in Writes(c)
  PROVE  /\ c.write_enable
         /\ c.is_anonymous =>
              \/ x.name = "open" /\ c.anon_upload_enable
              \/ x.name = "mkdir" /\ c.anon_mkdir_write_enable
              \/ x.name \in {"fchmod", "fchown"} /\ c.chown_uploads
              \/ x.name \in {"unlink", "rmdir", "rename", "ftruncate", "utime"} /\ c.anon_other_write_enable
<1> DEFINE local(b) == ~c.is_anonymous \/ b
<1>1. /\ c.write_enable
      /\ \/ local(c.anon_upload_enable) /\ x \in With("open", validate_open_default)
         \/ local(c.anon_mkdir_write_enable) /\ x \in Plain({"mkdir"})
         \/ local(c.anon_other_write_enable)
              /\ x \in Plain({"unlink", "rmdir", "rename", "ftruncate"}) \cup Plain({"utime"})
         \/ ~c.is_anonymous
         \/ c.chown_uploads /\ x \in Plain({"fchmod", "fchown"})
  BY DEF Writes, When
<1>2. /\ x \in With("open", validate_open_default) => x.name = "open"
      /\ x \in Plain({"mkdir"}) => x.name = "mkdir"
      /\ x \in Plain({"unlink", "rmdir", "rename", "ftruncate"}) =>
           x.name \in {"unlink", "rmdir", "rename", "ftruncate"}
      /\ x \in Plain({"utime"}) => x.name = "utime"
      /\ x \in Plain({"fchmod", "fchown"}) => x.name \in {"fchmod", "fchown"}
  <2>1. x \in With("open", validate_open_default) => x.name = "open"
    BY WithNames
  <2>2. \A S : x \in Plain(S) => x.name \in S
    BY PlainNames
  <2> QED BY <2>1, <2>2
<1> QED BY <1>1, <1>2

\* policy_setup, for every set of configurations: a write that runs is one
\* that the command handlers would make under the same settings.
THEOREM SandboxWrites == SandboxSpec => []WritesAsConfigured
<1>1. ASSUME Judged PROVE WritesAsConfigured
  <2>1. SUFFICES ASSUME ran \in FileWrites, ~raced
                 PROVE  WritesAsConfigured
    BY DEF WritesAsConfigured
  <2>2. ran # None
    <3>1. ran.name \in permit_files \/ ran.name = "open"
      <4>1. CASE ran \in Plain(permit_files)
        BY <4>1, PlainNames
      <4>2. CASE ran = Call("open", "write")
        BY <4>2, CallFields
      <4> QED BY <2>1, <4>1, <4>2 DEF FileWrites
    <3>2. None.name = "none"
      BY CallFields DEF None
    <3> QED BY <3>1, <3>2 DEF permit_files
  <2>3. ran \in Writes(conf)
    BY <1>1, <2>1, <2>2, PolicyWrites DEF Judged, OnlyAllowed
  <2>4. /\ conf.write_enable
        /\ conf.is_anonymous =>
             \/ ran.name = "open" /\ conf.anon_upload_enable
             \/ ran.name = "mkdir" /\ conf.anon_mkdir_write_enable
             \/ ran.name \in {"fchmod", "fchown"} /\ conf.chown_uploads
             \/ ran.name \in {"unlink", "rmdir", "rename", "ftruncate", "utime"} /\ conf.anon_other_write_enable
    BY <2>1, <2>3, WritesGranted
  <2> QED BY <2>4 DEF WritesAsConfigured
<1> QED BY <1>1, SandboxJudges, PTL

-----------------------------------------------------------------------------
\* Secure buffers (module Secbuf), for every page size, every sequence of sizes
\* and whatever pages the kernel maps.

\* A multiple of the page size and less than a page.
LEMMA Pages ==
  ASSUME NEW q \in Nat, NEW d \in 0 .. PageSize - 1
  PROVE  (q * PageSize + d) % PageSize = d
<1>1. PageSize \in Nat /\ PageSize > 0
  BY SMT, SecbufAssumption
<1>2. q * PageSize \in Nat /\ d \in Nat /\ d < PageSize
  BY SMT, <1>1
<1> DEFINE x == q * PageSize + d
           e == x \div PageSize
           f == x % PageSize
<1>3. x \in Nat
  BY SMT, <1>2
<1> HIDE DEF x
<1>4. e \in Int /\ f \in Int /\ 0 <= f /\ f < PageSize /\ x = PageSize * e + f
  BY SMT, <1>1, <1>3
<1> HIDE DEF e, f
<1>5. \A a \in Int : a >= 1 => a * PageSize >= PageSize
  BY SMT, <1>1
<1>6. \A a \in Int : a <= -1 => a * PageSize <= -PageSize
  BY SMT, <1>1
<1>7. (q - e) * PageSize = f - d /\ q - e \in Int
  <2>1. q * PageSize + d = PageSize * e + f
    BY <1>4 DEF x
  <2>2. (q - e) * PageSize = q * PageSize - PageSize * e
    BY SMT, <1>1, <1>4
  <2> QED BY SMT, <1>1, <1>2, <1>4, <2>1, <2>2
<1>8. q - e = 0
  <2> DEFINE a == q - e
  <2>1. a \in Int /\ a * PageSize = f - d
    BY <1>7
  <2> HIDE DEF a
  <2>2. ~(a >= 1) /\ ~(a <= -1)
    BY SMT, <1>1, <1>2, <1>4, <1>5, <1>6, <2>1
  <2>3. a = 0
    BY SMT, <2>1, <2>2
  <2> QED BY <2>3 DEF a
<1>9. f = d
  BY SMT, <1>1, <1>2, <1>4, <1>7, <1>8
<1> QED BY <1>9 DEF x, f

\* The pages of the buffer itself, and the bytes before it in its first page.
Whole(size) == IF size % PageSize # 0 THEN (size \div PageSize) + 1 ELSE size \div PageSize
Before(size) == IF size % PageSize # 0 THEN PageSize - (size % PageSize) ELSE 0

\* What round_up and page_offset of vsf_secbuf_alloc come to.
LEMMA Rounded ==
  ASSUME NEW size \in Nat
  PROVE  /\ Whole(size) \in Nat /\ Before(size) \in 0 .. PageSize - 1
         /\ RoundUp(size) = (Whole(size) + 2) * PageSize
         /\ Before(size) + size = Whole(size) * PageSize
<1>1. PageSize \in Nat /\ PageSize > 0
  BY SMT, SecbufAssumption
<1> DEFINE e == size \div PageSize
           f == size % PageSize
<1>2. e \in Int /\ f \in Int /\ 0 <= f /\ f < PageSize /\ size = PageSize * e + f
  BY SMT, <1>1
<1>3. e >= 0
  BY SMT, <1>1
<1>4. /\ Whole(size) = IF f # 0 THEN e + 1 ELSE e
      /\ Before(size) = IF f # 0 THEN PageSize - f ELSE 0
      /\ RoundUp(size) = (IF f # 0 THEN (e + 1) * PageSize ELSE size) + 2 * PageSize
  BY DEF Whole, Before, RoundUp
<1> HIDE DEF e, f
<1>5. PageSize * e \in Int /\ e * PageSize = PageSize * e /\ (e + 1) * PageSize = PageSize * e + PageSize
  BY SMT, <1>1, <1>2
<1>6. (e + 2) * PageSize = PageSize * e + 2 * PageSize /\ ((e + 1) + 2) * PageSize = PageSize * e + 3 * PageSize
  BY SMT, <1>1, <1>2
<1>7. CASE f # 0
  <2>1. Whole(size) = e + 1 /\ Before(size) = PageSize - f /\ RoundUp(size) = (e + 1) * PageSize + 2 * PageSize
    BY <1>4, <1>7
  <2>2. e + 1 \in Nat /\ PageSize - f \in 0 .. PageSize - 1
    BY SMT, <1>1, <1>2, <1>3, <1>7
  <2>3. (e + 1) * PageSize + 2 * PageSize = ((e + 1) + 2) * PageSize
    BY SMT, <1>1, <1>5, <1>6
  <2>4. (PageSize - f) + size = (e + 1) * PageSize
    BY SMT, <1>1, <1>2, <1>5
  <2> QED BY <2>1, <2>2, <2>3, <2>4
<1>8. CASE f = 0
  <2>1. Whole(size) = e /\ Before(size) = 0 /\ RoundUp(size) = size + 2 * PageSize
    BY <1>4, <1>8
  <2>2. e \in Nat /\ 0 \in 0 .. PageSize - 1
    BY SMT, <1>1, <1>2, <1>3
  <2>3. size + 2 * PageSize = (e + 2) * PageSize /\ 0 + size = e * PageSize
    BY SMT, <1>1, <1>2, <1>5, <1>6, <1>8
  <2> QED BY <2>1, <2>2, <2>3
<1> QED BY <1>7, <1>8

\* A buffer of size bytes whose mapping begins at page k.
Mapped(b, size, k) ==
  b = [p |-> k * PageSize + PageSize + Before(size),
       maps |-> {[at |-> k * PageSize, len |-> RoundUp(size)]}, fault |-> FALSE]

\* The mapping is found again from the pointer alone.
LEMMA FoundAgain ==
  ASSUME NEW b, NEW size \in Nat, NEW k \in Nat, Mapped(b, size, k)
  PROVE  b.p # 0 /\ MapStartOf(b.p) = k * PageSize
<1>1. PageSize \in Nat /\ PageSize > 0 /\ k * PageSize \in Nat
  BY SMT, SecbufAssumption
<1>2. Before(size) \in 0 .. PageSize - 1 /\ Before(size) \in Nat
  <2>1. Before(size) \in 0 .. PageSize - 1
    BY Rounded
  <2> QED BY SMT, <1>1, <2>1
<1>3. b.p = k * PageSize + PageSize + Before(size)
  BY DEF Mapped
<1>4. k + 1 \in Nat /\ (k + 1) * PageSize + Before(size) = k * PageSize + PageSize + Before(size)
  BY SMT, <1>1, <1>2
<1>5. ((k + 1) * PageSize + Before(size)) % PageSize = Before(size)
  BY <1>2, <1>4, Pages
<1>6. b.p % PageSize = Before(size)
  BY <1>3, <1>4, <1>5
<1>7. MapStartOf(b.p) = b.p - Before(size) - PageSize
  BY <1>6 DEF MapStartOf
<1> QED BY SMT, <1>1, <1>2, <1>3, <1>7

\* vsf_secbuf_alloc unmaps what was there, and maps the new buffer.
LEMMA MappedAgain ==
  ASSUME NEW b, b = NoSecbuf \/ \E s, j \in Nat : Mapped(b, s, j), NEW size \in Nat, NEW k \in Nat
  PROVE  Mapped(vsf_secbuf_alloc(b, size, k * PageSize), size, k)
<1> DEFINE freed == vsf_secbuf_free(b)
<1>1. freed.maps = {} /\ freed.fault = FALSE
  <2>1. CASE b = NoSecbuf
    <3>1. b.p = 0
      BY <2>1 DEF NoSecbuf
    <3>2. freed = b
      BY <3>1 DEF vsf_secbuf_free
    <3>3. NoSecbuf.maps = {} /\ NoSecbuf.fault = FALSE
      BY DEF NoSecbuf
    <3> HIDE DEF freed
    <3> QED BY <2>1, <3>2, <3>3
  <2>2. CASE \E s, j \in Nat : Mapped(b, s, j)
    <3>1. PICK s \in Nat, j \in Nat : Mapped(b, s, j)
      BY <2>2
    <3>2. b.p # 0 /\ MapStartOf(b.p) = j * PageSize
      BY <3>1, FoundAgain
    <3> DEFINE m == [at |-> j * PageSize, len |-> RoundUp(s)]
               v == j * PageSize + PageSize + Before(s)
    <3>3. b = [p |-> v, maps |-> {m}, fault |-> FALSE] /\ b.maps = {m} /\ m.at = j * PageSize
      BY <3>1 DEF Mapped
    <3> HIDE DEF m, v
    <3>4. freed = [b EXCEPT !.maps = {x \in b.maps : x.at # j * PageSize}]
      <4>1. ~ \A x \in b.maps : x.at # j * PageSize
        BY <3>3
      <4> QED BY <3>2, <4>1 DEF vsf_secbuf_free
    <3>5. {x \in b.maps : x.at # j * PageSize} = {}
      BY <3>3
    <3> HIDE DEF freed
    <3>6. freed = [b EXCEPT !.maps = {}]
      BY <3>4, <3>5
    <3>7. freed.maps = {} /\ freed.fault = b.fault
      <4>1. b = [p |-> v, maps |-> {m}, fault |-> FALSE]
        BY <3>3
      <4> QED BY <3>6, <4>1
    <3>8. b.fault = FALSE
      BY <3>3
    <3> QED BY <3>7, <3>8
  <2> QED BY <2>1, <2>2
<1>2. vsf_secbuf_alloc(b, size, k * PageSize)
        = [p |-> k * PageSize + PageSize + Before(size),
           maps |-> freed.maps \cup {[at |-> k * PageSize, len |-> RoundUp(size)]}, fault |-> freed.fault]
  BY DEF vsf_secbuf_alloc, Before
<1>3. {} \cup {[at |-> k * PageSize, len |-> RoundUp(size)]} = {[at |-> k * PageSize, len |-> RoundUp(size)]}
  OBVIOUS
<1> HIDE DEF freed
<1> QED BY <1>1, <1>2, <1>3 DEF Mapped

\* A buffer mapped so is fenced.
LEMMA MappedFenced ==
  ASSUME NEW b, NEW size \in Nat, NEW k \in Nat, Mapped(b, size, k)
  PROVE  Fenced(b, size)
<1> DEFINE m == [at |-> k * PageSize, len |-> RoundUp(size)]
<1>1. ~b.fault /\ b.maps = {m} /\ b.p = k * PageSize + PageSize + Before(size)
  BY DEF Mapped
<1>2. PageSize \in Nat /\ PageSize > 0 /\ k * PageSize \in Nat
  BY SMT, SecbufAssumption
<1>3. /\ Whole(size) \in Nat /\ Before(size) \in 0 .. PageSize - 1
      /\ RoundUp(size) = (Whole(size) + 2) * PageSize
      /\ Before(size) + size = Whole(size) * PageSize
  BY Rounded
<1>4. Whole(size) + 2 \in Nat /\ 0 \in 0 .. PageSize - 1 /\ Before(size) \in Nat
  BY SMT, <1>2, <1>3
<1>5. RoundUp(size) \in Nat /\ RoundUp(size) = Whole(size) * PageSize + 2 * PageSize
  BY SMT, <1>2, <1>3
<1>6. RoundUp(size) % PageSize = 0
  <2>1. ((Whole(size) + 2) * PageSize + 0) % PageSize = 0
    BY <1>4, Pages
  <2>2. (Whole(size) + 2) * PageSize + 0 = RoundUp(size)
    BY SMT, <1>3, <1>5
  <2> QED BY <2>1, <2>2
<1>7. b.p >= k * PageSize + PageSize
  BY SMT, <1>1, <1>2, <1>4
<1>8. b.p + size = k * PageSize + RoundUp(size) - PageSize
  BY SMT, <1>1, <1>2, <1>3, <1>4, <1>5
<1>9. m.at = k * PageSize /\ m.len = RoundUp(size)
  OBVIOUS
<1> HIDE DEF m
<1>10. m.len % PageSize = 0 /\ b.p >= m.at + PageSize /\ b.p + size = m.at + m.len - PageSize
  BY <1>6, <1>7, <1>8, <1>9
<1> QED BY <1>1, <1>10 DEF Fenced

\* The static pointer of a caller, and the size it asked for last.
VARIABLES secbuf, bytes
SecbufInit == secbuf = NoSecbuf /\ bytes = 0
SecbufNext ==
  \E n, k \in Nat : secbuf' = vsf_secbuf_alloc(secbuf, n, k * PageSize) /\ bytes' = n
SecbufSpec == SecbufInit /\ [][SecbufNext]_<<secbuf, bytes>>
SecbufInv == (secbuf = NoSecbuf) \/ (bytes \in Nat /\ \E k \in Nat : Mapped(secbuf, bytes, k))

\* A buffer ends where a page that cannot be touched begins, with another before
\* it, and the mappings of the earlier buffers are gone: vsf_secbuf_free finds
\* them again from the pointer alone.
THEOREM SecbufsFenced == SecbufSpec => [](secbuf # NoSecbuf => Fenced(secbuf, bytes))
<1>1. SecbufInit => SecbufInv
  BY DEF SecbufInit, SecbufInv
<1>2. SecbufInv /\ [SecbufNext]_<<secbuf, bytes>> => SecbufInv'
  <2> SUFFICES ASSUME SecbufInv, [SecbufNext]_<<secbuf, bytes>> PROVE SecbufInv'
    OBVIOUS
  <2>1. CASE SecbufNext
    <3>1. PICK n \in Nat, k \in Nat : secbuf' = vsf_secbuf_alloc(secbuf, n, k * PageSize) /\ bytes' = n
      BY <2>1 DEF SecbufNext
    <3>2. secbuf = NoSecbuf \/ \E s, j \in Nat : Mapped(secbuf, s, j)
      BY DEF SecbufInv
    <3>3. Mapped(vsf_secbuf_alloc(secbuf, n, k * PageSize), n, k)
      BY <3>2, MappedAgain
    <3>4. Mapped(secbuf', bytes', k) /\ bytes' \in Nat
      BY <3>1, <3>3
    <3> QED BY <3>4 DEF SecbufInv, Mapped
  <2>2. CASE UNCHANGED <<secbuf, bytes>>
    BY <2>2 DEF SecbufInv, Mapped
  <2> QED BY <2>1, <2>2
<1>3. SecbufInv => (secbuf # NoSecbuf => Fenced(secbuf, bytes))
  BY MappedFenced DEF SecbufInv
<1> QED BY <1>1, <1>2, <1>3, PTL DEF SecbufSpec

-----------------------------------------------------------------------------
\* Strings (module Mystr), for every width of unsigned int: whatever is done to
\* one, in whatever order.  A text is shorter than the address space.
CONSTANT Chars
Char == Chars \cup {Junk, Terminator}
Texts == {t \in Seq(Char) : Len(t) < Word}
Layout == [buf : Seq(Char), len : Nat, alloc : Nat, status : {"ok", "bug", "overrun"}]
\* alloc_bytes is the size of the buffer.
Sound(s) == s \in Layout /\ s.alloc = Len(s.buf) /\ s.alloc <= IntMax
Working(s) == Sound(s) /\ s.status = "ok"
Dead(s) == s.status = "bug" /\ Sound(s)

\* INT_MAX and UINT_MAX of the same width.
LEMMA WordFacts == IntMax \in Int /\ 0 <= IntMax /\ 2 * IntMax + 2 <= Word /\ Word \in Nat /\ Word > 1
<1>1. Word \in Nat /\ Word > 1
  BY SMT, MystrAssumption
<1>2. (Word \div 2) \in Int /\ Word \div 2 >= 1 /\ 2 * (Word \div 2) <= Word
  BY SMT, <1>1
<1> QED BY SMT, <1>1, <1>2 DEF IntMax

\* unsigned int wraps around at most once in a sum.
LEMMA PlusOf ==
  ASSUME NEW a \in 0 .. Word - 1, NEW b \in 0 .. Word - 1
  PROVE  (a + b < Word => Plus(a, b) = a + b) /\ (~(a + b < Word) => Plus(a, b) = a + b - Word)
<1>1. Word \in Nat /\ Word > 1 /\ a \in Nat /\ b \in Nat /\ a < Word /\ b < Word
  BY SMT, WordFacts
<1>2. \A x \in Nat : x < Word => x % Word = x
  BY SMT, <1>1
<1>3. \A x \in Nat : x >= Word /\ x < 2 * Word => x % Word = x - Word
  BY SMT, <1>1
<1> QED BY SMT, <1>1, <1>2, <1>3 DEF Plus

\* What the operators on sequences return.
LEMMA ArrayIsSeq == ASSUME NEW n \in Nat, NEW S, NEW f \in [1 .. n -> S] PROVE f \in Seq(S) /\ Len(f) = n
  BY SMT

LEMMA LenIsNat == \A S : \A t \in Seq(S) : Len(t) \in Nat
  BY SMT

LEMMA Joined ==
  ASSUME NEW S, NEW a \in Seq(S), NEW b \in Seq(S)
  PROVE  /\ a \o b \in Seq(S) /\ Len(a \o b) = Len(a) + Len(b)
         /\ \A i \in 1 .. Len(a) + Len(b) : (a \o b)[i] = IF i <= Len(a) THEN a[i] ELSE b[i - Len(a)]
  BY SMT

LEMMA SameSeq ==
  ASSUME NEW S, NEW a \in Seq(S), NEW b \in Seq(S), Len(a) = Len(b), \A i \in 1 .. Len(a) : a[i] = b[i]
  PROVE  a = b
  BY SMT

\* A string by its fields.
LEMMA Fields ==
  ASSUME NEW s, Sound(s)
  PROVE  s = [buf |-> s.buf, len |-> s.len, alloc |-> s.alloc, status |-> s.status]
  BY SMT DEF Sound, Layout

\* A character written inside the buffer.
LEMMA PokeEffect ==
  ASSUME NEW s, Working(s), NEW at \in Nat, at < s.alloc, NEW c \in Char
  PROVE  /\ Working(Poke(s, at, c)) /\ Poke(s, at, c).len = s.len /\ Poke(s, at, c).alloc = s.alloc
         /\ \A i \in 1 .. s.alloc : Poke(s, at, c).buf[i] = IF i = at + 1 THEN c ELSE s.buf[i]
<1> DEFINE b == [s.buf EXCEPT ![at + 1] = c]
<1>1. s.buf \in Seq(Char) /\ Len(s.buf) = s.alloc /\ s.alloc \in Nat /\ s.status = "ok"
  BY DEF Working, Sound, Layout
<1>2. /\ b \in Seq(Char) /\ Len(b) = s.alloc
      /\ \A i \in 1 .. s.alloc : b[i] = IF i = at + 1 THEN c ELSE s.buf[i]
  BY SMT, <1>1
<1>3. Poke(s, at, c) = [s EXCEPT !.buf = b]
  BY SMT, <1>1 DEF Poke
<1> HIDE DEF b
<1>4. [s EXCEPT !.buf = b] = [buf |-> b, len |-> s.len, alloc |-> s.alloc, status |-> s.status]
  BY SMT DEF Working, Sound, Layout
<1> QED BY SMT, <1>1, <1>2, <1>3, <1>4 DEF Working, Sound, Layout

\* vsf_sysutil_memcpy of a text that fits.
LEMMA CopyEffect ==
  ASSUME NEW s, Working(s), NEW at \in Nat, NEW t \in Seq(Char), at + Len(t) <= s.alloc
  PROVE  /\ Working(Copy(s, at, t)) /\ Copy(s, at, t).len = s.len /\ Copy(s, at, t).alloc = s.alloc
         /\ \A i \in 1 .. s.alloc :
              Copy(s, at, t).buf[i] = IF i \in at + 1 .. at + Len(t) THEN t[i - at] ELSE s.buf[i]
<1> DEFINE b == [i \in 1 .. Len(s.buf) |-> IF i \in at + 1 .. at + Len(t) THEN t[i - at] ELSE s.buf[i]]
<1>1. /\ s.buf \in Seq(Char) /\ Len(s.buf) = s.alloc /\ s.alloc \in Nat /\ s.status = "ok" /\ s.alloc <= IntMax
      /\ Len(t) \in Nat /\ IntMax \in Int
  BY SMT, WordFacts DEF Working, Sound, Layout
<1>2. /\ b \in Seq(Char) /\ Len(b) = s.alloc
      /\ \A i \in 1 .. s.alloc : b[i] = IF i \in at + 1 .. at + Len(t) THEN t[i - at] ELSE s.buf[i]
  <2>1. \A i \in at + 1 .. at + Len(t) : i - at \in 1 .. Len(t)
    BY SMT, <1>1
  <2>2. \A i \in 1 .. s.alloc : (i \in at + 1 .. at + Len(t) => t[i - at] \in Char) /\ s.buf[i] \in Char
    BY SMT, <1>1, <2>1
  <2>3. b \in [1 .. s.alloc -> Char]
    BY <1>1, <2>2
  <2>4. b \in Seq(Char) /\ Len(b) = s.alloc
    <3> HIDE DEF b
    <3> QED BY <1>1, <2>3, ArrayIsSeq
  <2> QED BY <1>1, <2>4
<1>3. CASE Len(t) = 0
  BY SMT, <1>1, <1>3 DEF Copy
<1>4. CASE Len(t) # 0
  <2>1. Copy(s, at, t) = [s EXCEPT !.buf = b]
    BY SMT, <1>1, <1>4 DEF Copy
  <2> HIDE DEF b
  <2>2. [s EXCEPT !.buf = b] = [buf |-> b, len |-> s.len, alloc |-> s.alloc, status |-> s.status]
    BY SMT DEF Working, Sound, Layout
  <2> QED BY SMT, <1>1, <1>2, <2>1, <2>2 DEF Working, Sound, Layout
<1> QED BY <1>3, <1>4

\* vsf_sysutil_malloc and vsf_sysutil_realloc give the size asked for, or end
\* the process.
LEMMA GrowEffect ==
  ASSUME NEW s, Working(s), NEW size \in Nat, NEW keep \in BOOLEAN
  PROVE  \/ BadSize(size) /\ Dead(Grow(s, size, keep))
         \/ /\ ~BadSize(size) /\ Working(Grow(s, size, keep))
            /\ Grow(s, size, keep).len = s.len /\ Grow(s, size, keep).alloc = size
            /\ \A i \in 1 .. size : Grow(s, size, keep).buf[i] = IF keep /\ i <= s.alloc THEN s.buf[i] ELSE Junk
<1> DEFINE b == [i \in 1 .. size |-> IF keep /\ i <= Len(s.buf) THEN s.buf[i] ELSE Junk]
<1>1. s.buf \in Seq(Char) /\ Len(s.buf) = s.alloc /\ s.alloc \in Nat /\ s.status = "ok" /\ s.alloc <= IntMax
  BY DEF Working, Sound, Layout
<1>2. CASE BadSize(size)
  <2>1. Grow(s, size, keep) = [buf |-> s.buf, len |-> s.len, alloc |-> s.alloc, status |-> "bug"]
    BY SMT, <1>2 DEF Grow, Died, Working, Sound, Layout
  <2> QED BY SMT, <1>1, <1>2, <2>1 DEF Dead, Working, Sound, Layout
<1>3. CASE ~BadSize(size)
  <2>1. \A i \in 1 .. size : i <= s.alloc => s.buf[i] \in Char
    BY SMT, <1>1
  <2>2. b \in [1 .. size -> Char]
    BY <1>1, <2>1 DEF Char
  <2>3. \A i \in 1 .. size : b[i] = IF keep /\ i <= s.alloc THEN s.buf[i] ELSE Junk
    BY <1>1
  <2>6. Grow(s, size, keep) = [buf |-> b, len |-> s.len, alloc |-> size, status |-> s.status]
    BY <1>3 DEF Grow
  <2> HIDE DEF b
  <2>5. b \in Seq(Char) /\ Len(b) = size
    BY <2>2, ArrayIsSeq
  <2>7. size <= IntMax
    <3>1. ~(size > IntMax) /\ IntMax \in Int
      BY <1>3, WordFacts DEF BadSize
    <3> QED BY SMT, <3>1
  <2>8. Working(Grow(s, size, keep))
    BY SMT, <1>1, <2>5, <2>6, <2>7 DEF Working, Sound, Layout
  <2> QED BY SMT, <1>3, <2>3, <2>6, <2>8
<1> QED BY <1>2, <1>3

\* The zero behind the string.
LEMMA SetLenEffect ==
  ASSUME NEW s, Working(s), NEW n \in Nat, n < s.alloc
  PROVE  /\ Working(SetLen(s, n)) /\ SetLen(s, n).len = n /\ SetLen(s, n).alloc = s.alloc
         /\ \A i \in 1 .. s.alloc : SetLen(s, n).buf[i] = IF i = n + 1 THEN Terminator ELSE s.buf[i]
<1> DEFINE t == [s EXCEPT !.len = n]
<1>1. t = [buf |-> s.buf, len |-> n, alloc |-> s.alloc, status |-> s.status]
  BY SMT DEF Working, Sound, Layout
<1>2. Working(t) /\ t.len = n /\ t.alloc = s.alloc /\ t.buf = s.buf
  BY SMT, <1>1 DEF Working, Sound, Layout
<1>3. SetLen(s, n) = Poke(t, n, Terminator)
  BY DEF SetLen, Working
<1> HIDE DEF t
<1>4. Terminator \in Char
  BY DEF Char
<1>5. n < t.alloc
  BY <1>2
<1>6. /\ Working(Poke(t, n, Terminator)) /\ Poke(t, n, Terminator).len = t.len
      /\ Poke(t, n, Terminator).alloc = t.alloc
      /\ \A i \in 1 .. t.alloc : Poke(t, n, Terminator).buf[i] = IF i = n + 1 THEN Terminator ELSE t.buf[i]
  BY <1>2, <1>4, <1>5, PokeEffect
<1> QED BY <1>2, <1>3, <1>6

\* INIT_MYSTR, and str_free leaves nothing.
LEMMA EmptyWorks == Working(EmptyMystr)
<1>1. IntMax \in Int /\ 0 <= IntMax
  BY WordFacts
<1> QED BY SMT, <1>1 DEF Working, Sound, Layout, EmptyMystr

LEMMA FreeEffect == ASSUME NEW s, Working(s) PROVE str_free(s) = EmptyMystr /\ Working(str_free(s))
<1>1. str_free(s) = EmptyMystr
  BY DEF str_free, EmptyMystr, Working
<1> QED BY <1>1, EmptyWorks

\* bug() and die() touch no memory.
LEMMA DiedEffect == ASSUME NEW s, Working(s) PROVE Dead(Died(s))
<1>1. Died(s) = [buf |-> s.buf, len |-> s.len, alloc |-> s.alloc, status |-> "bug"]
  BY SMT, Fields DEF Died, Working
<1> QED BY SMT, <1>1 DEF Dead, Working, Sound, Layout

\* Nothing is written by a process that ended.
LEMMA DeadStays ==
  ASSUME NEW s, Dead(s)
  PROVE  /\ \A n, t : Copy(s, n, t) = s
         /\ \A n : SetLen(s, n) = s
         /\ \A n, c : Poke(s, n, c) = s
  BY DEF Dead, Copy, SetLen, Poke

LEMMA Numbers == ASSUME NEW s, Sound(s) PROVE s.len \in Nat /\ s.alloc \in Nat /\ s.alloc <= IntMax /\ s.alloc < Word
<1>1. s.len \in Nat /\ s.alloc \in Nat /\ s.alloc <= IntMax
  BY DEF Sound, Layout
<1> QED BY SMT, <1>1, WordFacts

\* What is left of a buffer that is full up to n, with a zero behind it.
Filled(t, n, s, asked) ==
  /\ Working(t) /\ t.len = n /\ n < t.alloc /\ t.buf[n + 1] = Terminator
  /\ t.alloc <= s.alloc \/ t.alloc <= asked + 1

\* private_str_alloc_memchunk holds src, and dies only if src and its zero are
\* longer than INT_MAX.
LEMMA AllocEffect ==
  ASSUME NEW s, Working(s), NEW src \in Texts
  PROVE  LET t == private_str_alloc_memchunk(s, src)
         IN \/ Dead(t) /\ Len(src) + 1 > IntMax
            \/ Filled(t, Len(src), s, Len(src)) /\ \A i \in 1 .. Len(src) : t.buf[i] = src[i]
<1> DEFINE len == Len(src)
           need == Plus(len, 1)
           room == IF need > s.alloc THEN Grow(str_free(s), need, FALSE) ELSE s
           t == private_str_alloc_memchunk(s, src)
<1>1. src \in Seq(Char) /\ len \in Nat /\ len < Word
  BY SMT DEF Texts
<1>2. /\ s.alloc \in Nat /\ s.alloc <= IntMax /\ s.alloc < Word
      /\ IntMax \in Int /\ 2 * IntMax + 2 <= Word /\ Word \in Nat /\ Word > 1
  BY Numbers, WordFacts DEF Working
<1>3. (len + 1 < Word => need = len + 1) /\ (~(len + 1 < Word) => need = 0)
  <2>1. len \in 0 .. Word - 1 /\ 1 \in 0 .. Word - 1
    BY SMT, <1>1, <1>2
  <2>2. (len + 1 < Word => need = len + 1) /\ (~(len + 1 < Word) => need = len + 1 - Word)
    BY <2>1, PlusOf
  <2>3. ~(len + 1 < Word) => len + 1 - Word = 0
    BY SMT, <1>1, <1>2
  <2> QED BY <2>2, <2>3
<1>4. t = IF need < len THEN Died(s) ELSE SetLen(Copy(room, 0, src), len)
  BY DEF private_str_alloc_memchunk
<1> HIDE DEF t, len, need
<1>5. CASE need < len
  <2>1. Dead(t)
    BY <1>4, <1>5, DiedEffect
  <2>2. len + 1 > IntMax
    BY SMT, <1>1, <1>2, <1>3, <1>5
  <2> QED BY <2>1, <2>2 DEF t, len
<1>6. CASE ~(need < len)
  <2>1. need \in Nat /\ need = len + 1
    BY SMT, <1>1, <1>2, <1>3, <1>6
  <2>2. \/ Dead(room) /\ need > IntMax
        \/ Working(room) /\ need <= room.alloc /\ (room.alloc = s.alloc \/ room.alloc = need)
    <3>1. CASE need > s.alloc
      <4>1. \/ BadSize(need) /\ Dead(room)
            \/ Working(room) /\ room.alloc = need
        <5>1. Working(str_free(s))
          BY FreeEffect
        <5> QED BY <2>1, <3>1, <5>1, GrowEffect
      <4> HIDE DEF room
      <4> QED BY SMT, <1>1, <2>1, <4>1 DEF BadSize
    <3>2. CASE ~(need > s.alloc)
      BY SMT, <1>2, <2>1, <3>2
    <3> QED BY <3>1, <3>2
  <2> HIDE DEF room
  <2>3. CASE Dead(room) /\ need > IntMax
    <3>1. t = room
      <4>1. Copy(room, 0, src) = room /\ SetLen(room, len) = room
        BY <2>3, DeadStays
      <4> QED BY <1>4, <1>6, <4>1
    <3> QED BY <2>1, <2>3, <3>1 DEF t, len
  <2>4. CASE Working(room) /\ need <= room.alloc /\ (room.alloc = s.alloc \/ room.alloc = need)
    <3> DEFINE c == Copy(room, 0, src)
    <3>0. room.alloc \in Nat
      BY <2>4, Numbers DEF Working
    <3>1. 0 \in Nat /\ 0 + Len(src) <= room.alloc /\ len < room.alloc
      BY SMT, <1>1, <2>1, <2>4, <3>0 DEF len
    <3>2. /\ Working(c) /\ c.alloc = room.alloc
          /\ \A i \in 1 .. room.alloc : c.buf[i] = IF i \in 0 + 1 .. 0 + Len(src) THEN src[i - 0] ELSE room.buf[i]
      BY <1>1, <2>4, <3>1, CopyEffect
    <3> HIDE DEF c
    <3>3. t = SetLen(c, len)
      BY <1>4, <1>6 DEF c
    <3>4. /\ Working(t) /\ t.len = len /\ t.alloc = room.alloc
          /\ \A i \in 1 .. room.alloc : t.buf[i] = IF i = len + 1 THEN Terminator ELSE c.buf[i]
      <4>1. Working(c) /\ len < c.alloc
        BY <3>1, <3>2
      <4>2. /\ Working(SetLen(c, len)) /\ SetLen(c, len).len = len /\ SetLen(c, len).alloc = c.alloc
            /\ \A i \in 1 .. c.alloc : SetLen(c, len).buf[i] = IF i = len + 1 THEN Terminator ELSE c.buf[i]
        BY <1>1, <4>1, SetLenEffect
      <4> QED BY <3>2, <3>3, <4>2
    <3>5. \A i \in 1 .. len : i \in 1 .. room.alloc /\ i # len + 1 /\ i \in 0 + 1 .. 0 + Len(src) /\ i - 0 = i
      BY SMT, <1>1, <3>0, <3>1 DEF len
    <3>6. \A i \in 1 .. len : t.buf[i] = src[i]
      BY <3>2, <3>4, <3>5
    <3>7. len + 1 \in 1 .. room.alloc
      BY SMT, <1>1, <3>0, <3>1
    <3>8. Filled(t, len, s, len)
      <4>1. t.buf[len + 1] = Terminator
        BY <3>4, <3>7
      <4>2. room.alloc <= s.alloc \/ room.alloc <= len + 1
        BY SMT, <1>1, <1>2, <2>1, <2>4, <3>0
      <4> QED BY <3>1, <3>4, <4>1, <4>2 DEF Filled
    <3> QED BY <3>6, <3>8 DEF t, len
  <2> QED BY <2>2, <2>3, <2>4
<1> QED BY <1>5, <1>6

\* private_str_append_memchunk holds src behind what was there: both sums are
\* refused when they wrap around.
LEMMA AppendEffect ==
  ASSUME NEW s, Working(s), s.len <= s.alloc, NEW src \in Texts
  PROVE  LET t == private_str_append_memchunk(s, src)
         IN \/ Dead(t) /\ s.len + Len(src) + 1 > IntMax
            \/ /\ Filled(t, s.len + Len(src), s, s.len + Len(src))
               /\ \A i \in 1 .. s.len : t.buf[i] = s.buf[i]
               /\ \A i \in 1 .. Len(src) : t.buf[s.len + i] = src[i]
<1> DEFINE len == Len(src)
           sum == Plus(len, s.len)
           need == Plus(sum, 1)
           room == IF need > s.alloc THEN Grow(s, need, TRUE) ELSE s
           t == private_str_append_memchunk(s, src)
           all == s.len + len
<1>1. src \in Seq(Char) /\ len \in Nat /\ len < Word
  BY SMT DEF Texts
<1>2. /\ s.alloc \in Nat /\ s.alloc <= IntMax /\ s.len \in Nat /\ s.len < Word
      /\ IntMax \in Int /\ 2 * IntMax + 2 <= Word /\ Word \in Nat /\ Word > 1
  <2>1. s.len \in Nat /\ s.alloc \in Nat /\ s.alloc <= IntMax /\ s.alloc < Word
    BY Numbers DEF Working
  <2> QED BY SMT, <2>1, WordFacts
<1>0. all \in Nat /\ all = s.len + len /\ all = len + s.len
  BY SMT, <1>1, <1>2
<1>3. sum \in Nat /\ sum < Word /\ (all < Word => sum = all) /\ (~(all < Word) => sum = all - Word)
  <2>1. len \in 0 .. Word - 1 /\ s.len \in 0 .. Word - 1
    BY SMT, <1>1, <1>2
  <2>2. (len + s.len < Word => sum = len + s.len) /\ (~(len + s.len < Word) => sum = len + s.len - Word)
    BY <2>1, PlusOf
  <2> HIDE DEF sum, len, all
  <2>3. (all < Word => sum = all) /\ (~(all < Word) => sum = all - Word)
    <3>1. len + s.len = all /\ len \in Nat /\ s.len \in Nat /\ Word \in Nat
      BY <1>0, <1>1, <1>2
    <3> QED BY SMT, <2>2, <3>1
  <2> QED BY SMT, <1>0, <1>1, <1>2, <2>3
<1>4. (sum + 1 < Word => need = sum + 1) /\ (~(sum + 1 < Word) => need = 0)
  <2>1. 1 \in 0 .. Word - 1 /\ sum \in 0 .. Word - 1
    BY SMT, <1>2, <1>3
  <2>2. (sum + 1 < Word => need = sum + 1) /\ (~(sum + 1 < Word) => need = sum + 1 - Word)
    BY <2>1, PlusOf
  <2> HIDE DEF need, sum, all
  <2>3. ~(sum + 1 < Word) => sum + 1 - Word = 0
    BY SMT, <1>2, <1>3
  <2> QED BY <2>2, <2>3
<1>5. t = IF sum < len \/ need < sum THEN Died(s) ELSE SetLen(Copy(room, s.len, src), all)
  BY DEF private_str_append_memchunk, AppendNeeds
<1> HIDE DEF t, len, need, sum, all
<1>6. CASE sum < len \/ need < sum
  <2>1. Dead(t)
    BY <1>5, <1>6, DiedEffect
  <2>2. all + 1 > IntMax
    <3>1. IntMax \in Int /\ Word \in Nat /\ IntMax < Word
      BY SMT, WordFacts
    <3>2. CASE ~(all < Word)
      BY SMT, <1>0, <3>1, <3>2
    <3>3. CASE all < Word
      <4>1. sum = all /\ ~(sum < len)
        BY SMT, <1>0, <1>1, <1>2, <1>3, <3>3
      <4>2. need < sum
        BY <1>6, <4>1
      <4>3. ~(sum + 1 < Word)
        BY SMT, <1>3, <1>4, <4>2
      <4> QED BY SMT, <1>0, <3>1, <4>1, <4>3
    <3> QED BY <3>2, <3>3
  <2> QED BY <2>1, <2>2 DEF t, len, all
<1>7. CASE ~(sum < len \/ need < sum)
  <2>1. need \in Nat /\ need = all + 1
    <3>1. Word \in Nat /\ Word > 1 /\ s.len \in Nat /\ s.len < Word /\ ~(sum < len) /\ ~(need < sum)
      BY <1>2, <1>7
    <3>2. all < Word
      BY SMT, <1>0, <1>1, <1>3, <3>1
    <3>3. sum = all
      BY <1>3, <3>2
    <3>4. sum + 1 < Word
      BY SMT, <1>3, <1>4, <3>1
    <3> QED BY SMT, <1>0, <1>4, <3>3, <3>4
  <2>2. \/ Dead(room) /\ need > IntMax
        \/ /\ Working(room) /\ need <= room.alloc /\ (room.alloc = s.alloc \/ room.alloc = need)
           /\ \A i \in 1 .. s.len : room.buf[i] = s.buf[i]
    <3>1. CASE need > s.alloc
      <4>1. \/ BadSize(need) /\ Dead(room)
            \/ /\ Working(room) /\ room.alloc = need
               /\ \A i \in 1 .. need : room.buf[i] = IF TRUE /\ i <= s.alloc THEN s.buf[i] ELSE Junk
        <5>1. room = Grow(s, need, TRUE) /\ TRUE \in BOOLEAN
          BY <3>1
        <5> HIDE DEF room
        <5>2. \/ BadSize(need) /\ Dead(Grow(s, need, TRUE))
              \/ /\ Working(Grow(s, need, TRUE)) /\ Grow(s, need, TRUE).alloc = need
                 /\ \A i \in 1 .. need : Grow(s, need, TRUE).buf[i] = IF TRUE /\ i <= s.alloc THEN s.buf[i] ELSE Junk
          BY <2>1, <5>1, GrowEffect
        <5> QED BY <5>1, <5>2
      <4>2. \A i \in 1 .. s.len : i \in 1 .. need /\ i <= s.alloc
        <5>1. need \in Nat /\ s.len <= need
          BY SMT, <1>0, <1>1, <1>2, <2>1
        <5>2. s.len \in Nat /\ s.alloc \in Nat
          BY <1>2
        <5> QED BY SMT, <5>1, <5>2
      <4> HIDE DEF room
      <4>3. CASE BadSize(need) /\ Dead(room)
        <5>1. need # 0
          BY SMT, <1>0, <2>1
        <5> QED BY <4>3, <5>1 DEF BadSize
      <4>4. CASE /\ Working(room) /\ room.alloc = need
                 /\ \A i \in 1 .. need : room.buf[i] = IF TRUE /\ i <= s.alloc THEN s.buf[i] ELSE Junk
        <5>1. need <= room.alloc
          BY SMT, <2>1, <4>4
        <5> QED BY <4>2, <4>4, <5>1
      <4> QED BY <4>1, <4>3, <4>4
    <3>2. CASE ~(need > s.alloc)
      <4>1. need <= s.alloc
        BY SMT, <1>2, <2>1, <3>2
      <4> QED BY <3>2, <4>1
    <3> QED BY <3>1, <3>2
  <2> HIDE DEF room
  <2>3. CASE Dead(room) /\ need > IntMax
    <3>1. t = room
      <4>1. Copy(room, s.len, src) = room /\ SetLen(room, all) = room
        BY <2>3, DeadStays
      <4> QED BY <1>5, <1>7, <4>1
    <3> QED BY <2>1, <2>3, <3>1 DEF t, len, all
  <2>4. CASE /\ Working(room) /\ need <= room.alloc /\ (room.alloc = s.alloc \/ room.alloc = need)
             /\ \A i \in 1 .. s.len : room.buf[i] = s.buf[i]
    <3> DEFINE c == Copy(room, s.len, src)
    <3>0. room.alloc \in Nat /\ all \in Nat
      BY <1>0, <2>4, Numbers DEF Working
    <3>1. s.len + Len(src) <= room.alloc /\ all < room.alloc
      <4>1. all <= room.alloc /\ all < room.alloc
        BY SMT, <2>1, <2>4, <3>0
      <4> QED BY <1>0, <4>1 DEF len
    <3>2. /\ Working(c) /\ c.alloc = room.alloc
          /\ \A i \in 1 .. room.alloc :
               c.buf[i] = IF i \in s.len + 1 .. s.len + Len(src) THEN src[i - s.len] ELSE room.buf[i]
      BY <1>1, <1>2, <2>4, <3>1, CopyEffect
    <3> HIDE DEF c
    <3>3. t = SetLen(c, all)
      BY <1>5, <1>7 DEF c
    <3>4. /\ Working(t) /\ t.len = all /\ t.alloc = room.alloc
          /\ \A i \in 1 .. room.alloc : t.buf[i] = IF i = all + 1 THEN Terminator ELSE c.buf[i]
      <4>1. Working(c) /\ all < c.alloc
        BY <3>1, <3>2
      <4>2. /\ Working(SetLen(c, all)) /\ SetLen(c, all).len = all /\ SetLen(c, all).alloc = c.alloc
            /\ \A i \in 1 .. c.alloc : SetLen(c, all).buf[i] = IF i = all + 1 THEN Terminator ELSE c.buf[i]
        BY <3>0, <4>1, SetLenEffect
      <4> QED BY <3>2, <3>3, <4>2
    <3>5. all = s.len + len /\ len = Len(src)
      BY DEF all, len
    <3>6. \A i \in 1 .. s.len : t.buf[i] = s.buf[i]
      <4>1. \A i \in 1 .. s.len : i \in 1 .. room.alloc /\ i # all + 1 /\ i \notin s.len + 1 .. s.len + Len(src)
        <5>1. s.len \in Nat /\ len \in Nat
          BY <1>1, <1>2
        <5>2. s.len <= all
          BY SMT, <1>0, <5>1
        <5>3. \A i \in 1 .. s.len : i \in 1 .. room.alloc /\ i # all + 1
          BY SMT, <3>0, <3>1, <5>1, <5>2
        <5>4. \A i \in 1 .. s.len : i \notin s.len + 1 .. s.len + Len(src)
          BY SMT, <3>5, <5>1
        <5> QED BY <5>3, <5>4
      <4> QED BY <2>4, <3>2, <3>4, <4>1
    <3>7. \A i \in 1 .. len : t.buf[s.len + i] = src[i]
      <4>1. \A i \in 1 .. len : /\ s.len + i \in 1 .. room.alloc /\ s.len + i # all + 1
                                /\ s.len + i \in s.len + 1 .. s.len + Len(src) /\ (s.len + i) - s.len = i
        <5>1. len \in Nat /\ s.len \in Nat /\ all < room.alloc /\ room.alloc \in Nat
          BY <1>1, <1>2, <3>0, <3>1
        <5> TAKE i \in 1 .. len
        <5>2. s.len + i \in 1 .. room.alloc /\ s.len + i # all + 1
          BY SMT, <3>5, <5>1
        <5>3. s.len + i \in s.len + 1 .. s.len + Len(src) /\ (s.len + i) - s.len = i
          BY SMT, <3>5, <5>1
        <5> QED BY <5>2, <5>3
      <4> QED BY <3>2, <3>4, <4>1
    <3>8. Filled(t, all, s, all)
      <4>1. t.buf[all + 1] = Terminator
        <5>1. all + 1 \in 1 .. room.alloc
          BY SMT, <3>0, <3>1
        <5> QED BY <3>4, <5>1
      <4>2. room.alloc <= s.alloc \/ room.alloc <= all + 1
        BY SMT, <1>2, <2>1, <2>4, <3>0
      <4> QED BY <3>1, <3>4, <4>1, <4>2 DEF Filled
    <3> QED BY <3>6, <3>7, <3>8 DEF t, len, all
  <2> QED BY <2>2, <2>3, <2>4
<1> QED BY <1>6, <1>7

\* str_trunc cuts inside the buffer or dies.
LEMMA TruncEffect ==
  ASSUME NEW s, Working(s), NEW n \in Nat
  PROVE  LET t == str_trunc(s, n)
         IN \/ Dead(t) /\ n >= s.alloc
            \/ /\ Filled(t, n, s, 0) /\ t.alloc = s.alloc
               /\ \A i \in 1 .. n : t.buf[i] = s.buf[i]
<1> DEFINE t == str_trunc(s, n)
<1>1. s.alloc \in Nat
  BY Numbers DEF Working
<1>2. CASE n >= s.alloc
  <2>1. t = Died(s)
    BY <1>2 DEF str_trunc
  <2> QED BY <1>2, <2>1, DiedEffect
<1>3. CASE ~(n >= s.alloc)
  <2>1. n < s.alloc /\ n + 1 \in 1 .. s.alloc /\ s.alloc <= s.alloc
    BY SMT, <1>1, <1>3
  <2>2. /\ Working(t) /\ t.len = n /\ t.alloc = s.alloc
        /\ \A i \in 1 .. s.alloc : t.buf[i] = IF i = n + 1 THEN Terminator ELSE s.buf[i]
    BY <1>3, <2>1, SetLenEffect DEF str_trunc
  <2>3. \A i \in 1 .. n : i \in 1 .. s.alloc /\ i # n + 1
    BY SMT, <1>1, <2>1
  <2> HIDE DEF t
  <2>4. \A i \in 1 .. n : t.buf[i] = s.buf[i]
    BY <2>2, <2>3
  <2>5. Filled(t, n, s, 0)
    BY <2>1, <2>2 DEF Filled
  <2> QED BY <2>2, <2>4, <2>5 DEF t
<1> QED BY <1>2, <1>3

\* str_reserve keeps the string but for the zero behind the reserved room.
LEMMA ReserveEffect ==
  ASSUME NEW s, Working(s), NEW n \in 0 .. Word - 1
  PROVE  LET t == str_reserve(s, n)
         IN \/ Dead(t) /\ n + 1 > IntMax
            \/ /\ Working(t) /\ t.len = s.len /\ s.alloc <= t.alloc /\ n < t.alloc
               /\ t.alloc <= s.alloc \/ t.alloc <= n + 1
               /\ t.buf[n + 1] = Terminator
               /\ \A i \in 1 .. s.alloc : t.buf[i] = IF i = n + 1 THEN Terminator ELSE s.buf[i]
<1> DEFINE need == Plus(n, 1)
           room == IF need > s.alloc THEN Grow(s, need, TRUE) ELSE s
           t == str_reserve(s, n)
<1>1. /\ s.alloc \in Nat /\ s.alloc <= IntMax /\ s.len \in Nat /\ n \in Nat /\ n < Word
      /\ IntMax \in Int /\ 2 * IntMax + 2 <= Word /\ Word \in Nat /\ Word > 1
  <2>1. s.len \in Nat /\ s.alloc \in Nat /\ s.alloc <= IntMax
    BY Numbers DEF Working
  <2> QED BY SMT, <2>1, WordFacts
<1>2. (n + 1 < Word => need = n + 1) /\ (~(n + 1 < Word) => need = 0)
  <2>1. 1 \in 0 .. Word - 1
    BY SMT, <1>1
  <2>2. (n + 1 < Word => need = n + 1) /\ (~(n + 1 < Word) => need = n + 1 - Word)
    BY <2>1, PlusOf
  <2>3. ~(n + 1 < Word) => n + 1 - Word = 0
    BY SMT, <1>1
  <2> QED BY <2>2, <2>3
<1>3. t = IF need = 0 THEN Died(s) ELSE Poke(room, need - 1, Terminator)
  BY DEF str_reserve
<1> HIDE DEF t, need
<1>4. CASE need = 0
  <2>1. n + 1 > IntMax
    BY SMT, <1>1, <1>2, <1>4
  <2> QED BY <1>3, <1>4, <2>1, DiedEffect DEF t
<1>5. CASE need # 0
  <2>1. need \in Nat /\ need = n + 1 /\ need - 1 = n
    BY SMT, <1>1, <1>2, <1>5
  <2>2. \/ Dead(room) /\ need > IntMax
        \/ /\ Working(room) /\ room.len = s.len /\ need <= room.alloc /\ s.alloc <= room.alloc
           /\ room.alloc = s.alloc \/ room.alloc = need
           /\ \A i \in 1 .. s.alloc : room.buf[i] = s.buf[i]
    <3>1. CASE need > s.alloc
      <4>1. \/ BadSize(need) /\ Dead(room)
            \/ /\ Working(room) /\ room.len = s.len /\ room.alloc = need
               /\ \A i \in 1 .. need : room.buf[i] = IF TRUE /\ i <= s.alloc THEN s.buf[i] ELSE Junk
        BY <2>1, <3>1, GrowEffect
      <4>2. (\A i \in 1 .. s.alloc : i \in 1 .. need /\ i <= s.alloc) /\ need <= need /\ s.alloc <= need
        BY SMT, <1>1, <2>1, <3>1
      <4>3. BadSize(need) => need > IntMax
        BY <1>5 DEF BadSize
      <4> HIDE DEF room
      <4> QED BY <4>1, <4>2, <4>3
    <3>2. CASE ~(need > s.alloc)
      <4>1. need <= s.alloc /\ s.alloc <= s.alloc
        BY SMT, <1>1, <2>1, <3>2
      <4> QED BY <3>2, <4>1
    <3> QED BY <3>1, <3>2
  <2> HIDE DEF room
  <2>3. CASE Dead(room) /\ need > IntMax
    <3>1. t = room
      BY <1>3, <1>5, <2>3, DeadStays
    <3> QED BY <2>1, <2>3, <3>1 DEF t
  <2>4. CASE /\ Working(room) /\ room.len = s.len /\ need <= room.alloc /\ s.alloc <= room.alloc
             /\ room.alloc = s.alloc \/ room.alloc = need
             /\ \A i \in 1 .. s.alloc : room.buf[i] = s.buf[i]
    <3>1. room.alloc \in Nat
      BY <2>4, Numbers DEF Working
    <3>2. /\ n < room.alloc /\ n + 1 \in 1 .. room.alloc /\ \A i \in 1 .. s.alloc : i \in 1 .. room.alloc
          /\ room.alloc <= s.alloc \/ room.alloc <= n + 1
      BY SMT, <1>1, <2>1, <2>4, <3>1
    <3>3. t = Poke(room, n, Terminator) /\ Terminator \in Char
      BY <1>3, <1>5, <2>1 DEF Char
    <3>4. /\ Working(t) /\ t.len = room.len /\ t.alloc = room.alloc
          /\ \A i \in 1 .. room.alloc : t.buf[i] = IF i = n + 1 THEN Terminator ELSE room.buf[i]
      <4>1. /\ Working(Poke(room, n, Terminator)) /\ Poke(room, n, Terminator).len = room.len
            /\ Poke(room, n, Terminator).alloc = room.alloc
            /\ \A i \in 1 .. room.alloc :
                 Poke(room, n, Terminator).buf[i] = IF i = n + 1 THEN Terminator ELSE room.buf[i]
        BY <1>1, <2>4, <3>2, <3>3, PokeEffect
      <4> QED BY <3>3, <4>1
    <3>5. t.buf[n + 1] = Terminator
      BY <3>2, <3>4
    <3>6. \A i \in 1 .. s.alloc : t.buf[i] = IF i = n + 1 THEN Terminator ELSE s.buf[i]
      BY <2>4, <3>2, <3>4
    <3> QED BY <2>4, <3>2, <3>4, <3>5, <3>6 DEF t
  <2> QED BY <2>2, <2>3, <2>4
<1> QED BY <1>4, <1>5

\* The buffer is null exactly when nothing is allocated.
LEMMA NullBuffer == ASSUME NEW s, Sound(s) PROVE s.buf = <<>> <=> s.alloc = 0
<1>1. s.buf \in Seq(Char) /\ s.alloc = Len(s.buf)
  BY DEF Sound, Layout
<1> QED BY SMT, <1>1

\* str_getbuf returns the buffer, or a new one of one byte.
LEMMA GetbufEffect ==
  ASSUME NEW s, Working(s), s.buf = <<>> => s.len = 0
  PROVE  LET t == str_getbuf(s)
         IN \/ Dead(t) /\ 1 > IntMax
            \/ s.buf # <<>> /\ t = s
            \/ s.buf = <<>> /\ Filled(t, 0, s, 0)
<1>1. CASE s.buf # <<>>
  BY <1>1 DEF str_getbuf
<1>2. CASE s.buf = <<>>
  <2>1. s.len = 0 /\ s.alloc = 0
    BY <1>2, NullBuffer DEF Working
  <2>2. str_getbuf(s) = private_str_alloc_memchunk(s, <<>>)
    BY <1>2, <2>1 DEF str_getbuf
  <2>3. <<>> \in Texts /\ Len(<<>>) = 0 /\ 0 + 1 = 1
    BY SMT, WordFacts DEF Texts
  <2> QED BY <1>2, <2>2, <2>3, AllocEffect
<1> QED BY <1>1, <1>2

LEMMA EmptyEffect ==
  ASSUME NEW s, Working(s), s.buf = <<>> => s.len = 0
  PROVE  LET t == str_empty(s) IN (Dead(t) /\ 1 > IntMax) \/ Filled(t, 0, s, 0)
<1> DEFINE g == str_getbuf(s)
<1>1. str_empty(s) = IF g.status = "ok" THEN str_trunc(g, 0) ELSE g
  BY DEF str_empty
<1>2. \/ Dead(g) /\ 1 > IntMax
      \/ s.buf # <<>> /\ g = s
      \/ s.buf = <<>> /\ Filled(g, 0, s, 0)
  BY GetbufEffect
<1> HIDE DEF g
<1>3. CASE Dead(g) /\ 1 > IntMax
  BY <1>1, <1>3 DEF Dead
<1>4. CASE ~(Dead(g) /\ 1 > IntMax)
  <2>1. Working(g) /\ 0 < g.alloc /\ (g.alloc <= s.alloc \/ g.alloc <= 0 + 1)
    <3>1. CASE s.buf # <<>> /\ g = s
      <4>1. s.alloc \in Nat /\ s.alloc # 0
        BY <3>1, NullBuffer, Numbers DEF Working
      <4> QED BY SMT, <3>1, <4>1
    <3> QED BY <1>2, <1>4, <3>1 DEF Filled
  <2>2. str_empty(s) = str_trunc(g, 0)
    BY <1>1, <2>1 DEF Working
  <2>3. ~(0 >= g.alloc) /\ 0 \in Nat
    <3>1. g.alloc \in Nat
      BY <2>1, Numbers DEF Working
    <3> QED BY SMT, <2>1, <3>1
  <2>4. Filled(str_trunc(g, 0), 0, g, 0) /\ str_trunc(g, 0).alloc = g.alloc
    BY <2>1, <2>3, TruncEffect
  <2>5. Filled(str_trunc(g, 0), 0, s, 0)
    BY <2>1, <2>4 DEF Filled
  <2> QED BY <2>2, <2>5
<1> QED BY <1>3, <1>4

LEMMA SmallerOf ==
  ASSUME NEW a \in Nat, NEW b \in Nat
  PROVE  /\ Smaller(a, b) \in Nat /\ Smaller(a, b) <= a /\ Smaller(a, b) <= b
         /\ Smaller(a, b) \in 0 .. a /\ Smaller(a, b) \in 0 .. b
         /\ a <= b => Smaller(a, b) = a
  BY SMT DEF Smaller

\* str_netfd_read holds what was read, in a string as long as was asked for.
LEMMA ReadEffect ==
  ASSUME NEW s, Working(s), NEW n \in 0 .. Word - 1, NEW text \in Texts, Len(text) <= n
  PROVE  LET t == str_netfd_read(s, text, n)
         IN \/ Dead(t) /\ n + 1 > IntMax
            \/ Filled(t, n, s, n) /\ \A i \in 1 .. Len(text) : t.buf[i] = text[i]
<1> DEFINE w == str_reserve(s, n)
           u == str_trunc(w, n)
           t == str_netfd_read(s, text, n)
<1>1. \/ Dead(w) /\ n + 1 > IntMax
      \/ Working(w) /\ n < w.alloc /\ (w.alloc <= s.alloc \/ w.alloc <= n + 1)
  BY ReserveEffect
<1>2. t = Copy(IF w.status = "ok" THEN u ELSE w, 0, text)
  BY DEF str_netfd_read
<1>3. n \in Nat /\ text \in Seq(Char) /\ Len(text) \in Nat
  BY SMT, WordFacts DEF Texts
<1> HIDE DEF w, t
<1>4. CASE Dead(w) /\ n + 1 > IntMax
  <2>1. t = w
    BY <1>2, <1>4, DeadStays DEF Dead
  <2> QED BY <1>4, <2>1 DEF t
<1>5. CASE Working(w) /\ n < w.alloc /\ (w.alloc <= s.alloc \/ w.alloc <= n + 1)
  <2>1. w.alloc \in Nat /\ ~(n >= w.alloc)
    <3>1. w.alloc \in Nat
      BY <1>5, Numbers DEF Working
    <3> QED BY SMT, <1>3, <1>5, <3>1
  <2>2. Filled(u, n, w, 0) /\ u.alloc = w.alloc
    BY <1>3, <1>5, <2>1, TruncEffect
  <2>3. t = Copy(u, 0, text)
    BY <1>2, <1>5 DEF Working
  <2> HIDE DEF u
  <2>4. Working(u) /\ u.len = n /\ n < u.alloc /\ u.buf[n + 1] = Terminator /\ u.alloc \in Nat
    BY <2>1, <2>2 DEF Filled
  <2>5. 0 \in Nat /\ 0 + Len(text) <= u.alloc
    BY SMT, <1>3, <2>4
  <2>6. /\ Working(t) /\ t.len = u.len /\ t.alloc = u.alloc
        /\ \A i \in 1 .. u.alloc : t.buf[i] = IF i \in 0 + 1 .. 0 + Len(text) THEN text[i - 0] ELSE u.buf[i]
    <3>1. /\ Working(Copy(u, 0, text)) /\ Copy(u, 0, text).len = u.len /\ Copy(u, 0, text).alloc = u.alloc
          /\ \A i \in 1 .. u.alloc :
               Copy(u, 0, text).buf[i] = IF i \in 0 + 1 .. 0 + Len(text) THEN text[i - 0] ELSE u.buf[i]
      BY <1>3, <2>4, <2>5, CopyEffect
    <3> QED BY <2>3, <3>1
  <2>7. n + 1 \in 1 .. u.alloc /\ n + 1 \notin 0 + 1 .. 0 + Len(text)
    BY SMT, <1>3, <2>4
  <2>8. \A i \in 1 .. Len(text) : i \in 1 .. u.alloc /\ i \in 0 + 1 .. 0 + Len(text) /\ i - 0 = i
    BY SMT, <1>3, <2>4
  <2>9. t.buf[n + 1] = Terminator
    BY <2>4, <2>6, <2>7
  <2>10. \A i \in 1 .. Len(text) : t.buf[i] = text[i]
    BY <2>6, <2>8
  <2>11. Filled(t, n, s, n)
    BY <1>5, <2>2, <2>4, <2>6, <2>9 DEF Filled
  <2> QED BY <2>10, <2>11 DEF t
<1> QED BY <1>1, <1>4, <1>5

\* ssl_read_into_str fills no more than the length that the string had.
LEMMA SslReadEffect ==
  ASSUME NEW s, Working(s), s.buf = <<>> => s.len = 0, s.buf # <<>> => s.len < s.alloc,
         NEW text \in Texts, NEW ok \in BOOLEAN
  PROVE  LET t == ssl_read_into_str(s, text, ok)
             got == Smaller(Len(text), s.len)
         IN \/ Dead(t) /\ 1 > IntMax
            \/ ~ok /\ Filled(t, 0, s, 0)
            \/ ok /\ Filled(t, got, s, 0) /\ \A i \in 1 .. got : t.buf[i] = text[i]
<1> DEFINE g == str_getbuf(s)
           got == Smaller(Len(text), s.len)
           part == SubSeq(text, 1, got)
           u == Copy(g, 0, part)
           t == ssl_read_into_str(s, text, ok)
<1>1. \/ Dead(g) /\ 1 > IntMax
      \/ s.buf # <<>> /\ g = s
      \/ s.buf = <<>> /\ Filled(g, 0, s, 0)
  BY GetbufEffect
<1>2. t = IF g.status # "ok" THEN g
          ELSE IF ~ok THEN str_empty(g)
          ELSE IF u.status = "ok" THEN str_trunc(u, got) ELSE u
  BY DEF ssl_read_into_str, Smaller
<1>3. text \in Seq(Char) /\ Len(text) \in Nat /\ s.len \in Nat /\ s.alloc \in Nat
  <2>1. text \in Seq(Char) /\ Len(text) \in Nat
    BY SMT DEF Texts
  <2> QED BY <2>1, Numbers DEF Working
<1>4. got \in Nat /\ got <= Len(text) /\ got <= s.len
  BY <1>3, SmallerOf
<1> HIDE DEF g, t, got
<1>5. part \in Seq(Char) /\ Len(part) = got /\ \A i \in 1 .. got : part[i] = text[i]
  BY SMT, <1>3, <1>4
<1> HIDE DEF part
<1>6. CASE Dead(g) /\ 1 > IntMax
  BY <1>2, <1>6 DEF Dead, t
<1>7. CASE ~(Dead(g) /\ 1 > IntMax)
  <2>1. /\ Working(g) /\ s.len < g.alloc /\ g.buf # <<>> /\ g.alloc \in Nat
        /\ g.alloc <= s.alloc \/ g.alloc <= 0 + 1
    <3>1. CASE s.buf # <<>> /\ g = s
      <4>1. s.alloc <= s.alloc
        BY SMT, <1>3
      <4> QED BY <1>3, <3>1, <4>1
    <3>2. CASE s.buf = <<>> /\ Filled(g, 0, s, 0)
      <4>1. Working(g) /\ 0 < g.alloc /\ (g.alloc <= s.alloc \/ g.alloc <= 0 + 1) /\ s.len = 0
        BY <3>2 DEF Filled
      <4>2. g.alloc \in Nat
        BY <4>1, Numbers DEF Working
      <4>3. g.alloc # 0
        BY SMT, <4>1, <4>2
      <4>4. g.buf # <<>>
        BY <4>1, <4>3, NullBuffer DEF Working
      <4> QED BY <4>1, <4>2, <4>4
    <3> QED BY <1>1, <1>7, <3>1, <3>2
  <2>2. CASE ~ok
    <3>1. t = str_empty(g)
      BY <1>2, <2>1, <2>2 DEF Working
    <3>2. (Dead(t) /\ 1 > IntMax) \/ Filled(t, 0, g, 0)
      BY <2>1, <3>1, EmptyEffect
    <3>3. CASE Filled(t, 0, g, 0)
      <4>1. /\ Working(t) /\ t.len = 0 /\ 0 < t.alloc /\ t.buf[0 + 1] = Terminator
            /\ t.alloc <= g.alloc \/ t.alloc <= 0 + 1
        BY <3>3 DEF Filled
      <4>2. t.alloc \in Nat
        BY <4>1, Numbers DEF Working
      <4>3. t.alloc <= s.alloc \/ t.alloc <= 0 + 1
        BY SMT, <1>3, <2>1, <4>1, <4>2
      <4>4. Filled(t, 0, s, 0)
        BY <4>1, <4>3 DEF Filled
      <4> QED BY <2>2, <4>4 DEF t
    <3> QED BY <3>2, <3>3 DEF t
  <2>3. CASE ok
    <3>1. 0 \in Nat /\ 0 + Len(part) <= g.alloc /\ got < g.alloc
      BY SMT, <1>3, <1>4, <1>5, <2>1
    <3>2. /\ Working(u) /\ u.len = g.len /\ u.alloc = g.alloc
          /\ \A i \in 1 .. g.alloc : u.buf[i] = IF i \in 0 + 1 .. 0 + Len(part) THEN part[i - 0] ELSE g.buf[i]
      BY <1>5, <2>1, <3>1, CopyEffect
    <3>3. t = str_trunc(u, got)
      BY <1>2, <2>1, <2>3, <3>2 DEF Working
    <3> HIDE DEF u
    <3>4. ~(got >= u.alloc)
      BY SMT, <1>4, <2>1, <3>1, <3>2
    <3>5. /\ Filled(t, got, u, 0) /\ t.alloc = u.alloc
          /\ \A i \in 1 .. got : t.buf[i] = u.buf[i]
      BY <1>4, <3>2, <3>3, <3>4, TruncEffect
    <3>6. \A i \in 1 .. got : i \in 1 .. g.alloc /\ i \in 0 + 1 .. 0 + Len(part) /\ i - 0 = i
      BY SMT, <1>4, <1>5, <2>1, <3>1
    <3>7. ASSUME NEW i \in 1 .. got PROVE t.buf[i] = text[i]
      <4>1. t.buf[i] = u.buf[i] /\ part[i] = text[i]
        BY <1>5, <3>5
      <4>2. u.buf[i] = part[i - 0] /\ i - 0 = i
        BY <3>2, <3>6
      <4> QED BY <4>1, <4>2
    <3>8. Filled(t, got, s, 0)
      BY <2>1, <3>2, <3>5 DEF Filled
    <3> QED BY <2>3, <3>7, <3>8 DEF t, got
  <2> QED BY <2>2, <2>3
<1> QED BY <1>6, <1>7

\* What a program may ask of a string: a read is given no more than it asked for.
Operation ==
  [op : {"alloc", "append"}, text : Texts] \cup [op : {"trunc", "reserve"}, n : 0 .. Word - 1]
  \cup [op : {"empty", "free"}] \cup [op : {"ssl_read"}, text : Texts, ok : BOOLEAN]
  \cup {o \in [op : {"read"}, text : Texts, n : 0 .. Word - 1] : Len(o.text) <= o.n}

Meaning == [known : BOOLEAN, text : Seq(Char)]

\* The invariant of a string s that means r, of which room for n characters was
\* asked so far, and which was cut if c.
Kept(s, n) ==
  /\ s.len + 1 <= n /\ s.alloc <= n
  /\ s.buf = <<>> => s.len = 0
  /\ s.buf # <<>> => \E i \in s.len + 1 .. s.alloc : s.buf[i] = Terminator
Same(s, r) == Len(r.text) = s.len /\ \A i \in 1 .. s.len : s.buf[i] = r.text[i]
Held(s, r, n, c) ==
  /\ r \in Meaning /\ n \in Nat /\ n >= 1 /\ c \in BOOLEAN
  /\ \/ Dead(s) /\ (n > IntMax \/ c)
     \/ Working(s) /\ Kept(s, n) /\ (r.known => Same(s, r))

\* A string that is full up to k keeps the invariant.
LEMMA HeldFilled ==
  ASSUME NEW s, NEW n \in Nat, NEW m \in Nat, n >= 1, n <= m, Working(s), s.alloc <= n,
         NEW a \in Nat, a + 1 <= m, NEW k \in Nat, k + 1 <= m,
         NEW t, Filled(t, k, s, a),
         NEW r \in Meaning, r.known => Len(r.text) = k /\ \A i \in 1 .. k : t.buf[i] = r.text[i],
         NEW c \in BOOLEAN
  PROVE  Held(t, r, m, c)
<1>1. Working(t) /\ t.len = k /\ k < t.alloc /\ t.buf[k + 1] = Terminator /\ (t.alloc <= s.alloc \/ t.alloc <= a + 1)
  BY DEF Filled
<1>2. t.alloc \in Nat /\ s.alloc \in Nat
  BY <1>1, Numbers DEF Working
<1>3. m >= 1 /\ t.alloc <= m /\ t.alloc # 0 /\ k + 1 \in k + 1 .. t.alloc
  BY SMT, <1>1, <1>2
<1>4. t.buf # <<>>
  BY <1>1, <1>3, NullBuffer DEF Working
<1>5. Kept(t, m)
  BY <1>1, <1>3, <1>4 DEF Kept
<1>6. r.known => Same(t, r)
  BY <1>1 DEF Same
<1> QED BY <1>1, <1>3, <1>5, <1>6 DEF Held

\* What the invariant says of a working string.
LEMMA HeldFacts ==
  ASSUME NEW s, NEW r, NEW n, NEW c, Held(s, r, n, c), Working(s)
  PROVE  /\ n \in Nat /\ n >= 1 /\ n <= n + 0 /\ n + 0 = n /\ c \in BOOLEAN /\ r \in Meaning /\ r.known \in BOOLEAN
         /\ s.len \in Nat /\ s.alloc \in Nat /\ s.len <= s.alloc /\ s.alloc <= n /\ s.len + 1 <= n
         /\ s.buf = <<>> => s.len = 0
         /\ s.buf # <<>> => s.len < s.alloc
         /\ r.known => Same(s, r)
<1>1. ~Dead(s)
  BY DEF Dead, Working
<1>2. Kept(s, n) /\ (r.known => Same(s, r)) /\ n \in Nat /\ n >= 1 /\ c \in BOOLEAN /\ r \in Meaning
  BY <1>1 DEF Held
<1>3. s.len \in Nat /\ s.alloc \in Nat
  BY Numbers DEF Working
<1>4. n <= n + 0 /\ n + 0 = n
  BY SMT, <1>2
<1>5. s.buf # <<>> => s.len < s.alloc
  <2>1. \A i \in s.len + 1 .. s.alloc : s.len < s.alloc
    BY SMT, <1>3
  <2> QED BY <1>2, <2>1 DEF Kept
<1>6. s.len <= s.alloc
  <2>1. s.len = 0 \/ s.len < s.alloc
    BY <1>2, <1>5 DEF Kept
  <2> QED BY SMT, <1>3, <2>1
<1> QED BY <1>2, <1>3, <1>4, <1>5, <1>6 DEF Kept, Meaning

\* Each operation keeps the invariant.
LEMMA HeldAlloc ==
  ASSUME NEW s, NEW r, NEW n, NEW c, Held(s, r, n, c), Working(s), NEW text \in Texts
  PROVE  Held(private_str_alloc_memchunk(s, text), [known |-> TRUE, text |-> text], n + Len(text), c)
<1> DEFINE t == private_str_alloc_memchunk(s, text)
           q == [known |-> TRUE, text |-> text]
           m == n + Len(text)
<1>1. n \in Nat /\ n >= 1 /\ c \in BOOLEAN /\ s.alloc <= n
  BY HeldFacts
<1>2. text \in Seq(Char) /\ Len(text) \in Nat
  BY SMT DEF Texts
<1>3. m \in Nat /\ m >= 1 /\ n <= m /\ Len(text) + 1 <= m
  BY SMT, <1>1, <1>2
<1>4. q \in Meaning /\ q.known /\ q.text = text
  BY <1>2 DEF Meaning
<1>5. \/ Dead(t) /\ Len(text) + 1 > IntMax
      \/ Filled(t, Len(text), s, Len(text)) /\ \A i \in 1 .. Len(text) : t.buf[i] = text[i]
  BY AllocEffect
<1> HIDE DEF t, q, m
<1>6. CASE Dead(t) /\ Len(text) + 1 > IntMax
  <2>1. m > IntMax
    BY SMT, <1>2, <1>3, <1>6, WordFacts
  <2> QED BY <1>1, <1>3, <1>4, <1>6, <2>1 DEF Held, t, q, m
<1>7. CASE Filled(t, Len(text), s, Len(text)) /\ \A i \in 1 .. Len(text) : t.buf[i] = text[i]
  <2>1. Held(t, q, m, c)
    BY <1>1, <1>2, <1>3, <1>4, <1>7, HeldFilled
  <2> QED BY <2>1 DEF t, q, m
<1> QED BY <1>5, <1>6, <1>7

LEMMA HeldAppend ==
  ASSUME NEW s, NEW r, NEW n, NEW c, Held(s, r, n, c), Working(s), NEW text \in Texts
  PROVE  Held(private_str_append_memchunk(s, text), [known |-> r.known, text |-> r.text \o text], n + Len(text), c)
<1> DEFINE t == private_str_append_memchunk(s, text)
           q == [known |-> r.known, text |-> r.text \o text]
           m == n + Len(text)
           all == s.len + Len(text)
<1>1. /\ n \in Nat /\ n >= 1 /\ c \in BOOLEAN /\ s.alloc <= n /\ s.len \in Nat /\ s.len + 1 <= n /\ r \in Meaning
      /\ s.len <= s.alloc
      /\ r.known => Same(s, r)
  BY HeldFacts
<1>2. text \in Seq(Char) /\ Len(text) \in Nat
  BY SMT DEF Texts
<1>3. m \in Nat /\ m >= 1 /\ n <= m /\ all + 1 <= m /\ all \in Nat
  BY SMT, <1>1, <1>2
<1>4. q \in Meaning /\ q.known = r.known /\ q.text = r.text \o text
  <2>1. r.text \in Seq(Char) /\ r.known \in BOOLEAN
    BY <1>1 DEF Meaning
  <2>2. r.text \o text \in Seq(Char)
    BY <1>2, <2>1, Joined
  <2> QED BY <2>1, <2>2 DEF Meaning
<1>5. \/ Dead(t) /\ all + 1 > IntMax
      \/ /\ Filled(t, all, s, all)
         /\ \A i \in 1 .. s.len : t.buf[i] = s.buf[i]
         /\ \A i \in 1 .. Len(text) : t.buf[s.len + i] = text[i]
  BY <1>1, AppendEffect
<1> HIDE DEF t, q, m
<1>6. CASE Dead(t) /\ all + 1 > IntMax
  <2>1. m > IntMax
    BY SMT, <1>3, <1>6, WordFacts
  <2> QED BY <1>1, <1>3, <1>4, <1>6, <2>1 DEF Held, t, q, m
<1>7. CASE /\ Filled(t, all, s, all)
           /\ \A i \in 1 .. s.len : t.buf[i] = s.buf[i]
           /\ \A i \in 1 .. Len(text) : t.buf[s.len + i] = text[i]
  <2>1. ASSUME q.known PROVE Len(q.text) = all /\ \A i \in 1 .. all : t.buf[i] = q.text[i]
    <3>1. Same(s, r) /\ r.text \in Seq(Char)
      BY <1>1, <1>4, <2>1 DEF Meaning
    <3>2. Len(r.text) = s.len /\ \A i \in 1 .. s.len : s.buf[i] = r.text[i]
      BY <3>1 DEF Same
    <3>3. /\ Len(q.text) = all
          /\ \A i \in 1 .. s.len : q.text[i] = r.text[i]
          /\ \A i \in 1 .. Len(text) : q.text[s.len + i] = text[i]
      <4>1. \A i \in 1 .. Len(text) : s.len + i > s.len /\ (s.len + i) - s.len = i /\ s.len + i \in 1 .. all
        BY SMT, <1>1, <1>2
      <4>2. \A i \in 1 .. s.len : i <= s.len /\ i \in 1 .. all
        BY SMT, <1>1, <1>2
      <4>3. /\ Len(q.text) = Len(r.text) + Len(text)
            /\ \A i \in 1 .. Len(r.text) + Len(text) :
                 q.text[i] = IF i <= Len(r.text) THEN r.text[i] ELSE text[i - Len(r.text)]
        <5>1. /\ Len(r.text \o text) = Len(r.text) + Len(text)
              /\ \A i \in 1 .. Len(r.text) + Len(text) :
                   (r.text \o text)[i] = IF i <= Len(r.text) THEN r.text[i] ELSE text[i - Len(r.text)]
          BY <1>2, <3>1, Joined
        <5> QED BY <1>4, <5>1
      <4>4. \A i \in 1 .. Len(text) : ~(s.len + i <= s.len)
        BY SMT, <1>1, <1>2
      <4>5. Len(q.text) = all /\ \A i \in 1 .. all : q.text[i] = IF i <= s.len THEN r.text[i] ELSE text[i - s.len]
        BY <3>2, <4>3
      <4> HIDE DEF all
      <4>6. \A i \in 1 .. s.len : q.text[i] = r.text[i]
        BY <4>2, <4>5
      <4>7. ASSUME NEW i \in 1 .. Len(text) PROVE q.text[s.len + i] = text[i]
        <5>1. s.len + i \in 1 .. all /\ ~(s.len + i <= s.len) /\ (s.len + i) - s.len = i
          BY <4>1, <4>4
        <5>2. q.text[s.len + i] = text[(s.len + i) - s.len]
          BY <4>5, <5>1
        <5> QED BY <5>1, <5>2
      <4> QED BY <4>5, <4>6, <4>7
    <3>4. ASSUME NEW i \in 1 .. all PROVE t.buf[i] = q.text[i]
      <4>1. i \in 1 .. s.len \/ (i - s.len \in 1 .. Len(text) /\ i = s.len + (i - s.len))
        BY SMT, <1>1, <1>2
      <4>2. CASE i \in 1 .. s.len
        BY <1>7, <3>2, <3>3, <4>2
      <4>3. CASE i - s.len \in 1 .. Len(text) /\ i = s.len + (i - s.len)
        <5> DEFINE j == i - s.len
        <5> HIDE DEF j
        <5>1. j \in 1 .. Len(text) /\ i = s.len + j
          BY <4>3 DEF j
        <5>2. t.buf[s.len + j] = text[j] /\ q.text[s.len + j] = text[j]
          BY <1>7, <3>3, <5>1
        <5> QED BY <5>1, <5>2
      <4> QED BY <4>1, <4>2, <4>3
    <3> QED BY <3>3, <3>4
  <2> HIDE DEF all
  <2>2. Filled(t, all, s, all)
    BY <1>7
  <2>3. n \in Nat /\ n >= 1 /\ c \in BOOLEAN /\ s.alloc <= n
    BY <1>1
  <2>4. Held(t, q, m, c)
    BY <1>3, <1>4, <2>1, <2>2, <2>3, HeldFilled
  <2> QED BY <2>4 DEF t, q, m
<1> QED BY <1>5, <1>6, <1>7

LEMMA HeldTrunc ==
  ASSUME NEW s, NEW r, NEW n, NEW c, Held(s, r, n, c), Working(s), NEW k \in Nat
  PROVE  Held(str_trunc(s, k),
              [known |-> r.known /\ k <= Len(r.text), text |-> SubSeq(r.text, 1, Smaller(k, Len(r.text)))], n, TRUE)
<1> DEFINE t == str_trunc(s, k)
           part == SubSeq(r.text, 1, Smaller(k, Len(r.text)))
           q == [known |-> r.known /\ k <= Len(r.text), text |-> part]
<1>1. /\ n \in Nat /\ n >= 1 /\ s.alloc <= n /\ s.alloc \in Nat /\ r \in Meaning /\ r.known \in BOOLEAN
      /\ r.known => Same(s, r)
  BY HeldFacts
<1>2. r.text \in Seq(Char) /\ Len(r.text) \in Nat
  BY <1>1, LenIsNat DEF Meaning
<1>3. Smaller(k, Len(r.text)) \in 0 .. Len(r.text) /\ (k <= Len(r.text) => Smaller(k, Len(r.text)) = k)
  BY <1>2, SmallerOf
<1>4. /\ part \in Seq(Char)
      /\ k <= Len(r.text) => Len(part) = k /\ \A i \in 1 .. k : part[i] = r.text[i]
  BY SMT, <1>2, <1>3
<1> HIDE DEF part
<1>5. q \in Meaning /\ (q.known => r.known /\ k <= Len(r.text)) /\ q.text = part
  <2>1. (r.known /\ k <= Len(r.text)) \in BOOLEAN
    OBVIOUS
  <2> QED BY <1>4, <2>1 DEF Meaning
<1>6. \/ Dead(t) /\ k >= s.alloc
      \/ /\ Filled(t, k, s, 0) /\ t.alloc = s.alloc
         /\ \A i \in 1 .. k : t.buf[i] = s.buf[i]
  BY TruncEffect
<1> HIDE DEF t, q
<1>7. CASE Dead(t) /\ k >= s.alloc
  BY <1>1, <1>5, <1>7 DEF Held, t, q, part
<1>8. CASE /\ Filled(t, k, s, 0) /\ t.alloc = s.alloc
           /\ \A i \in 1 .. k : t.buf[i] = s.buf[i]
  <2>1. k < s.alloc
    BY <1>8 DEF Filled
  <2>2. n <= n /\ 0 \in Nat /\ 0 + 1 <= n /\ k + 1 <= n
    BY SMT, <1>1, <2>1
  <2>3. ASSUME q.known PROVE Len(q.text) = k /\ \A i \in 1 .. k : t.buf[i] = q.text[i]
    <3>1. Len(r.text) = s.len /\ \A i \in 1 .. s.len : s.buf[i] = r.text[i]
      BY <1>1, <1>5, <2>3 DEF Same
    <3>2. Len(part) = k /\ \A i \in 1 .. k : part[i] = r.text[i]
      BY <1>4, <1>5, <2>3
    <3>3. \A i \in 1 .. k : i \in 1 .. s.len
      <4>1. k <= s.len /\ s.len \in Nat
        BY <1>2, <1>5, <2>3, <3>1
      <4> QED BY SMT, <4>1
    <3> QED BY <1>5, <1>8, <3>1, <3>2, <3>3
  <2>4. Held(t, q, n, TRUE)
    BY <1>1, <1>5, <1>8, <2>2, <2>3, HeldFilled
  <2> QED BY <2>4 DEF t, q, part
<1> QED BY <1>6, <1>7, <1>8

LEMMA HeldReserve ==
  ASSUME NEW s, NEW r, NEW n, NEW c, Held(s, r, n, c), Working(s), NEW k \in 0 .. Word - 1
  PROVE  Held(str_reserve(s, k), [known |-> r.known /\ k >= Len(r.text), text |-> r.text], n + k, c)
<1> DEFINE t == str_reserve(s, k)
           q == [known |-> r.known /\ k >= Len(r.text), text |-> r.text]
           m == n + k
<1>1. /\ n \in Nat /\ n >= 1 /\ c \in BOOLEAN /\ s.alloc <= n /\ s.alloc \in Nat /\ r \in Meaning
      /\ s.len \in Nat /\ s.len + 1 <= n /\ s.len <= s.alloc
      /\ s.buf = <<>> => s.len = 0
      /\ r.known => Same(s, r)
  BY HeldFacts
<1>2. k \in Nat /\ m \in Nat /\ m >= 1 /\ n <= m /\ k + 1 <= m /\ s.len + 1 <= m
  BY SMT, <1>1, WordFacts
<1>3. q \in Meaning /\ (q.known => r.known /\ k >= Len(r.text)) /\ q.text = r.text
  <2>1. (r.known /\ k >= Len(r.text)) \in BOOLEAN
    OBVIOUS
  <2> QED BY <1>1, <2>1 DEF Meaning
<1>4. \/ Dead(t) /\ k + 1 > IntMax
      \/ /\ Working(t) /\ t.len = s.len /\ s.alloc <= t.alloc /\ k < t.alloc
         /\ t.alloc <= s.alloc \/ t.alloc <= k + 1
         /\ t.buf[k + 1] = Terminator
         /\ \A i \in 1 .. s.alloc : t.buf[i] = IF i = k + 1 THEN Terminator ELSE s.buf[i]
  BY ReserveEffect
<1> HIDE DEF t, q, m
<1>5. CASE Dead(t) /\ k + 1 > IntMax
  <2>1. m > IntMax
    BY SMT, <1>2, <1>5, WordFacts
  <2> QED BY <1>1, <1>2, <1>3, <1>5, <2>1 DEF Held, t, q, m
<1>6. CASE /\ Working(t) /\ t.len = s.len /\ s.alloc <= t.alloc /\ k < t.alloc
           /\ t.alloc <= s.alloc \/ t.alloc <= k + 1
           /\ t.buf[k + 1] = Terminator
           /\ \A i \in 1 .. s.alloc : t.buf[i] = IF i = k + 1 THEN Terminator ELSE s.buf[i]
  <2>1. t.alloc \in Nat
    BY <1>6, Numbers DEF Working
  <2>2. t.alloc <= m /\ t.alloc # 0
    BY SMT, <1>1, <1>2, <1>6, <2>1
  <2>3. t.buf # <<>>
    BY <1>6, <2>2, NullBuffer DEF Working
  <2>4. \E i \in s.len + 1 .. t.alloc : t.buf[i] = Terminator
    <3>1. CASE s.buf = <<>>
      <4>1. s.len = 0
        BY <1>1, <3>1
      <4>2. k + 1 \in s.len + 1 .. t.alloc
        BY SMT, <1>2, <1>6, <2>1, <4>1
      <4> QED BY <1>6, <4>2
    <3>2. CASE s.buf # <<>>
      <4>1. PICK i \in s.len + 1 .. s.alloc : s.buf[i] = Terminator
        BY <3>2 DEF Held, Kept, Dead, Working
      <4>2. i \in s.len + 1 .. t.alloc /\ i \in 1 .. s.alloc
        BY SMT, <1>1, <1>6, <2>1
      <4> QED BY <1>6, <4>1, <4>2
    <3> QED BY <3>1, <3>2
  <2>5. Kept(t, m)
    BY <1>2, <1>6, <2>2, <2>3, <2>4 DEF Kept
  <2>6. ASSUME q.known PROVE Same(t, q)
    <3>1. Len(r.text) = s.len /\ (\A i \in 1 .. s.len : s.buf[i] = r.text[i]) /\ k >= s.len
      BY <1>1, <1>3, <2>6 DEF Same
    <3>2. \A i \in 1 .. s.len : i \in 1 .. s.alloc /\ i # k + 1
      BY SMT, <1>1, <1>2, <3>1
    <3> QED BY <1>3, <1>6, <3>1, <3>2 DEF Same
  <2> QED BY <1>1, <1>2, <1>3, <1>6, <2>5, <2>6 DEF Held, t, q, m
<1> QED BY <1>4, <1>5, <1>6

Nothing == [known |-> TRUE, text |-> <<>>]

LEMMA NothingMeant == Nothing \in Meaning /\ Nothing.known /\ Nothing.text = <<>> /\ Len(<<>>) = 0 /\ 1 .. 0 = {}
<1>1. <<>> \in Seq(Char) /\ Len(<<>>) = 0 /\ 1 .. 0 = {}
  BY SMT
<1> QED BY <1>1 DEF Nothing, Meaning

\* A string emptied, or a process that ends for want of a single byte.
LEMMA HeldNothing ==
  ASSUME NEW s, NEW r, NEW n, NEW c, Held(s, r, n, c), Working(s),
         NEW t, (Dead(t) /\ 1 > IntMax) \/ Filled(t, 0, s, 0)
  PROVE  Held(t, Nothing, n, c)
<1>1. n \in Nat /\ n >= 1 /\ c \in BOOLEAN /\ s.alloc <= n
  BY HeldFacts
<1>2. CASE Dead(t) /\ 1 > IntMax
  <2>1. n > IntMax
    BY SMT, <1>1, <1>2, WordFacts
  <2> QED BY <1>1, <1>2, <2>1, NothingMeant DEF Held
<1>3. CASE Filled(t, 0, s, 0)
  <2>1. n <= n /\ 0 \in Nat /\ 0 + 1 <= n
    BY SMT, <1>1
  <2>2. Len(Nothing.text) = 0 /\ \A i \in 1 .. 0 : t.buf[i] = Nothing.text[i]
    BY NothingMeant
  <2> QED BY <1>1, <1>3, <2>1, <2>2, NothingMeant, HeldFilled
<1> QED BY <1>2, <1>3

LEMMA HeldFree ==
  ASSUME NEW s, NEW n \in Nat, n >= 1, NEW c \in BOOLEAN, Working(s)
  PROVE  Held(str_free(s), Nothing, n, c)
<1>1. str_free(s) = EmptyMystr /\ Working(EmptyMystr)
  BY FreeEffect
<1>2. 0 + 1 <= n /\ 0 <= n
  BY SMT
<1>3. Kept(EmptyMystr, n)
  BY <1>2 DEF Kept, EmptyMystr
<1>4. Same(EmptyMystr, Nothing)
  <2>1. EmptyMystr.len = 0
    BY DEF EmptyMystr
  <2> QED BY <2>1, NothingMeant DEF Same
<1> QED BY <1>1, <1>3, <1>4, NothingMeant DEF Held

LEMMA HeldRead ==
  ASSUME NEW s, NEW r, NEW n, NEW c, Held(s, r, n, c), Working(s),
         NEW text \in Texts, NEW k \in 0 .. Word - 1, Len(text) <= k
  PROVE  Held(str_netfd_read(s, text, k), [known |-> k = Len(text), text |-> text], n + k, c)
<1> DEFINE t == str_netfd_read(s, text, k)
           q == [known |-> k = Len(text), text |-> text]
           m == n + k
<1>1. n \in Nat /\ n >= 1 /\ c \in BOOLEAN /\ s.alloc <= n
  BY HeldFacts
<1>2. k \in Nat /\ m \in Nat /\ m >= 1 /\ n <= m /\ k + 1 <= m
  BY SMT, <1>1, WordFacts
<1>3. q \in Meaning /\ (q.known => k = Len(text)) /\ q.text = text
  <2>1. (k = Len(text)) \in BOOLEAN /\ text \in Seq(Char)
    BY DEF Texts
  <2> QED BY <2>1 DEF Meaning
<1>4. \/ Dead(t) /\ k + 1 > IntMax
      \/ Filled(t, k, s, k) /\ \A i \in 1 .. Len(text) : t.buf[i] = text[i]
  BY ReadEffect
<1> HIDE DEF t, q, m
<1>5. CASE Dead(t) /\ k + 1 > IntMax
  <2>1. m > IntMax
    BY SMT, <1>2, <1>5, WordFacts
  <2> QED BY <1>1, <1>2, <1>3, <1>5, <2>1 DEF Held, t, q, m
<1>6. CASE Filled(t, k, s, k) /\ \A i \in 1 .. Len(text) : t.buf[i] = text[i]
  <2>1. q.known => Len(q.text) = k /\ \A i \in 1 .. k : t.buf[i] = q.text[i]
    BY <1>3, <1>6
  <2>2. Held(t, q, m, c)
    BY <1>1, <1>2, <1>3, <1>6, <2>1, HeldFilled
  <2> QED BY <2>2 DEF t, q, m
<1> QED BY <1>4, <1>5, <1>6

LEMMA HeldSslRead ==
  ASSUME NEW s, NEW r, NEW n, NEW c, Held(s, r, n, c), Working(s), NEW text \in Texts, NEW ok \in BOOLEAN
  PROVE  Held(ssl_read_into_str(s, text, ok),
              IF ok THEN [known |-> r.known, text |-> SubSeq(text, 1, Smaller(Len(text), Len(r.text)))] ELSE Nothing,
              n, c)
<1> DEFINE t == ssl_read_into_str(s, text, ok)
           got == Smaller(Len(text), s.len)
           part == SubSeq(text, 1, Smaller(Len(text), Len(r.text)))
           q == [known |-> r.known, text |-> part]
<1>1. /\ n \in Nat /\ n >= 1 /\ c \in BOOLEAN /\ s.alloc <= n /\ r \in Meaning /\ s.len \in Nat /\ s.len + 1 <= n
      /\ s.buf = <<>> => s.len = 0
      /\ s.buf # <<>> => s.len < s.alloc
      /\ r.known => Same(s, r)
  BY HeldFacts
<1>2. \/ Dead(t) /\ 1 > IntMax
      \/ ~ok /\ Filled(t, 0, s, 0)
      \/ ok /\ Filled(t, got, s, 0) /\ \A i \in 1 .. got : t.buf[i] = text[i]
  BY <1>1, SslReadEffect
<1>3. text \in Seq(Char) /\ Len(text) \in Nat /\ r.text \in Seq(Char) /\ Len(r.text) \in Nat /\ r.known \in BOOLEAN
  BY <1>1, LenIsNat DEF Texts, Meaning
<1>4. got \in 0 .. Len(text) /\ got + 1 <= n /\ got \in Nat
  <2>1. n \in Nat /\ s.len \in Nat /\ s.len + 1 <= n
    BY <1>1
  <2>2. got \in 0 .. Len(text) /\ got \in Nat /\ got <= s.len
    BY <1>3, <2>1, SmallerOf
  <2> HIDE DEF got
  <2> QED BY SMT, <2>1, <2>2
<1>5. part \in Seq(Char)
  <2>1. Smaller(Len(text), Len(r.text)) \in 0 .. Len(text)
    BY <1>3, SmallerOf
  <2> QED BY SMT, <1>3, <2>1
<1>6. Len(r.text) = s.len => Len(part) = got /\ \A i \in 1 .. got : part[i] = text[i]
  BY SMT, <1>3, <1>4
<1> HIDE DEF t, got, part
<1>7. q \in Meaning /\ q.known = r.known /\ q.text = part
  BY <1>3, <1>5 DEF Meaning
<1>8. CASE ~ok
  <2>1. Held(t, Nothing, n, c)
    BY <1>2, <1>8, HeldNothing
  <2> QED BY <1>8, <2>1 DEF t
<1>9. CASE ok
  <2> HIDE DEF q
  <2>1. CASE Dead(t) /\ 1 > IntMax
    <3>1. n > IntMax
      BY SMT, <1>1, <2>1, WordFacts
    <3>2. Held(t, q, n, c)
      BY <1>1, <1>7, <2>1, <3>1 DEF Held
    <3> QED BY <1>9, <3>2 DEF t, q, part
  <2>2. CASE Filled(t, got, s, 0) /\ \A i \in 1 .. got : t.buf[i] = text[i]
    <3>1. n <= n /\ 0 \in Nat /\ 0 + 1 <= n
      BY SMT, <1>1
    <3>2. q.known => Len(q.text) = got /\ \A i \in 1 .. got : t.buf[i] = q.text[i]
      BY <1>1, <1>6, <1>7, <2>2 DEF Same
    <3>3. Held(t, q, n, c)
      BY <1>1, <1>4, <1>7, <2>2, <3>1, <3>2, HeldFilled
    <3> QED BY <1>9, <3>3 DEF t, q, part
  <2> QED BY <1>2, <1>9, <2>1, <2>2
<1> QED BY <1>8, <1>9

LEMMA OperationForms ==
  ASSUME NEW o \in Operation
  PROVE  \/ o.op = "alloc" /\ o.text \in Texts
         \/ o.op = "append" /\ o.text \in Texts
         \/ o.op = "trunc" /\ o.n \in 0 .. Word - 1
         \/ o.op = "reserve" /\ o.n \in 0 .. Word - 1
         \/ o.op = "empty"
         \/ o.op = "free"
         \/ o.op = "read" /\ o.text \in Texts /\ o.n \in 0 .. Word - 1 /\ Len(o.text) <= o.n
         \/ o.op = "ssl_read" /\ o.text \in Texts /\ o.ok \in BOOLEAN
  BY DEF Operation

\* What is meant is a text, whatever the operation and the state of the string.
LEMMA MeansText ==
  ASSUME NEW r \in Meaning, NEW o \in Operation
  PROVE  MystrMeans(r, o) \in Meaning /\ MystrAsks(o) \in Nat
<1>1. r.known \in BOOLEAN /\ r.text \in Seq(Char) /\ Len(r.text) \in Nat
  BY LenIsNat DEF Meaning
<1>2. \A t \in Texts : t \in Seq(Char) /\ Len(t) \in Nat
  BY LenIsNat DEF Texts
<1>3. 0 .. Word - 1 \subseteq Nat /\ 0 \in Nat
  BY SMT, WordFacts
<1>4. \A t \in Seq(Char) : \A k \in Nat : k <= Len(t) => SubSeq(t, 1, k) \in Seq(Char)
  BY SMT
<1>5. \A a, b \in Nat : Smaller(a, b) \in Nat /\ Smaller(a, b) <= a /\ Smaller(a, b) <= b
  BY SmallerOf
<1>6. CASE o.op = "alloc" /\ o.text \in Texts
  <2>1. MystrMeans(r, o) = [known |-> TRUE, text |-> o.text] /\ MystrAsks(o) = Len(o.text)
    BY <1>6 DEF MystrMeans, MystrAsks
  <2>3. [known |-> TRUE, text |-> o.text] \in Meaning
    BY <1>2, <1>6 DEF Meaning
  <2> QED BY <1>2, <1>6, <2>1, <2>3
<1>7. CASE o.op = "append" /\ o.text \in Texts
  <2>1. MystrMeans(r, o) = [known |-> r.known, text |-> r.text \o o.text] /\ MystrAsks(o) = Len(o.text)
    BY <1>7 DEF MystrMeans, MystrAsks
  <2>2. r.text \o o.text \in Seq(Char)
    BY <1>1, <1>2, <1>7, Joined
  <2>3. [known |-> r.known, text |-> r.text \o o.text] \in Meaning
    BY <1>1, <2>2 DEF Meaning
  <2> QED BY <1>2, <1>7, <2>1, <2>3
<1>8. CASE o.op = "trunc" /\ o.n \in 0 .. Word - 1
  <2> DEFINE part == SubSeq(r.text, 1, Smaller(o.n, Len(r.text)))
  <2>1. MystrMeans(r, o) = [known |-> r.known /\ o.n <= Len(r.text), text |-> part] /\ MystrAsks(o) = 0
    BY <1>8 DEF MystrMeans, MystrAsks
  <2>2. part \in Seq(Char) /\ (r.known /\ o.n <= Len(r.text)) \in BOOLEAN
    BY <1>1, <1>3, <1>4, <1>5, <1>8
  <2>3. [known |-> r.known /\ o.n <= Len(r.text), text |-> part] \in Meaning
    BY <2>2 DEF Meaning
  <2> QED BY <1>3, <2>1, <2>3
<1>9. CASE o.op = "reserve" /\ o.n \in 0 .. Word - 1
  <2>1. MystrMeans(r, o) = [known |-> r.known /\ o.n >= Len(r.text), text |-> r.text] /\ MystrAsks(o) = o.n
    BY <1>9 DEF MystrMeans, MystrAsks
  <2>2. (r.known /\ o.n >= Len(r.text)) \in BOOLEAN
    OBVIOUS
  <2>3. [known |-> r.known /\ o.n >= Len(r.text), text |-> r.text] \in Meaning
    BY <1>1, <2>2 DEF Meaning
  <2> QED BY <1>3, <1>9, <2>1, <2>3
<1>10. CASE o.op \in {"empty", "free"}
  <2>1. MystrMeans(r, o) = Nothing /\ MystrAsks(o) = 0
    BY <1>10 DEF MystrMeans, MystrAsks, Nothing
  <2> QED BY <1>3, <2>1, NothingMeant
<1>11. CASE o.op = "read" /\ o.text \in Texts /\ o.n \in 0 .. Word - 1
  <2>1. MystrMeans(r, o) = [known |-> o.n = Len(o.text), text |-> o.text] /\ MystrAsks(o) = o.n
    BY <1>11 DEF MystrMeans, MystrAsks
  <2>2. (o.n = Len(o.text)) \in BOOLEAN
    OBVIOUS
  <2>3. [known |-> o.n = Len(o.text), text |-> o.text] \in Meaning
    BY <1>2, <1>11, <2>2 DEF Meaning
  <2> QED BY <1>3, <1>11, <2>1, <2>3
<1>12. CASE o.op = "ssl_read" /\ o.text \in Texts /\ o.ok \in BOOLEAN
  <2> DEFINE part == SubSeq(o.text, 1, Smaller(Len(o.text), Len(r.text)))
  <2>1. MystrMeans(r, o) = (IF o.ok THEN [known |-> r.known, text |-> part] ELSE Nothing) /\ MystrAsks(o) = 0
    BY <1>12 DEF MystrMeans, MystrAsks, Nothing
  <2>2. part \in Seq(Char)
    BY <1>1, <1>2, <1>4, <1>5, <1>12
  <2>3. [known |-> r.known, text |-> part] \in Meaning
    BY <1>1, <2>2 DEF Meaning
  <2> QED BY <1>3, <2>1, <2>3, NothingMeant
<1> QED BY <1>6, <1>7, <1>8, <1>9, <1>10, <1>11, <1>12, OperationForms

\* A step of any operation keeps the invariant.
LEMMA HeldStep ==
  ASSUME NEW s, NEW r, NEW n, NEW c, Held(s, r, n, c), NEW o \in Operation,
         NEW d, d = (c \/ o.op = "trunc")
  PROVE  Held(MystrStep(s, o), MystrMeans(r, o), n + MystrAsks(o), d)
<1>1. r \in Meaning /\ n \in Nat /\ n >= 1 /\ c \in BOOLEAN /\ d \in BOOLEAN
  BY DEF Held
<1>2. CASE Dead(s) /\ (n > IntMax \/ c)
  <2>1. MystrStep(s, o) = s
    BY <1>2 DEF MystrStep, Dead
  <2>2. MystrMeans(r, o) \in Meaning /\ MystrAsks(o) \in Nat
    BY <1>1, MeansText
  <2>3. n + MystrAsks(o) \in Nat /\ n + MystrAsks(o) >= 1 /\ (n > IntMax => n + MystrAsks(o) > IntMax)
    BY SMT, <1>1, <2>2, WordFacts
  <2>4. c => d
    OBVIOUS
  <2> QED BY <1>1, <1>2, <2>1, <2>2, <2>3, <2>4 DEF Held
<1>3. CASE Working(s)
  <2>0. n + 0 = n /\ s.status = "ok"
    BY <1>3, HeldFacts DEF Working
  <2>1. CASE o.op = "alloc" /\ o.text \in Texts
    <3>1. /\ MystrStep(s, o) = private_str_alloc_memchunk(s, o.text)
          /\ MystrMeans(r, o) = [known |-> TRUE, text |-> o.text] /\ MystrAsks(o) = Len(o.text)
          /\ d = c
      BY <1>1, <2>0, <2>1 DEF MystrStep, MystrMeans, MystrAsks
    <3>2. Held(private_str_alloc_memchunk(s, o.text), [known |-> TRUE, text |-> o.text], n + Len(o.text), c)
      BY <1>3, <2>1, HeldAlloc
    <3> QED BY <3>1, <3>2
  <2>2. CASE o.op = "append" /\ o.text \in Texts
    <3>1. /\ MystrStep(s, o) = private_str_append_memchunk(s, o.text)
          /\ MystrMeans(r, o) = [known |-> r.known, text |-> r.text \o o.text] /\ MystrAsks(o) = Len(o.text)
          /\ d = c
      BY <1>1, <2>0, <2>2 DEF MystrStep, MystrMeans, MystrAsks
    <3>2. Held(private_str_append_memchunk(s, o.text), [known |-> r.known, text |-> r.text \o o.text],
               n + Len(o.text), c)
      BY <1>3, <2>2, HeldAppend
    <3> QED BY <3>1, <3>2
  <2>3. CASE o.op = "trunc" /\ o.n \in 0 .. Word - 1
    <3>1. /\ MystrStep(s, o) = str_trunc(s, o.n)
          /\ MystrMeans(r, o) = [known |-> r.known /\ o.n <= Len(r.text),
                                 text |-> SubSeq(r.text, 1, Smaller(o.n, Len(r.text)))]
          /\ MystrAsks(o) = 0
          /\ d = TRUE
      BY <1>1, <2>0, <2>3 DEF MystrStep, MystrMeans, MystrAsks
    <3>2. o.n \in Nat
      BY SMT, <2>3, WordFacts
    <3>3. Held(str_trunc(s, o.n),
               [known |-> r.known /\ o.n <= Len(r.text), text |-> SubSeq(r.text, 1, Smaller(o.n, Len(r.text)))],
               n, TRUE)
      BY <1>3, <3>2, HeldTrunc
    <3> QED BY <2>0, <3>1, <3>3
  <2>4. CASE o.op = "reserve" /\ o.n \in 0 .. Word - 1
    <3>1. /\ MystrStep(s, o) = str_reserve(s, o.n)
          /\ MystrMeans(r, o) = [known |-> r.known /\ o.n >= Len(r.text), text |-> r.text] /\ MystrAsks(o) = o.n
          /\ d = c
      BY <1>1, <2>0, <2>4 DEF MystrStep, MystrMeans, MystrAsks
    <3>2. Held(str_reserve(s, o.n), [known |-> r.known /\ o.n >= Len(r.text), text |-> r.text], n + o.n, c)
      BY <1>3, <2>4, HeldReserve
    <3> QED BY <3>1, <3>2
  <2>5. CASE o.op = "empty"
    <3>1. /\ MystrStep(s, o) = str_empty(s) /\ MystrMeans(r, o) = Nothing /\ MystrAsks(o) = 0
          /\ d = c
      BY <1>1, <2>0, <2>5 DEF MystrStep, MystrMeans, MystrAsks, Nothing
    <3>2. s.buf = <<>> => s.len = 0
      BY <1>3, HeldFacts
    <3>3. (Dead(str_empty(s)) /\ 1 > IntMax) \/ Filled(str_empty(s), 0, s, 0)
      BY <1>3, <3>2, EmptyEffect
    <3>4. Held(str_empty(s), Nothing, n, c)
      BY <1>3, <3>3, HeldNothing
    <3> QED BY <2>0, <3>1, <3>4
  <2>6. CASE o.op = "free"
    <3>1. /\ MystrStep(s, o) = str_free(s) /\ MystrMeans(r, o) = Nothing /\ MystrAsks(o) = 0
          /\ d = c
      BY <1>1, <2>0, <2>6 DEF MystrStep, MystrMeans, MystrAsks, Nothing
    <3>2. Held(str_free(s), Nothing, n, c)
      BY <1>1, <1>3, HeldFree
    <3> QED BY <2>0, <3>1, <3>2
  <2>7. CASE o.op = "read" /\ o.text \in Texts /\ o.n \in 0 .. Word - 1 /\ Len(o.text) <= o.n
    <3>1. /\ MystrStep(s, o) = str_netfd_read(s, o.text, o.n)
          /\ MystrMeans(r, o) = [known |-> o.n = Len(o.text), text |-> o.text] /\ MystrAsks(o) = o.n
          /\ d = c
      BY <1>1, <2>0, <2>7 DEF MystrStep, MystrMeans, MystrAsks
    <3>2. Held(str_netfd_read(s, o.text, o.n), [known |-> o.n = Len(o.text), text |-> o.text], n + o.n, c)
      BY <1>3, <2>7, HeldRead
    <3> QED BY <3>1, <3>2
  <2>8. CASE o.op = "ssl_read" /\ o.text \in Texts /\ o.ok \in BOOLEAN
    <3> DEFINE q == IF o.ok THEN [known |-> r.known, text |-> SubSeq(o.text, 1, Smaller(Len(o.text), Len(r.text)))]
                    ELSE Nothing
    <3>1. /\ MystrStep(s, o) = ssl_read_into_str(s, o.text, o.ok) /\ MystrMeans(r, o) = q /\ MystrAsks(o) = 0
          /\ d = c
      BY <1>1, <2>0, <2>8 DEF MystrStep, MystrMeans, MystrAsks, Nothing
    <3>2. Held(ssl_read_into_str(s, o.text, o.ok), q, n, c)
      BY <1>3, <2>8, HeldSslRead
    <3> QED BY <2>0, <3>1, <3>2
  <2> QED BY <2>1, <2>2, <2>3, <2>4, <2>5, <2>6, <2>7, <2>8, OperationForms
<1> QED BY <1>2, <1>3 DEF Held

\* The life of a string: what it is, what it means, how many characters room was
\* asked for, and whether it was cut.
VARIABLES str, means, asked, trimmed
life == <<str, means, asked, trimmed>>

StrInit == str = EmptyMystr /\ means = Nothing /\ asked = 1 /\ trimmed = FALSE
StrNext ==
  \E o \in Operation :
    /\ str' = MystrStep(str, o) /\ means' = MystrMeans(means, o)
    /\ asked' = asked + MystrAsks(o) /\ trimmed' = (trimmed \/ o.op = "trunc")
StrSpec == StrInit /\ [][StrNext]_life

\* The inductive invariant.
LEMMA StrHeld == StrSpec => []Held(str, means, asked, trimmed)
<1>1. StrInit => Held(str, means, asked, trimmed)
  <2> SUFFICES ASSUME StrInit PROVE Held(EmptyMystr, Nothing, 1, FALSE)
    BY DEF StrInit
  <2>1. 1 \in Nat /\ 1 >= 1
    BY SMT
  <2>2. Working(EmptyMystr)
    BY EmptyWorks
  <2>3. str_free(EmptyMystr) = EmptyMystr
    BY DEF str_free, EmptyMystr
  <2>4. Held(str_free(EmptyMystr), Nothing, 1, FALSE)
    BY <2>1, <2>2, HeldFree
  <2> QED BY <2>3, <2>4
<1>2. Held(str, means, asked, trimmed) /\ [StrNext]_life => Held(str, means, asked, trimmed)'
  <2> SUFFICES ASSUME Held(str, means, asked, trimmed), [StrNext]_life PROVE Held(str', means', asked', trimmed')
    BY DEF Held, Dead, Working, Sound, Kept, Same
  <2>1. CASE StrNext
    <3>1. PICK o \in Operation : /\ str' = MystrStep(str, o) /\ means' = MystrMeans(means, o)
                                 /\ asked' = asked + MystrAsks(o) /\ trimmed' = (trimmed \/ o.op = "trunc")
      BY <2>1 DEF StrNext
    <3>2. Held(MystrStep(str, o), MystrMeans(means, o), asked + MystrAsks(o), trimmed')
      BY SMT, <3>1, HeldStep
    <3> QED BY <3>1, <3>2
  <2>2. CASE UNCHANGED life
    BY <2>2 DEF life
  <2> QED BY <2>1, <2>2
<1> QED BY <1>1, <1>2, PTL DEF StrSpec

\* No operation on a string writes outside its buffer; alloc_bytes is the size of
\* the buffer, and there is a zero at or behind the end of the string, after any
\* sequence of operations and for any sizes, those that wrap around included.
THEOREM StringsFit == StrSpec => []MystrFits(str)
<1>1. ASSUME Held(str, means, asked, trimmed) PROVE MystrFits(str)
  <2>1. CASE Dead(str)
    BY <2>1 DEF Dead, Sound, MystrFits
  <2>2. CASE Working(str) /\ Kept(str, asked)
    BY <2>2 DEF Working, Sound, Kept, MystrFits
  <2> QED BY <1>1, <2>1, <2>2 DEF Held
<1> QED BY <1>1, StrHeld, PTL

\* A string holds what the operations put there, as long as they say what that is.
THEOREM StringsTell == StrSpec => []MystrTells(str, means)
<1>1. ASSUME Held(str, means, asked, trimmed) PROVE MystrTells(str, means)
  <2>1. SUFFICES ASSUME str.status = "ok", means.known PROVE SubSeq(str.buf, 1, str.len) = means.text
    BY DEF MystrTells
  <2>2. Working(str) /\ Same(str, means)
    BY <1>1, <2>1 DEF Held, Dead
  <2>3. str.len <= str.alloc /\ str.len \in Nat /\ means \in Meaning
    BY <1>1, <2>2, HeldFacts
  <2>4. str.buf \in Seq(Char) /\ str.alloc = Len(str.buf) /\ means.text \in Seq(Char)
    BY <2>2, <2>3 DEF Working, Sound, Layout, Meaning
  <2>5. /\ SubSeq(str.buf, 1, str.len) \in Seq(Char) /\ Len(SubSeq(str.buf, 1, str.len)) = str.len
        /\ \A i \in 1 .. str.len : SubSeq(str.buf, 1, str.len)[i] = str.buf[i]
    BY SMT, <2>3, <2>4
  <2>6. Len(means.text) = str.len /\ \A i \in 1 .. str.len : str.buf[i] = means.text[i]
    BY <2>2 DEF Same
  <2> QED BY <2>4, <2>5, <2>6, SameSeq
<1> QED BY <1>1, StrHeld, PTL

\* The process gives up only if room for more than INT_MAX characters was asked
\* for, or if a caller cut the string.
THEOREM StringsDie == StrSpec => []MystrDies(str, asked, trimmed)
<1>1. ASSUME Held(str, means, asked, trimmed) PROVE MystrDies(str, asked, trimmed)
  BY <1>1 DEF Held, Working, MystrDies
<1> QED BY <1>1, StrHeld, PTL

=============================================================================
