----------------------------- MODULE TlsProofs -----------------------------
(***************************************************************************)
(* Session and slave for every set of configurations and every length of a *)
(* transfer: what lies on the socket pair between them (Channel), where    *)
(* the session is in its command (Course), and what the TLS connection and *)
(* the transfer have come to (Connection, Transfer).                       *)
(***************************************************************************)
EXTENDS Tls, SequenceTheorems, TLAPS

\* The steps are about sets and functions, save where arithmetic is named SMT.
USE ZenonT(60)

-----------------------------------------------------------------------------
(* The socket pair.                                                        *)

\* The kind of the one item that may follow the command.
Arg(o) ==
  IF o \in {"resp", "write"} THEN "str" ELSE IF o = "read" THEN "int"
  ELSE IF o = "shake" THEN "fd" ELSE "none"

Quiet == op = "none" /\ up = <<>> /\ down = <<>> /\ doing = "none" /\ need = <<>> /\ slave \notin {"args", "do"}

\* The request has been sent, has been read but for its argument, is being
\* done, has been answered.
Sent ==
  /\ op \in Ops /\ Routed(op) /\ slave \in {"cmd", "over"}
  /\ up = IF Arg(op) = "none" THEN <<Tok("cmd", op)>> ELSE <<Tok("cmd", op), Tok(Arg(op), op)>>
  /\ down = <<>> /\ doing = "none" /\ need = <<>>
HalfRead ==
  /\ op \in Ops /\ Routed(op) /\ slave \in {"args", "over"}
  /\ Arg(op) # "none" /\ up = <<Tok(Arg(op), op)>> /\ need = <<Arg(op)>>
  /\ down = <<>> /\ doing = op
Doing ==
  /\ op \in Ops /\ slave # "args"
  /\ up = <<>> /\ down = <<>> /\ doing = op /\ need = <<>>
Replied ==
  /\ op \in Ops /\ slave \notin {"args", "do"}
  /\ up = <<>> /\ doing = "none" /\ need = <<>>
  /\ \E v \in Answers(op) : down = Reply(op, v)

Channel == Quiet \/ Sent \/ HalfRead \/ Doing \/ Replied

-----------------------------------------------------------------------------
(* The session.                                                            *)

Types ==
  /\ conf \in Confs
  /\ control_use_ssl \in BOOLEAN /\ data_use_ssl \in BOOLEAN /\ data_fd \in BOOLEAN
  /\ fd_s \in BOOLEAN /\ p_data_ssl \in BOOLEAN /\ vetted \in BOOLEAN /\ ended \in BOOLEAN
  /\ data_timeout \in BOOLEAN /\ idle_timeout \in BOOLEAN
  /\ control_cert \in Certs
  /\ sess \in {"prelogin", "cmd", "mark", "shake", "sorry", "recv", "send", "close", "tell", "bye", "over"}
  /\ slave \in {"none", "cmd", "args", "do", "over"}
  /\ sock \in {"none", "open", "shut"} /\ peer \in {"open", "notify", "cut"}
  /\ left \in 0 .. MaxChunks /\ kind \in {"recv", "send"}
  /\ result \in {"none", "ok", "fail", "refused"} /\ moved \subseteq {"clear", "tls"}
  /\ parent \in {"none", "up", "over"}

\* The request it waits for, unless it is over, and the data connection.
Course ==
  /\ op # "none" => \/ sess = "over"
                    \/ op = "getcmd" /\ sess = "cmd"
                    \/ op = "resp" /\ sess \in {"mark", "sorry", "bye", "tell"}
                    \/ op = "shake" /\ sess = "shake"
                    \/ op = "read" /\ sess = "recv"
                    \/ op = "write" /\ sess = "send"
                    \/ op = "close" /\ sess = "close"
  /\ sess \in {"prelogin", "cmd", "tell"} => ~data_fd
  /\ sess \in {"mark", "shake", "sorry", "recv", "send", "close"} => data_fd
  /\ sess = "shake" => data_use_ssl
  /\ sess \in {"recv", "send"} => kind = sess
  /\ sess \in {"mark", "shake", "recv", "send"} => result = "none"
  /\ sess = "sorry" => result = "refused"
  /\ sess = "send" /\ op = "write" /\ down = <<>> => left > 0
  /\ sess = "prelogin" => slave = "none"

\* The TLS connection there is, in both processes.
Connection ==
  /\ bug = FALSE
  /\ fd_s = (p_data_ssl /\ ssl_slave_active)
  /\ p_data_ssl => data_use_ssl /\ vetted /\ sess \in {"shake", "recv", "send", "close", "over"}
  /\ p_data_ssl /\ sess = "shake" => op = "shake" /\ doing = "none" /\ up = <<>>
  /\ op = "shake" /\ sess = "shake" /\ down # <<>> => p_data_ssl = (Head(down).v = "ok")
  /\ data_use_ssl /\ sess \in {"recv", "send"} => p_data_ssl
  /\ op = "close" /\ down # <<>> => ~p_data_ssl

\* What went over it, and what may be said of it.
Transfer ==
  /\ data_use_ssl => control_use_ssl
  /\ data_fd => moved \subseteq {Medium}
  /\ sess \in {"mark", "shake"} => moved = {}
  /\ "tls" \in moved => vetted
  /\ "clear" \in moved => ~conf.force
  /\ data_fd /\ conf.force => data_use_ssl
  /\ op = "read" /\ down # <<>> /\ Head(down).v = "eof" /\ data_use_ssl /\ conf.strict_read => peer = "notify"
  /\ sess \in {"close", "tell"} /\ result = "ok" =>
       /\ kind = "send" => left = 0
       /\ data_use_ssl /\ kind = "recv" /\ conf.strict_read => peer = "notify"
  /\ sess = "close" /\ result = "ok" /\ data_use_ssl =>
       \/ p_data_ssl
       \/ op = "close" /\ down # <<>> /\ (conf.strict_write /\ Head(down).v = "ok" => ended)
  /\ sess = "tell" /\ result = "ok" =>
       ~data_timeout /\ (data_use_ssl /\ conf.strict_write => ended)

IInv == Types /\ Channel /\ Course /\ Connection /\ Transfer

-----------------------------------------------------------------------------
(* What is written and read.                                               *)

LEMMA Joins ==
  ASSUME NEW a, NEW b
  PROVE  /\ <<a>> \o <<b>> = <<a, b>> /\ <<a>> \o <<>> = <<a>>
         /\ <<>> \o <<a>> = <<a>> /\ <<>> \o <<a, b>> = <<a, b>>
<1> DEFINE S == {a, b}
<1>1. <<a>> \in Seq(S) /\ <<b>> \in Seq(S) /\ <<a, b>> \in Seq(S) /\ <<>> \in Seq(S)
  BY SMT
<1> HIDE DEF S
<1>2. /\ <<a>> \o <<>> = <<a>> /\ <<>> \o <<a>> = <<a>> /\ <<>> \o <<a, b>> = <<a, b>>
  BY <1>1, ConcatEmptySeq
<1>3. <<a>> \o <<b>> = <<a, b>>
  <2>1. <<a>> \o <<b>> \in Seq(S) /\ Len(<<a>> \o <<b>>) = 2
    BY SMT, <1>1, ConcatProperties
  <2>2. (<<a>> \o <<b>>)[1] = a /\ (<<a>> \o <<b>>)[2] = b
    <3>1. \A i \in 1 .. Len(<<a>>) + Len(<<b>>) :
            (<<a>> \o <<b>>)[i] = IF i <= Len(<<a>>) THEN <<a>>[i] ELSE <<b>>[i - Len(<<a>>)]
      BY <1>1, ConcatProperties
    <3>2. Len(<<a>>) = 1 /\ Len(<<b>>) = 1
      OBVIOUS
    <3>. QED
      BY SMT, <3>1, <3>2
  <2>3. Len(<<a, b>>) = 2 /\ <<a, b>>[1] = a /\ <<a, b>>[2] = b
    OBVIOUS
  <2> DEFINE s == <<a>> \o <<b>>
             t == <<a, b>>
  <2>4. s \in Seq(S) /\ t \in Seq(S) /\ Len(s) = Len(t) /\ Len(s) = 2 /\ s[1] = t[1] /\ s[2] = t[2]
    BY <1>1, <2>1, <2>2, <2>3
  <2> HIDE DEF s, t
  <2>5. \A i \in 1 .. Len(s) : s[i] = t[i]
    BY SMT, <2>4
  <2>6. s = t
    BY <2>4, <2>5, SeqEqual
  <2>. QED
    BY <2>6 DEF s, t
<1>. QED
  BY <1>2, <1>3

\* The answer, and what the session reads as one, have the same shape.
LEMMA ReplyShape ==
  ASSUME NEW o \in Ops, NEW v \in Answers(o)
  PROVE  /\ Reply(o, v) # <<>> /\ Head(Reply(o, v)).v = v
         /\ Len(Reply(o, v)) \in 1 .. 2 /\ <<>> \o Reply(o, v) = Reply(o, v)
         /\ Len(Expected(o, v)) = Len(Reply(o, v))
         /\ SubSeq(Reply(o, v), Len(Expected(o, v)) + 1, Len(Reply(o, v))) = <<>>
         /\ Kinds(Reply(o, v)) = Expected(o, v)
<1> DEFINE two == o = "read" \/ (o = "getcmd" /\ v # "long")
           k == IF o \in {"shake", "close"} THEN "res" ELSE "int"
<1>1. Reply(o, v) = <<Tok(k, v)>> \o (IF two THEN <<Tok("str", v)>> ELSE <<>>)
  BY DEF Reply
<1>2. CASE two
  <2>1. k = "int"
    BY <1>2
  <2>2. Reply(o, v) = <<Tok("int", v), Tok("str", v)>>
    BY <1>1, <1>2, <2>1, Joins
  <2>3. Expected(o, v) = <<"int", "str">>
    <3>1. CASE o = "read"
      BY <3>1 DEF Expected
    <3>2. CASE o = "getcmd" /\ v # "long"
      BY <3>2 DEF Expected
    <3>. QED
      BY <1>2, <3>1, <3>2
  <2>. QED
    BY SMT, <2>2, <2>3, Joins DEF Kinds, Tok
<1>3. CASE ~two
  <2>1. Reply(o, v) = <<Tok(k, v)>>
    BY <1>1, <1>3, Joins
  <2>2. Expected(o, v) = <<k>>
    <3>1. CASE o \in {"shake", "close"}
      BY <3>1 DEF Expected
    <3>2. CASE o = "getcmd" /\ v = "long"
      BY <3>2 DEF Expected
    <3>3. CASE o \in {"resp", "write"}
      BY <3>3 DEF Expected
    <3>. QED
      BY <1>3, <3>1, <3>2, <3>3 DEF Ops
  <2> HIDE DEF k
  <2>. QED
    BY SMT, <2>1, <2>2, Joins DEF Kinds, Tok
<1>. QED
  BY <1>2, <1>3

LEMMA RequestShape ==
  ASSUME NEW o \in Ops
  PROVE  /\ Args(o) = IF Arg(o) = "none" THEN <<>> ELSE <<Tok(Arg(o), o)>>
         /\ <<>> \o <<Tok("cmd", o)>> \o Args(o)
              = IF Arg(o) = "none" THEN <<Tok("cmd", o)>> ELSE <<Tok("cmd", o), Tok(Arg(o), o)>>
         /\ [i \in 1 .. Len(Args(o)) |-> Args(o)[i].k] = IF Arg(o) = "none" THEN <<>> ELSE <<Arg(o)>>
<1>1. Args(o) = IF Arg(o) = "none" THEN <<>> ELSE <<Tok(Arg(o), o)>>
  <2>1. CASE o \in {"resp", "write"}
    <3>1. Args(o) = <<Tok("str", o)>>
      BY <2>1 DEF Args
    <3>. QED
      BY <2>1, <3>1 DEF Arg
  <2>2. CASE o = "read"
    <3>1. Args(o) = <<Tok("int", o)>>
      BY <2>2 DEF Args
    <3>. QED
      BY <2>2, <3>1 DEF Arg
  <2>3. CASE o = "shake"
    <3>1. Args(o) = <<Tok("fd", o)>>
      BY <2>3 DEF Args
    <3>. QED
      BY <2>3, <3>1 DEF Arg
  <2>4. CASE o \in {"getcmd", "close"}
    <3>1. Args(o) = <<>>
      BY <2>4 DEF Args
    <3>. QED
      BY <2>4, <3>1 DEF Arg
  <2>. QED
    BY <2>1, <2>2, <2>3, <2>4 DEF Ops
<1>2. CASE Arg(o) = "none"
  <2>1. Args(o) = <<>>
    BY <1>1, <1>2
  <2>. QED
    BY SMTT(30), <1>1, <1>2, <2>1, Joins
<1>3. CASE Arg(o) # "none"
  <2>1. Args(o) = <<Tok(Arg(o), o)>>
    BY <1>1, <1>3
  <2>2. [i \in 1 .. Len(Args(o)) |-> Args(o)[i].k] = <<Arg(o)>>
    BY SMT, <2>1 DEF Tok
  <2>3. <<>> \o <<Tok("cmd", o)>> \o Args(o) = <<Tok("cmd", o), Tok(Arg(o), o)>>
    BY <2>1, Joins
  <2>. QED
    BY <1>1, <1>3, <2>2, <2>3
<1>. QED
  BY <1>2, <1>3

\* The session asks.
LEMMA Asking ==
  ASSUME Types, Channel, NEW o \in Ops, op = "none", Ask(o), UNCHANGED data_use_ssl
  PROVE  Channel' /\ op' = o /\ down' = <<>> /\ UNCHANGED <<down, slave>>
<1>1. Quiet
  BY DEF Channel, Sent, HalfRead, Doing, Replied, Ops
<1>2. CASE Routed(o)
  <2>1. up' = up \o <<Tok("cmd", o)>> \o Args(o) /\ UNCHANGED <<doing, down, slave, need>> /\ op' = o
    BY <1>2 DEF Ask
  <2>2. up' = IF Arg(o) = "none" THEN <<Tok("cmd", o)>> ELSE <<Tok("cmd", o), Tok(Arg(o), o)>>
    BY <1>1, <2>1, RequestShape DEF Quiet
  <2>3. slave \in {"cmd", "over"} /\ Routed(o)'
    BY <1>1, <1>2, <2>1 DEF Types, Quiet, Routed, ssl_slave_active
  <2>. QED
    BY <1>1, <2>1, <2>2, <2>3 DEF Quiet, Channel, Sent, Routed
<1>3. CASE ~Routed(o)
  <2>1. doing' = o /\ UNCHANGED <<up, down, slave, need>> /\ op' = o
    BY <1>3 DEF Ask
  <2>. QED
    BY <1>1, <2>1 DEF Quiet, Channel, Doing
<1>. QED
  BY <1>2, <1>3

\* Who is in the call is the one the session waits for, and has read all.
LEMMA Calling ==
  ASSUME Channel, NEW o \in Ops, InCall(o)
  PROVE  Doing /\ op = o
<1>1. doing = o /\ (Routed(o) => slave = "do")
  BY DEF InCall
<1>. QED
  BY <1>1 DEF Channel, Quiet, Sent, HalfRead, Replied, Doing, Ops

\* The answer is put on the socket pair.
LEMMA Answering ==
  ASSUME Types, Doing, NEW v \in Answers(op), Answer(v), op' = op
  PROVE  /\ Channel' /\ down' = Reply(op, v) /\ down' # <<>> /\ Head(down').v = v
         /\ up' = <<>> /\ doing' = "none"
         /\ slave' \in {"none", "cmd", "over"} /\ ssl_slave_active' = ssl_slave_active
<1>1. down' = <<>> \o Reply(op, v) /\ up' = <<>> /\ doing' = "none" /\ need' = <<>> /\ op \in Ops
  BY DEF Doing, Answer
<1>2. down' = Reply(op, v)
  BY <1>1, ReplyShape
<1>3. slave' = (IF slave = "do" THEN "cmd" ELSE slave) /\ slave \in {"none", "cmd", "do", "over"}
  BY DEF Types, Doing, Answer
<1>4. down' # <<>> /\ Head(down').v = v
  BY <1>1, <1>2, ReplyShape
<1>. QED
  BY <1>1, <1>2, <1>3, <1>4 DEF Channel, Replied, ssl_slave_active

\* The answer has been read.
LEMMA Getting ==
  ASSUME Channel, NEW o \in Ops, NEW v, Got(o, v)
  PROVE  /\ Channel' /\ op = o /\ v \in Answers(o) /\ up = <<>> /\ doing = "none" /\ down # <<>> /\ Head(down).v = v
         /\ op' = "none" /\ down' = <<>> /\ up' = <<>> /\ doing' = "none" /\ UNCHANGED slave
<1>1. /\ op = o /\ down # <<>> /\ v = Head(down).v /\ op' = "none"
      /\ down' = SubSeq(down, Len(Expected(o, v)) + 1, Len(down)) /\ UNCHANGED <<up, slave, doing, need>>
  BY DEF Got, server
<1>2. Replied
  BY <1>1 DEF Channel, Quiet, Sent, HalfRead, Doing
<1>3. PICK w \in Answers(o) : down = Reply(o, w)
  BY <1>1, <1>2 DEF Replied
<1>4. w = v
  BY <1>1, <1>3, ReplyShape
<1>5. down' = <<>>
  BY <1>1, <1>3, <1>4, ReplyShape
<1>. QED
  BY <1>1, <1>2, <1>3, <1>4, <1>5 DEF Replied, Channel, Quiet

\* Nothing is asked, read or answered; at most the slave ends.
LEMMA ChannelKept ==
  ASSUME Channel, UNCHANGED <<op, up, down, doing, need, data_use_ssl>>,
         slave' = slave \/ (slave # "none" /\ slave' = "over")
  PROVE  Channel' /\ ssl_slave_active' = ssl_slave_active
<1>1. slave' = "none" <=> slave = "none"
  OBVIOUS
<1>. QED
  BY <1>1 DEF Channel, Quiet, Sent, HalfRead, Doing, Replied, Routed, ssl_slave_active

-----------------------------------------------------------------------------
(* The steps.                                                              *)

LEMMA TlsInit == Init => IInv
<1> SUFFICES ASSUME Init PROVE IInv
  OBVIOUS
<1>1. 0 \in 0 .. MaxChunks
  BY SMTT(30), TlsAssumption
<1>2. Types
  BY <1>1 DEF Init, Types, Certs
<1>. QED
  BY <1>2 DEF Init, IInv, Channel, Quiet, Course, Connection, Transfer, Medium

LEMMA LoginNext == IInv /\ PreLogin => IInv'
<1> SUFFICES ASSUME IInv, PreLogin PROVE IInv'
  OBVIOUS
<1>t. Types /\ Channel /\ Course /\ Connection /\ Transfer
  BY DEF IInv
<1> USE DEF flags, channel, server, tls, line, timeouts, outcome
<1>0. sess = "prelogin" /\ op = "none" /\ slave = "none" /\ ~data_fd /\ ~p_data_ssl
  <2>1. sess = "prelogin"
    BY DEF PreLogin, handle_auth, handle_prot, Login
  <2>. QED
    BY <1>t, <2>1 DEF Course, Connection
<1>1. Quiet
  BY <1>t, <1>0 DEF Channel, Sent, HalfRead, Doing, Replied, Ops
<1>2. ASSUME NEW arg \in {"TLS", "SSL"}, NEW cert \in Certs, handle_auth(arg, cert) PROVE IInv'
  <2>1. /\ control_use_ssl' = TRUE /\ control_cert' \in Certs /\ data_use_ssl' \in BOOLEAN
        /\ UNCHANGED <<conf, sess, op, channel, server, data_fd, tls, line, outcome, timeouts, parent, bug>>
    BY <1>2 DEF handle_auth
  <2>. QED
    <3>1. Types'
      BY SMT, <1>t, <1>0, <2>1 DEF Types
    <3>2. Channel'
      BY <1>1, <2>1 DEF Channel, Quiet
    <3>3. Course'
      BY <1>t, <1>0, <2>1 DEF Course
    <3>4. Connection'
      BY <1>t, <1>0, <1>1, <2>1 DEF Connection, Quiet, ssl_slave_active
    <3>5. Transfer'
      BY <1>t, <1>0, <1>1, <2>1 DEF Transfer, Quiet
    <3>. QED
      BY <3>1, <3>2, <3>3, <3>4, <3>5 DEF IInv
<1>3. ASSUME handle_prot PROVE IInv'
  <2>1. /\ UNCHANGED <<control_use_ssl, control_cert>> /\ data_use_ssl' \in BOOLEAN
        /\ data_use_ssl' => control_use_ssl
        /\ UNCHANGED <<conf, sess, op, channel, server, data_fd, tls, line, outcome, timeouts, parent, bug>>
    BY <1>3, <1>t DEF handle_prot, prot, Types, Transfer
  <2>. QED
    <3>1. Types'
      BY SMT, <1>t, <1>0, <2>1 DEF Types
    <3>2. Channel'
      BY <1>1, <2>1 DEF Channel, Quiet
    <3>3. Course'
      BY <1>t, <1>0, <2>1 DEF Course
    <3>4. Connection'
      BY <1>t, <1>0, <1>1, <2>1 DEF Connection, Quiet, ssl_slave_active
    <3>5. Transfer'
      BY <1>t, <1>0, <1>1, <2>1 DEF Transfer, Quiet
    <3>. QED
      BY <3>1, <3>2, <3>3, <3>4, <3>5 DEF IInv
<1>4. ASSUME Login PROVE IInv'
  <2>1. /\ sess' = "cmd" /\ slave' \in {"cmd", "none"}
        /\ UNCHANGED <<flags, op, channel, doing, need, data_fd, tls, line, outcome, timeouts, parent, bug>>
    BY <1>4 DEF Login
  <2>. QED
    <3>1. Types'
      BY SMT, <1>t, <1>0, <2>1 DEF Types
    <3>2. Channel'
      BY <1>1, <2>1 DEF Channel, Quiet
    <3>3. Course'
      BY <1>t, <1>0, <2>1 DEF Course
    <3>4. Connection'
      BY <1>t, <1>0, <1>1, <2>1 DEF Connection, Quiet, ssl_slave_active
    <3>5. Transfer'
      BY <1>t, <1>0, <1>1, <2>1 DEF Transfer, Quiet, Medium
    <3>. QED
      BY <3>1, <3>2, <3>3, <3>4, <3>5 DEF IInv
<1>. QED
  BY <1>2, <1>3, <1>4 DEF PreLogin

\* What the session asks for at each of its steps.
AskedAt(a, o) ==
  \/ a = "cmd" /\ o = "getcmd"
  \/ a \in {"mark", "sorry", "bye", "tell"} /\ o = "resp"
  \/ a = "shake" /\ o = "shake"
  \/ a = "recv" /\ o = "read"
  \/ a = "send" /\ o = "write" /\ left > 0
  \/ a = "close" /\ o = "close"

LEMMA AsksNext ==
  ASSUME IInv, NEW a, NEW o, AskedAt(a, o), Asks(a, o)
  PROVE  IInv'
<1>t. Types /\ Channel /\ Course /\ Connection /\ Transfer
  BY DEF IInv
<1> USE DEF flags, channel, server, tls, line, timeouts, outcome
<1>1. /\ sess = a /\ op = "none" /\ Ask(o) /\ o \in Ops
      /\ UNCHANGED <<flags, sess, data_fd, tls, line, outcome, timeouts, parent, bug>>
  BY DEF Asks, AskedAt, Ops
<1>2. Channel' /\ op' = o /\ down' = <<>> /\ UNCHANGED slave
  BY <1>t, <1>1, Asking
<1>3. Types'
  BY SMTT(30), <1>t, <1>1, <1>2 DEF Types
<1>4. Course'
  BY <1>t, <1>1, <1>2 DEF Course, AskedAt
<1>5. Connection'
  BY <1>t, <1>1, <1>2 DEF Connection, ssl_slave_active
<1>6. Transfer'
  BY SMTT(30), <1>t, <1>1, <1>2 DEF Transfer, Medium
<1>. QED
  BY <1>2, <1>3, <1>4, <1>5, <1>6 DEF IInv

LEMMA SlaveNext == IInv /\ SlaveStep => IInv'
<1> SUFFICES ASSUME IInv, SlaveStep PROVE IInv'
  OBVIOUS
<1>t. Types /\ Channel /\ Course /\ Connection /\ Transfer
  BY DEF IInv
<1> USE DEF flags, channel, server, tls, line, timeouts, outcome
<1>0. /\ up # <<>> /\ slave \in {"cmd", "args"} /\ slave' \in {"do", "args"}
      /\ UNCHANGED <<flags, sess, op, down, data_fd, tls, line, outcome, timeouts, parent, bug>>
  BY DEF SlaveStep, SlaveCmd, SlaveArg
<1>1. down = <<>> /\ op \in Ops
  BY <1>t, <1>0 DEF Channel, Quiet, Sent, HalfRead, Doing, Replied
<1>2. Channel'
  <2>1. CASE SlaveCmd
    <3>1. Sent
      BY <1>t, <2>1 DEF SlaveCmd, Channel, Quiet, HalfRead, Doing, Replied
    <3>2. Head(up) = Tok("cmd", op) /\ Tail(up) = IF Arg(op) = "none" THEN <<>> ELSE <<Tok(Arg(op), op)>>
      BY SMTT(30), <3>1 DEF Sent
    <3>3. doing' = op /\ up' = Tail(up)
      BY SMTT(30), <2>1, <3>2 DEF SlaveCmd, Tok
    <3>4. need' = IF Arg(op) = "none" THEN <<>> ELSE <<Arg(op)>>
      BY <1>1, <2>1, <3>3, RequestShape DEF SlaveCmd
    <3>5. slave' = IF Arg(op) = "none" THEN "do" ELSE "args"
      BY SMTT(30), <2>1, <3>4 DEF SlaveCmd
    <3>. QED
      BY <1>0, <1>1, <3>1, <3>2, <3>3, <3>4, <3>5 DEF Channel, Sent, HalfRead, Doing, Routed, ssl_slave_active
  <2>2. CASE SlaveArg
    <3>1. HalfRead
      BY <1>t, <2>2 DEF SlaveArg, Channel, Quiet, Sent, Doing, Replied
    <3>2. Tail(up) = <<>> /\ Tail(need) = <<>>
      BY SMTT(30), <3>1 DEF HalfRead
    <3>. QED
      BY <1>0, <1>1, <2>2, <3>1, <3>2 DEF SlaveArg, Channel, HalfRead, Doing
  <2>. QED
    BY <2>1, <2>2 DEF SlaveStep
<1>3. Types' /\ Course'
  BY SMTT(30), <1>t, <1>0, <1>1 DEF Types, Course
<1>4. Connection'
  <2>1. ~(p_data_ssl /\ sess = "shake")
    BY <1>t, <1>0 DEF Connection
  <2>. QED
    BY <1>t, <1>0, <1>1, <2>1 DEF Connection, ssl_slave_active
<1>5. Transfer'
  BY SMTT(30), <1>t, <1>0, <1>1 DEF Transfer, Medium
<1>. QED
  BY <1>2, <1>3, <1>4, <1>5 DEF IInv

\* The control connection: a line, the end of it, a reply written.
LEMMA ControlNext == IInv /\ (GetLine \/ GetLineShut \/ WriteStr) => IInv'
<1> SUFFICES ASSUME IInv, GetLine \/ GetLineShut \/ WriteStr PROVE IInv'
  OBVIOUS
<1>t. Types /\ Channel /\ Course /\ Connection /\ Transfer
  BY DEF IInv
<1> USE DEF flags, channel, server, tls, line, timeouts, outcome
<1>0. /\ (InCall("getcmd") \/ InCall("resp")) /\ UNCHANGED <<flags, op, data_fd, tls, line, outcome, timeouts, parent, bug>>
      /\ \/ Dies
         \/ InCall("getcmd") /\ (\E v \in Lines \cup {"long", "gone"} : Answer(v)) /\ UNCHANGED sess
         \/ InCall("resp") /\ Answer("ok") /\ UNCHANGED sess
  BY DEF GetLine, GetLineShut, WriteStr
<1>1. Doing /\ op \in {"getcmd", "resp"} /\ op \in Ops
  BY <1>t, <1>0, Calling DEF Ops
<1>2. ASSUME Dies PROVE IInv'
  <2>1. /\ UNCHANGED <<up, down, doing, need>>
        /\ slave' = slave \/ (slave # "none" /\ slave' = "over")
        /\ sess' = sess \/ sess' = "over"
    BY <1>2 DEF Dies
  <2>2. Channel' /\ ssl_slave_active' = ssl_slave_active
    BY <1>t, <1>0, <2>1, ChannelKept
  <2>3. Types' /\ Course'
    <3>1. Types'
      BY SMT, <1>t, <1>0, <1>1, <2>1 DEF Types
    <3>2. Course'
      BY <1>t, <1>0, <1>1, <2>1 DEF Course
    <3>. QED
      BY <3>1, <3>2
  <2>4. Connection' /\ Transfer'
    BY SMT, <1>t, <1>0, <1>1, <2>1, <2>2 DEF Connection, Transfer, Medium
  <2>. QED
    BY <2>2, <2>3, <2>4 DEF IInv
<1>3. ASSUME NEW v \in Answers(op), Answer(v), UNCHANGED sess PROVE IInv'
  <2>1. Channel' /\ down' # <<>> /\ slave' \in {"none", "cmd", "over"} /\ ssl_slave_active' = ssl_slave_active
    BY <1>t, <1>0, <1>1, <1>3, Answering
  <2>2. Types'
    BY SMT, <1>t, <1>0, <1>3, <2>1 DEF Types
  <2>3. Course'
    <3>1. sess # "prelogin"
      BY <1>t, <1>1 DEF Course
    <3>. QED
      BY <1>t, <1>0, <1>1, <1>3, <2>1, <3>1 DEF Course
  <2>4. Connection' /\ Transfer'
    BY SMTT(30), <1>t, <1>0, <1>1, <1>3, <2>1 DEF Connection, Transfer, Medium
  <2>. QED
    BY <2>1, <2>2, <2>3, <2>4 DEF IInv
<1>4. ASSUME InCall("getcmd"), NEW v \in Lines \cup {"long", "gone"} PROVE v \in Answers(op)
  <2>1. op = "getcmd"
    BY <1>t, <1>4, Calling DEF Ops
  <2>. QED
    BY <1>4, <2>1 DEF Answers
<1>5. ASSUME InCall("resp") PROVE "ok" \in Answers(op)
  <2>1. op = "resp"
    BY <1>t, <1>5, Calling DEF Ops
  <2>. QED
    BY <2>1 DEF Answers
<1>. QED
  BY <1>0, <1>2, <1>3, <1>4, <1>5

\* The handshake of the data connection.
LEMMA HandshakeNext == IInv /\ Handshake => IInv'
<1> SUFFICES ASSUME IInv, Handshake PROVE IInv'
  OBVIOUS
<1>t. Types /\ Channel /\ Course /\ Connection /\ Transfer
  BY DEF IInv
<1> USE DEF flags, channel, server, tls, line, timeouts, outcome
<1>0. /\ InCall("shake")
      /\ UNCHANGED <<flags, sess, op, data_fd, line, kind, result, moved, ended, timeouts, parent>>
      /\ \E hand, reused \in BOOLEAN, c \in Certs : SslAccept(hand, reused, c)
  BY DEF Handshake, Certs
<1>1. Doing /\ op = "shake" /\ op \in Ops /\ sess # "over"
  BY <1>t, <1>0, Calling DEF Ops, InCall
<1>2. sess = "shake" /\ data_use_ssl /\ ~p_data_ssl /\ fd_s = FALSE /\ moved = {} /\ data_fd /\ bug = FALSE
  BY <1>t, <1>1 DEF Course, Connection, Transfer, Doing
<1>3. PICK hand \in BOOLEAN, reused \in BOOLEAN, c \in Certs : SslAccept(hand, reused, c)
  BY <1>0
<1> DEFINE ok == hand /\ (conf.require_reuse => reused) /\ CertOk(c)
<1>4. /\ bug' = (bug \/ fd_s \/ p_data_ssl) /\ p_data_ssl' = ok /\ fd_s' = (ok /\ ssl_slave_active)
      /\ vetted' = (ok /\ (conf.require_reuse => reused) /\ (control_cert # "none" => c = control_cert))
      /\ Answer(IF ok THEN "ok" ELSE "bad")
  BY <1>3 DEF SslAccept
<1>5. ok \in BOOLEAN /\ (ok => vetted' = TRUE) /\ vetted' \in BOOLEAN
  BY <1>4 DEF CertOk
<1> HIDE DEF ok
<1>6. bug' = FALSE
  BY <1>2, <1>4
<1>7. (IF ok THEN "ok" ELSE "bad") \in Answers(op)
  <2>1. Answers(op) = {"ok", "bad"}
    BY <1>1 DEF Answers
  <2>. QED
    BY <2>1
<1>8. /\ Channel' /\ down' # <<>> /\ up' = <<>> /\ doing' = "none" /\ Head(down').v = (IF ok THEN "ok" ELSE "bad")
      /\ slave' \in {"none", "cmd", "over"} /\ ssl_slave_active' = ssl_slave_active
  BY <1>t, <1>0, <1>1, <1>4, <1>7, Answering
<1>9. Types'
  BY SMTT(30), <1>t, <1>0, <1>4, <1>5, <1>8 DEF Types
<1>10. Course'
  BY <1>t, <1>0, <1>1, <1>2, <1>8 DEF Course
<1>11. Connection'
  <2>1. p_data_ssl' = (Head(down').v = "ok")
    BY <1>4, <1>5, <1>8
  <2>. QED
    BY <1>0, <1>1, <1>2, <1>4, <1>5, <1>6, <1>8, <2>1 DEF Connection
<1>12. Transfer'
  BY <1>t, <1>0, <1>1, <1>2, <1>8 DEF Transfer, Medium
<1>. QED
  BY <1>8, <1>9, <1>10, <1>11, <1>12 DEF IInv

\* A piece of the transfer, or the end of it.
LEMMA PieceNext == IInv /\ (ReadData \/ WriteData) => IInv'
<1> SUFFICES ASSUME IInv, ReadData \/ WriteData PROVE IInv'
  OBVIOUS
<1>t. Types /\ Channel /\ Course /\ Connection /\ Transfer
  BY DEF IInv
<1> USE DEF flags, channel, server, tls, line, timeouts, outcome
<1>0. /\ (InCall("read") /\ ReadData) \/ (InCall("write") /\ WriteData)
      /\ bug' = (bug \/ ~Ready)
      /\ UNCHANGED <<flags, sess, op, data_fd, tls, sock, peer, kind, result, vetted, ended, timeouts, parent>>
  BY DEF ReadData, WriteData
<1>1. Doing /\ op \in Ops /\ sess # "over" /\ ((op = "read" /\ ReadData) \/ (op = "write" /\ WriteData))
  BY <1>t, <1>0, Calling DEF Ops, InCall
<1>2. /\ sess \in {"recv", "send"} /\ (op = "read" => sess = "recv") /\ (op = "write" => sess = "send") /\ kind = sess
      /\ data_fd /\ (data_use_ssl => p_data_ssl) /\ bug = FALSE /\ (op = "write" => left > 0) /\ result = "none"
      /\ slave # "none" => fd_s = p_data_ssl
  BY <1>t, <1>1 DEF Course, Connection, Doing, ssl_slave_active, Types
<1>3. Ready
  BY <1>t, <1>2 DEF Ready, ssl_slave_active, Types
<1>4. bug' = FALSE
  BY <1>0, <1>2, <1>3
<1>5. \E v \in Answers(op) :
        /\ Answer(v)
        /\ v = "eof" /\ data_use_ssl /\ conf.strict_read => peer = "notify"
        /\ \/ left > 0 /\ left' = left - 1 /\ moved' = moved \cup {Medium}
           \/ UNCHANGED <<left, moved>>
  <2>1. CASE op = "read"
    <3>1. Answers(op) = {"data", "eof", "err"}
      BY <2>1 DEF Answers
    <3>2. Eof \in {"eof", "err"} /\ (Eof = "eof" /\ data_use_ssl /\ conf.strict_read => peer = "notify")
      BY DEF Eof
    <3>. QED
      BY <1>1, <2>1, <3>1, <3>2 DEF ReadData
  <2>2. CASE op = "write"
    <3>1. Answers(op) = {"ok", "err"}
      BY <2>2 DEF Answers
    <3>. QED
      BY <1>1, <1>2, <2>2, <3>1 DEF WriteData
  <2>. QED
    BY <1>1, <2>1, <2>2
<1>6. PICK v \in Answers(op) :
        /\ Answer(v)
        /\ v = "eof" /\ data_use_ssl /\ conf.strict_read => peer = "notify"
        /\ \/ left > 0 /\ left' = left - 1 /\ moved' = moved \cup {Medium}
           \/ UNCHANGED <<left, moved>>
  BY <1>5
<1>7. /\ Channel' /\ down' # <<>> /\ Head(down').v = v
      /\ slave' \in {"none", "cmd", "over"} /\ ssl_slave_active' = ssl_slave_active
  BY <1>t, <1>0, <1>1, <1>6, Answering
<1>8. Types'
  <2>1. left' \in 0 .. MaxChunks
    BY SMT, <1>t, <1>6, TlsAssumption DEF Types
  <2>2. moved' \subseteq {"clear", "tls"}
    BY <1>t, <1>6 DEF Types, Medium
  <2>. QED
    BY SMTT(30), <1>t, <1>0, <1>7, <2>1, <2>2 DEF Types
<1>9. Course'
  BY <1>t, <1>0, <1>1, <1>2, <1>7 DEF Course
<1>10. Connection'
  BY <1>t, <1>0, <1>1, <1>2, <1>4, <1>7 DEF Connection
<1>11. Transfer'
  <2>1. moved' \subseteq moved \cup {Medium} /\ Medium' = Medium
    BY <1>0, <1>6 DEF Medium
  <2>2. /\ "tls" \in moved' => vetted
        /\ "clear" \in moved' => ~conf.force
        /\ moved' \subseteq {Medium}
    BY <1>t, <1>2, <2>1 DEF Transfer, Medium, Connection
  <2>. QED
    BY <1>t, <1>0, <1>1, <1>2, <1>6, <1>7, <2>1, <2>2 DEF Transfer
<1>. QED
  BY <1>7, <1>8, <1>9, <1>10, <1>11 DEF IInv

\* The end of the TLS connection.
LEMMA CloseNext == IInv /\ Close => IInv'
<1> SUFFICES ASSUME IInv, Close PROVE IInv'
  OBVIOUS
<1>t. Types /\ Channel /\ Course /\ Connection /\ Transfer
  BY DEF IInv
<1> USE DEF flags, channel, server, tls, line, timeouts, outcome
<1>0. InCall("close") /\ UNCHANGED <<flags, sess, op, data_fd, line, kind, result, moved, vetted, timeouts, parent>>
  BY DEF Close
<1>1. Doing /\ op = "close" /\ op \in Ops /\ sess = "close" /\ bug = FALSE /\ data_fd
  <2>1. Doing /\ op = "close" /\ op \in Ops /\ sess # "over"
    BY <1>t, <1>0, Calling DEF Ops, InCall
  <2>. QED
    BY <1>t, <2>1 DEF Course, Connection
<1>2. \E v \in Answers(op) :
        /\ Answer(v) /\ p_data_ssl' = FALSE /\ fd_s' = FALSE /\ bug' = FALSE /\ ended' \in BOOLEAN
        /\ p_data_ssl /\ conf.strict_write /\ v = "ok" => ended'
  <2>1. Answers(op) = {"ok", "bad"}
    BY <1>1 DEF Answers
  <2>2. CASE ~fd_s /\ ~p_data_ssl
    <3>1. Answer("ok") /\ UNCHANGED <<p_data_ssl, fd_s, ended, bug>>
      BY <2>2 DEF Close
    <3>2. p_data_ssl = FALSE /\ fd_s = FALSE /\ ended \in BOOLEAN
      BY <1>t, <2>2 DEF Types
    <3>. QED
      BY <1>1, <2>1, <2>2, <3>1, <3>2
  <2>3. CASE ~(~fd_s /\ ~p_data_ssl)
    <3>1. /\ bug' = (bug \/ (ssl_slave_active /\ fd_s # p_data_ssl)) /\ fd_s' = FALSE /\ p_data_ssl' = FALSE
          /\ \/ ended' = TRUE /\ Answer("ok")
             \/ ended' = FALSE /\ Answer(IF conf.strict_write THEN "bad" ELSE "ok")
      BY <2>3 DEF Close, Release
    <3>2. ssl_slave_active => fd_s = p_data_ssl
      BY <1>t DEF Connection, Types
    <3>3. bug' = FALSE
      BY <1>1, <3>1, <3>2
    <3>4. CASE ended' = TRUE /\ Answer("ok")
      BY <2>1, <3>1, <3>3, <3>4
    <3>5. CASE ended' = FALSE /\ conf.strict_write /\ Answer("bad")
      <4>1. "bad" # "ok" /\ "bad" \in Answers(op) /\ ended' \in BOOLEAN
        BY <2>1, <3>5
      <4>. QED
        BY <3>1, <3>3, <3>5, <4>1
    <3>6. CASE ended' = FALSE /\ ~conf.strict_write /\ Answer("ok")
      BY <2>1, <3>1, <3>3, <3>6
    <3>. QED
      BY <3>1, <3>4, <3>5, <3>6
  <2>. QED
    BY <2>2, <2>3
<1>3. PICK v \in Answers(op) :
        /\ Answer(v) /\ p_data_ssl' = FALSE /\ fd_s' = FALSE /\ bug' = FALSE /\ ended' \in BOOLEAN
        /\ p_data_ssl /\ conf.strict_write /\ v = "ok" => ended'
  BY <1>2
<1>4. /\ Channel' /\ down' # <<>> /\ Head(down').v = v
      /\ slave' \in {"none", "cmd", "over"} /\ ssl_slave_active' = ssl_slave_active
  BY <1>t, <1>0, <1>1, <1>3, Answering
<1>5. Types'
  <2>1. p_data_ssl' \in BOOLEAN /\ fd_s' \in BOOLEAN /\ ended' \in BOOLEAN
    BY <1>3
  <2>. QED
    BY SMTT(30), <1>t, <1>0, <1>4, <2>1 DEF Types
<1>6. Course'
  BY <1>t, <1>0, <1>1, <1>4 DEF Course
<1>7. Connection'
  BY <1>t, <1>0, <1>1, <1>3, <1>4 DEF Connection
<1>8. Transfer'
  <2>1. result = "ok" /\ data_use_ssl => p_data_ssl
    BY <1>t, <1>1 DEF Transfer, Doing
  <2>. QED
    BY <1>t, <1>0, <1>1, <1>3, <1>4, <2>1 DEF Transfer, Medium
<1>. QED
  BY <1>4, <1>5, <1>6, <1>7, <1>8 DEF IInv

\* The session has a command.
LEMMA GotCmdNext == IInv /\ GotCmd => IInv'
<1> SUFFICES ASSUME IInv, GotCmd PROVE IInv'
  OBVIOUS
<1>t. Types /\ Channel /\ Course /\ Connection /\ Transfer
  BY DEF IInv
<1> USE DEF flags, channel, server, tls, line, timeouts, outcome
<1>0. PICK v \in Answers("getcmd") :
        /\ Got("getcmd", v)
        /\ result' = "none"
        /\ \/ /\ v \in {"protC", "protP"}
              /\ prot(v) /\ sess' = "tell"
              /\ UNCHANGED <<data_fd, line, kind, moved, vetted, ended>>
           \/ /\ v \in {"recv", "send"} /\ data_transfer_checks_ok
              /\ Connects(v) /\ UNCHANGED flags
           \/ /\ sess' \in {"tell", "over", "bye"}
              /\ UNCHANGED <<flags, data_fd, line, kind, moved, vetted, ended>>
  BY DEF GotCmd
<1>1. /\ op = "getcmd" /\ op' = "none" /\ down' = <<>> /\ up' = <<>> /\ doing' = "none" /\ UNCHANGED slave
      /\ sess # "over" /\ UNCHANGED <<tls, timeouts, parent, bug>> /\ Channel'
  BY <1>t, <1>0, Getting DEF Got, GotCmd, Ops
<1>2. sess = "cmd" /\ data_fd = FALSE /\ p_data_ssl = FALSE /\ fd_s = FALSE
  BY <1>t, <1>1 DEF Course, Connection, Types
<1>3. CASE /\ prot(v) /\ sess' = "tell"
           /\ UNCHANGED <<data_fd, line, kind, moved, vetted, ended>>
  <2>1. /\ UNCHANGED <<conf, control_use_ssl, control_cert>> /\ data_use_ssl' \in BOOLEAN
        /\ data_use_ssl' => control_use_ssl
    BY <1>3, <1>t DEF prot, Types, Transfer
  <2>2. Types' /\ Course'
    BY SMTT(30), <1>t, <1>0, <1>1, <1>2, <1>3, <2>1 DEF Types, Course
  <2>3. Connection' /\ Transfer'
    BY <1>t, <1>0, <1>1, <1>2, <1>3, <2>1 DEF Connection, Transfer, ssl_slave_active
  <2>. QED
    BY <1>1, <2>2, <2>3 DEF IInv
<1>4. CASE v \in {"recv", "send"} /\ data_transfer_checks_ok /\ Connects(v) /\ UNCHANGED flags
  <2>1. /\ data_fd' = TRUE /\ sock' = "open" /\ peer' = "open" /\ left' \in 0 .. MaxChunks
        /\ kind' = v /\ moved' = {} /\ vetted' = FALSE /\ ended' = FALSE /\ sess' = "mark"
        /\ UNCHANGED flags /\ (conf.force => data_use_ssl)
    BY <1>4 DEF Connects, data_transfer_checks_ok
  <2>2. Types'
    <3>1. data_fd' \in BOOLEAN /\ vetted' \in BOOLEAN /\ ended' \in BOOLEAN
      BY <2>1
    <3>. QED
      BY SMTT(30), <1>t, <1>0, <1>1, <1>4, <2>1, <3>1 DEF Types
  <2>3. Course'
    BY <1>t, <1>0, <1>1, <2>1 DEF Course
  <2>4. Connection'
    BY <1>t, <1>1, <1>2, <2>1 DEF Connection, ssl_slave_active
  <2>5. Transfer'
    BY <1>t, <1>0, <1>1, <1>2, <2>1 DEF Transfer
  <2>. QED
    BY <1>1, <2>2, <2>3, <2>4, <2>5 DEF IInv
<1>5. CASE /\ sess' \in {"tell", "over", "bye"}
           /\ UNCHANGED <<flags, data_fd, line, kind, moved, vetted, ended>>
  <2>1. Types' /\ Course'
    BY SMT, <1>t, <1>0, <1>1, <1>2, <1>5 DEF Types, Course
  <2>2. Connection' /\ Transfer'
    BY <1>t, <1>0, <1>1, <1>2, <1>5 DEF Connection, Transfer, ssl_slave_active
  <2>. QED
    BY <1>1, <2>1, <2>2 DEF IInv
<1>. QED
  BY <1>0, <1>3, <1>4, <1>5

LEMMA GotRespNext == IInv /\ GotResp => IInv'
<1> SUFFICES ASSUME IInv, GotResp PROVE IInv'
  OBVIOUS
<1>t. Types /\ Channel /\ Course /\ Connection /\ Transfer
  BY DEF IInv
<1> USE DEF flags, channel, server, tls, line, timeouts, outcome
<1>0. /\ Got("resp", "ok") /\ UNCHANGED <<flags, data_fd, tls, line, outcome, timeouts, parent, bug>>
      /\ sess = "mark" => sess' = IF data_use_ssl THEN "shake" ELSE kind
      /\ sess = "sorry" => sess' = "close"
      /\ sess = "bye" => sess' = "over"
      /\ sess \notin {"mark", "sorry", "bye"} => sess' = AfterCommand
  <2>1. CASE sess = "mark"
    BY <2>1 DEF GotResp
  <2>2. CASE sess = "sorry"
    BY <2>2 DEF GotResp
  <2>3. CASE sess = "bye"
    BY <2>3 DEF GotResp
  <2>4. CASE sess \notin {"mark", "sorry", "bye"}
    BY <2>4 DEF GotResp
  <2>. QED
    BY <2>1, <2>2, <2>3, <2>4
<1>1. /\ op = "resp" /\ op' = "none" /\ down' = <<>> /\ up' = <<>> /\ doing' = "none" /\ UNCHANGED slave
      /\ sess # "over" /\ Channel'
  BY <1>t, <1>0, Getting DEF Got, Ops
<1>2. sess \in {"mark", "sorry", "bye", "tell"} /\ p_data_ssl = FALSE /\ fd_s = FALSE
  BY <1>t, <1>1 DEF Course, Connection, Types
<1>3. sess = "tell" => sess' \in {"bye", "cmd"}
  BY <1>0 DEF AfterCommand
<1>4. Types'
  BY SMTT(30), <1>t, <1>0, <1>1, <1>2, <1>3 DEF Types
<1>5. Course'
  BY <1>t, <1>0, <1>1, <1>2, <1>3 DEF Course, Types
<1>6. Connection'
  BY <1>t, <1>0, <1>1, <1>2, <1>3 DEF Connection, ssl_slave_active, Types
<1>7. Transfer'
  BY <1>t, <1>0, <1>1, <1>2, <1>3 DEF Transfer, Medium, Course, Types
<1>. QED
  BY <1>1, <1>4, <1>5, <1>6, <1>7 DEF IInv

LEMMA GotShakeNext == IInv /\ GotShake => IInv'
<1> SUFFICES ASSUME IInv, GotShake PROVE IInv'
  OBVIOUS
<1>t. Types /\ Channel /\ Course /\ Connection /\ Transfer
  BY DEF IInv
<1> USE DEF flags, channel, server, tls, line, timeouts, outcome
<1>0. PICK v \in Answers("shake") :
       /\ Got("shake", v)
       /\ sess' = IF v = "ok" THEN kind ELSE IF conf.require_reuse THEN "bye" ELSE "sorry"
       /\ result' = IF v = "ok" THEN "none" ELSE "refused"
       /\ UNCHANGED <<flags, data_fd, tls, line, kind, moved, vetted, ended, timeouts, parent, bug>>
  BY DEF GotShake
<1>1. /\ op = "shake" /\ op' = "none" /\ down' = <<>> /\ up' = <<>> /\ doing' = "none" /\ UNCHANGED slave
      /\ sess # "over" /\ Channel' /\ down # <<>> /\ Head(down).v = v
  BY <1>t, <1>0, Getting DEF Got, Ops
<1>2. sess = "shake" /\ p_data_ssl = (v = "ok") /\ data_fd /\ data_use_ssl /\ moved = {}
  BY <1>t, <1>1 DEF Course, Connection, Types, Transfer
<1>3. /\ sess' \in {"recv", "send", "bye", "sorry"} /\ (sess' \in {"recv", "send"} => v = "ok" /\ kind = sess')
      /\ (sess' \in {"bye", "sorry"} => v # "ok")
  BY <1>t, <1>0 DEF Types
<1>4. Types'
  BY SMT, <1>t, <1>0, <1>1, <1>3 DEF Types
<1>5. Course'
  BY <1>t, <1>0, <1>1, <1>2, <1>3 DEF Course
<1>6. Connection'
  BY <1>t, <1>0, <1>1, <1>2, <1>3 DEF Connection, ssl_slave_active
<1>7. Transfer'
  BY <1>t, <1>0, <1>1, <1>2, <1>3 DEF Transfer, Medium
<1>. QED
  BY <1>1, <1>4, <1>5, <1>6, <1>7 DEF IInv

LEMMA GotDataNext == IInv /\ (GotData \/ SentAll) => IInv'
<1> SUFFICES ASSUME IInv, GotData \/ SentAll PROVE IInv'
  OBVIOUS
<1>t. Types /\ Channel /\ Course /\ Connection /\ Transfer
  BY DEF IInv
<1> USE DEF flags, channel, server, tls, line, timeouts, outcome
<1>1. ASSUME GotData PROVE IInv'
  <2>p. PICK o \in {"read", "write"} : \E v \in Answers(o) :
         /\ Got(o, v)
         /\ sess' = IF v \in {"eof", "err"} THEN "close" ELSE sess
         /\ result' = CASE v = "eof" -> "ok" [] v = "err" -> "fail" [] OTHER -> result
    BY <1>1 DEF GotData
  <2>0. PICK v \in Answers(o) :
         /\ Got(o, v)
         /\ sess' = IF v \in {"eof", "err"} THEN "close" ELSE sess
         /\ result' = CASE v = "eof" -> "ok" [] v = "err" -> "fail" [] OTHER -> result
    BY <2>p
  <2>1. /\ op = o /\ op' = "none" /\ down' = <<>> /\ up' = <<>> /\ doing' = "none" /\ UNCHANGED slave
        /\ sess # "over" /\ Channel' /\ down # <<>> /\ Head(down).v = v
    BY <1>t, <2>0, Getting DEF Got, Ops
  <2>2. UNCHANGED <<flags, data_fd, tls, line, kind, moved, vetted, ended, timeouts, parent, bug>>
    BY <1>1 DEF GotData
  <2>3. /\ result' = IF v = "eof" THEN "ok" ELSE IF v = "err" THEN "fail" ELSE result
        /\ v = "eof" => op = "read"
    <3>1. v = "eof" => op = "read"
      <4>1. CASE o = "write"
        <5>1. v \in {"ok", "err"}
          BY <4>1 DEF Answers
        <5>. QED
          BY <5>1
      <4>. QED
        BY <2>1, <4>1
    <3>2. CASE v = "eof"
      BY <2>0, <3>1, <3>2
    <3>3. CASE v = "err"
      BY <2>0, <3>1, <3>3
    <3>4. CASE v \notin {"eof", "err"}
      BY <2>0, <3>1, <3>4
    <3>. QED
      BY <3>2, <3>3, <3>4
  <2>4. sess \in {"recv", "send"} /\ (op = "read" => sess = "recv") /\ (op = "write" => sess = "send") /\ kind = sess
        /\ result = "none" /\ data_fd /\ (data_use_ssl => p_data_ssl)
    BY <1>t, <2>0, <2>1 DEF Course, Connection
  <2>5. Types'
    BY SMTT(30), <1>t, <2>0, <2>1, <2>2, <2>3 DEF Types
  <2>6. Course'
    BY <1>t, <2>0, <2>1, <2>2, <2>3, <2>4 DEF Course
  <2>7. Connection'
    BY <1>t, <2>0, <2>1, <2>2, <2>4 DEF Connection, ssl_slave_active
  <2>8. Transfer'
    BY <1>t, <2>0, <2>1, <2>2, <2>3, <2>4 DEF Transfer, Medium
  <2>. QED
    BY <2>1, <2>5, <2>6, <2>7, <2>8 DEF IInv
<1>2. ASSUME SentAll PROVE IInv'
  <2>1. /\ sess = "send" /\ op = "none" /\ left = 0 /\ sess' = "close" /\ result' = "ok"
        /\ UNCHANGED <<flags, op, channel, server, data_fd, tls, line, kind, moved, vetted, ended, timeouts, parent, bug>>
    BY <1>2 DEF SentAll
  <2>2. Channel' /\ ssl_slave_active' = ssl_slave_active
    BY <1>t, <2>1, ChannelKept
  <2>3. Types' /\ Course'
    BY SMT, <1>t, <2>1 DEF Types, Course
  <2>4. kind = "send" /\ data_fd /\ (data_use_ssl => p_data_ssl)
    BY <1>t, <2>1 DEF Course, Connection
  <2>5. Connection' /\ Transfer'
    BY <1>t, <2>1, <2>2, <2>4 DEF Connection, Transfer, Medium
  <2>. QED
    BY <2>2, <2>3, <2>5 DEF IInv
<1>. QED
  BY <1>1, <1>2

\* The data connection is given up.
LEMMA DisposedNext ==
  ASSUME IInv, NEW good \in BOOLEAN, Disposed(good), sess = "close", Channel', ssl_slave_active' = ssl_slave_active,
         op' = "none", down' = <<>>, p_data_ssl = FALSE,
         result = "ok" /\ data_use_ssl /\ conf.strict_write /\ good => ended,
         slave' = slave, UNCHANGED <<flags, tls, peer, left, kind, moved, vetted, ended, timeouts, parent, bug>>
  PROVE  IInv'
<1>t. Types /\ Channel /\ Course /\ Connection /\ Transfer
  BY DEF IInv
<1> USE DEF flags, tls, timeouts
<1>1. /\ data_fd' = FALSE /\ sock' = "none" /\ result' \in {result, "fail"} /\ sess' \in {"bye", "cmd", "tell"}
      /\ result' = "ok" => result = "ok" /\ good /\ ~data_timeout
  <2>1. data_fd' = FALSE /\ sock' = "none" /\ result' = IF result = "ok" /\ (~good \/ data_timeout) THEN "fail" ELSE result
    BY DEF Disposed, Verdict
  <2>2. sess' \in {"bye", "cmd", "tell"}
    <3>1. CASE result' = "refused"
      BY <3>1 DEF Disposed, AfterCommand
    <3>2. CASE result' = "fail" /\ data_timeout
      BY <3>2 DEF Disposed
    <3>3. CASE ~(result' = "refused") /\ ~(result' = "fail" /\ data_timeout)
      BY <3>3 DEF Disposed
    <3>. QED
      BY <3>1, <3>2, <3>3
  <2>. QED
    BY <2>1, <2>2
<1>2. Types'
  <2>1. data_fd' \in BOOLEAN /\ result' \in {"none", "ok", "fail", "refused"}
    BY <1>t, <1>1 DEF Types
  <2>. QED
    BY SMT, <1>t, <1>1, <2>1 DEF Types
<1>3. Course'
  BY <1>t, <1>1 DEF Course
<1>4. Connection'
  BY <1>t, <1>1 DEF Connection
<1>5. Transfer'
  BY <1>t, <1>1 DEF Transfer
<1>. QED
  BY <1>2, <1>3, <1>4, <1>5 DEF IInv

LEMMA DisposeNext == IInv /\ (DisposeClear \/ GotClose) => IInv'
<1> SUFFICES ASSUME IInv, DisposeClear \/ GotClose PROVE IInv'
  OBVIOUS
<1>t. Types /\ Channel /\ Course /\ Connection /\ Transfer
  BY DEF IInv
<1>1. ASSUME DisposeClear PROVE IInv'
  <2>1. /\ sess = "close" /\ op = "none" /\ ~CloseNeeded /\ Disposed(TRUE)
        /\ UNCHANGED <<flags, op, channel, server, tls, peer, left, kind, moved, vetted, ended, timeouts, parent, bug>>
    BY <1>1 DEF DisposeClear
  <2>2. Channel' /\ ssl_slave_active' = ssl_slave_active
    BY <1>t, <2>1, ChannelKept DEF flags, channel, server
  <2>3. p_data_ssl = FALSE /\ down = <<>>
    BY <1>t, <2>1 DEF CloseNeeded, Types, Channel, Quiet, Sent, HalfRead, Doing, Replied, Ops
  <2>4. ~(result = "ok" /\ data_use_ssl)
    BY <1>t, <2>1, <2>3 DEF Transfer
  <2>. QED
    BY <2>1, <2>2, <2>3, <2>4, DisposedNext DEF channel, server
<1>2. ASSUME GotClose PROVE IInv'
  <2>1. PICK v \in Answers("close") : Got("close", v) /\ Disposed(v = "ok")
    BY <1>2 DEF GotClose
  <2>2. /\ op = "close" /\ op' = "none" /\ down' = <<>> /\ UNCHANGED slave
        /\ sess # "over" /\ Channel' /\ down # <<>> /\ Head(down).v = v
    BY <1>t, <2>1, Getting DEF Got, Ops
  <2>3. UNCHANGED <<flags, tls, peer, left, kind, moved, vetted, ended, timeouts, parent, bug>>
    BY <1>2 DEF GotClose
  <2>4. sess = "close" /\ p_data_ssl = FALSE
    BY <1>t, <2>2 DEF Course, Connection, Types
  <2>5. result = "ok" /\ data_use_ssl /\ conf.strict_write /\ v = "ok" => ended
    BY <1>t, <2>2, <2>4 DEF Transfer
  <2>6. (v = "ok") \in BOOLEAN
    OBVIOUS
  <2>7. ssl_slave_active' = ssl_slave_active
    BY <2>2 DEF ssl_slave_active
  <2>. QED
    BY <2>1, <2>2, <2>3, <2>4, <2>5, <2>6, <2>7, DisposedNext
<1>. QED
  BY <1>1, <1>2

\* Timers, the client, and the ends.
LEMMA EndsNext ==
  IInv /\ (handle_sigalrm \/ handle_alarm_timeout \/ Client \/ SessionLost \/ SlaveLost \/ ParentExits \/ Killed) => IInv'
<1> SUFFICES ASSUME IInv, handle_sigalrm \/ handle_alarm_timeout \/ Client \/ SessionLost \/ SlaveLost \/ ParentExits \/ Killed
             PROVE  IInv'
  OBVIOUS
<1>t. Types /\ Channel /\ Course /\ Connection /\ Transfer
  BY DEF IInv
<1> USE DEF flags, channel, server, tls, line, timeouts, outcome
<1>1. ASSUME handle_sigalrm PROVE IInv'
  <2>1. /\ data_fd /\ data_timeout' = TRUE /\ sock' = "shut"
        /\ UNCHANGED <<flags, sess, op, channel, server, data_fd, tls, peer, left, outcome, idle_timeout, parent, bug>>
    BY <1>1 DEF handle_sigalrm, Shuts
  <2>2. Channel' /\ ssl_slave_active' = ssl_slave_active
    BY <1>t, <2>1, ChannelKept
  <2>3. Types'
    <3>1. data_timeout' \in BOOLEAN
      BY <2>1
    <3>. QED
      BY SMT, <1>t, <2>1, <3>1 DEF Types
  <2>4. Course' /\ Connection'
    BY <1>t, <2>1, <2>2 DEF Course, Connection
  <2>5. Transfer'
    <3>1. sess # "tell"
      BY <1>t, <2>1 DEF Course
    <3>. QED
      BY SMTT(30), <1>t, <2>1, <3>1 DEF Transfer, Medium
  <2>. QED
    BY <2>2, <2>3, <2>4, <2>5 DEF IInv
<1>2. ASSUME handle_alarm_timeout PROVE IInv'
  <2>1. /\ idle_timeout' = TRUE
        /\ UNCHANGED <<flags, sess, op, channel, server, data_fd, tls, line, outcome, data_timeout, parent, bug>>
    BY <1>2 DEF handle_alarm_timeout
  <2>2. Channel' /\ ssl_slave_active' = ssl_slave_active
    BY <1>t, <2>1, ChannelKept
  <2>3. Types'
    <3>1. idle_timeout' \in BOOLEAN
      BY <2>1
    <3>. QED
      BY SMT, <1>t, <2>1, <3>1 DEF Types
  <2>4. Course' /\ Connection' /\ Transfer'
    BY SMT, <1>t, <2>1, <2>2 DEF Course, Connection, Transfer, Medium
  <2>. QED
    BY <2>2, <2>3, <2>4 DEF IInv
<1>3. ASSUME Client PROVE IInv'
  <2>1. /\ data_fd /\ peer = "open" /\ peer' \in {"notify", "cut"}
        /\ UNCHANGED <<flags, sess, op, channel, server, data_fd, tls, sock, left, outcome, timeouts, parent, bug>>
    BY <1>3 DEF Client
  <2>2. Channel' /\ ssl_slave_active' = ssl_slave_active
    BY <1>t, <2>1, ChannelKept
  <2>3. Types' /\ Course' /\ Connection'
    BY SMTT(30), <1>t, <2>1, <2>2 DEF Types, Course, Connection
  <2>4. Transfer'
    BY SMTT(30), <1>t, <2>1, <2>2 DEF Transfer, Medium
  <2>. QED
    BY <2>2, <2>3, <2>4 DEF IInv
<1>4. ASSUME SessionLost \/ SlaveLost \/ ParentExits \/ Killed PROVE IInv'
  <2>1. /\ sess' \in {sess, "over"} /\ (slave' = slave \/ (slave # "none" /\ slave' = "over")) /\ parent' \in {parent, "over"}
        /\ UNCHANGED <<flags, op, channel, doing, need, data_fd, tls, line, outcome, timeouts, bug>>
    BY <1>4 DEF SessionLost, SlaveLost, ParentExits, Killed, ssl_slave_active
  <2>2. Channel' /\ ssl_slave_active' = ssl_slave_active
    BY <1>t, <2>1, ChannelKept
  <2>3. Types' /\ Course'
    <3>1. Types'
      BY SMT, <1>t, <2>1 DEF Types
    <3>2. Course'
      BY <1>t, <2>1 DEF Course
    <3>. QED
      BY <3>1, <3>2
  <2>4. Connection' /\ Transfer'
    BY SMT, <1>t, <2>1, <2>2 DEF Connection, Transfer, Medium
  <2>. QED
    BY <2>2, <2>3, <2>4 DEF IInv
<1>. QED
  BY <1>1, <1>2, <1>3, <1>4

LEMMA TlsNext == IInv /\ [Next]_vars => IInv'
<1> SUFFICES ASSUME IInv, [Next]_vars PROVE IInv'
  OBVIOUS
<1>1. ASSUME SessionStep PROVE IInv'
  <2>1. ASSUME NEW a, NEW o, AskedAt(a, o), Asks(a, o) PROVE IInv'
    BY <2>1, AsksNext
  <2>2. \/ \E a, o \in {"cmd", "getcmd", "mark", "sorry", "bye", "tell", "resp", "shake", "recv", "read", "send", "write", "close"} :
             AskedAt(a, o) /\ Asks(a, o)
        \/ GotCmd \/ GotResp \/ GotShake \/ GotData \/ SentAll \/ DisposeClear \/ GotClose
    BY <1>1 DEF SessionStep, AskedAt
  <2>. QED
    BY <2>1, <2>2, GotCmdNext, GotRespNext, GotShakeNext, GotDataNext, DisposeNext
<1>2. ASSUME UNCHANGED vars PROVE IInv'
  <2>1. UNCHANGED <<flags, sess, op, channel, server, data_fd, tls, line, outcome, timeouts, parent, bug>>
    BY <1>2 DEF vars
  <2> USE DEF flags, channel, server, tls, line, timeouts, outcome
  <2>2. Channel' /\ ssl_slave_active' = ssl_slave_active
    BY <2>1, ChannelKept DEF IInv
  <2>. QED
    BY SMTT(30), <2>1, <2>2 DEF IInv, Types, Course, Connection, Transfer, Medium
<1>. QED
  BY <1>1, <1>2, SlaveNext, ControlNext, HandshakeNext, PieceNext, CloseNext, LoginNext, EndsNext DEF Next

\* Session, slave and client are where each other takes them to be, in every
\* reachable state.
THEOREM TlsInvariant == Spec => []IInv
BY TlsInit, TlsNext, PTL DEF Spec

\* Whatever the client does and whenever the timers go off, the session reads
\* what the slave wrote for it, and the slave's checks of its own state ("state
\* not clean", "invalid state", "p_data_ssl should be NULL") never fail.
THEOREM CoherentAlways == Spec => []Coherent
<1>1. IInv => Coherent
  <2> SUFFICES ASSUME IInv PROVE Coherent
    OBVIOUS
  <2>t. Types /\ Channel /\ Course /\ Connection
    BY DEF IInv
  <2>1. ASSUME Replied PROVE Len(down) \in 1 .. 2 /\ down # <<>> /\ Kinds(down) = Expected(op, Head(down).v)
    <3>1. PICK v \in Answers(op) : down = Reply(op, v)
      BY <2>1 DEF Replied
    <3>. QED
      BY <2>1, <3>1, ReplyShape DEF Replied
  <2>2. Len(need) <= 1 /\ Len(up) <= 2 /\ Len(down) <= 2
    <3>1. CASE Quiet \/ Doing
      BY SMTT(30), <3>1 DEF Quiet, Doing
    <3>2. CASE Sent
      BY SMT, <3>2 DEF Sent
    <3>3. CASE HalfRead
      BY SMT, <3>3 DEF HalfRead
    <3>4. CASE Replied
      <4>1. Len(need) = 0 /\ Len(up) = 0
        BY <3>4 DEF Replied
      <4> DEFINE n == Len(down)
      <4>2. n \in 1 .. 2
        BY <2>1, <3>4
      <4> HIDE DEF n
      <4>n. n <= 2
        BY SMT, <4>2
      <4>3. Len(down) <= 2
        BY <4>n DEF n
      <4>. QED
        BY SMT, <4>1, <4>3
    <3>. QED
      BY <2>t, <3>1, <3>2, <3>3, <3>4 DEF Channel
  <2>3. op \in Ops \cup {"none"} /\ doing \in Ops \cup {"none"}
    BY <2>t DEF Channel, Quiet, Sent, HalfRead, Doing, Replied
  <2>4. {control_use_ssl, data_use_ssl, data_fd, fd_s, p_data_ssl, vetted, ended,
         data_timeout, idle_timeout, bug} \subseteq BOOLEAN
    <3>1. bug \in BOOLEAN
      BY <2>t DEF Connection
    <3>. QED
      BY <2>t, <3>1 DEF Types
  <2>5. TypeOK
    BY <2>t, <2>2, <2>3, <2>4 DEF Types, TypeOK
  <2>6. InStep
    <3>1. down # <<>> => up = <<>> /\ op # "none" /\ Kinds(down) = Expected(op, Head(down).v)
      BY <2>t, <2>1 DEF Channel, Quiet, Sent, HalfRead, Doing, Replied, Ops
    <3>2. op = "none" => up = <<>> /\ down = <<>>
      BY <2>t DEF Channel, Quiet, Sent, HalfRead, Doing, Replied, Ops
    <3>3. slave = "args" /\ up # <<>> => Head(up).k = Head(need)
      <4>1. slave = "args" => HalfRead
        BY <2>t DEF Channel, Quiet, Sent, Doing, Replied
      <4>. QED
        BY SMT, <4>1 DEF HalfRead, Tok
    <3>. QED
      BY <3>1, <3>2, <3>3 DEF InStep
  <2>7. NoBug
    BY <2>t DEF Connection, NoBug
  <2>. QED
    BY <2>5, <2>6, <2>7 DEF Coherent
<1>. QED
  BY <1>1, TlsInvariant, PTL

\* Data goes as PROT and force_local_data_ssl ask, over TLS only after a
\* handshake that passed its checks, and a transfer that is reported as complete
\* was complete.
THEOREM DataAlwaysKept == Spec => []DataKept
<1>1. IInv => DataKept
  BY DEF IInv, Transfer, DataKept, Protected, ReportedWhole
<1>. QED
  BY <1>1, TlsInvariant, PTL
=============================================================================
