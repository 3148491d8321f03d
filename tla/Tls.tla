-------------------------------- MODULE Tls --------------------------------
(***************************************************************************)
(* A session with TLS.  AUTH makes the handshake of the control connection;*)
(* after the login the child that did it stays as the "SSL handler" (slave)*)
(* that owns both TLS connections, and the session asks it over a socket   *)
(* pair to read a command, to write a reply and to accept, read, write and *)
(* close a data connection.  With one_process_model the session makes the  *)
(* same calls itself.  A client that stalls blocks the TLS call; the timer *)
(* is in the other process, which can only shut the shared socket down.    *)
(*                                                                         *)
(* A request or an answer is put on the socket pair in one step and read   *)
(* item by item.  Writes on the control connection do not block.  OpenSSL  *)
(* is what its return values say.                                          *)
(***************************************************************************)
EXTENDS Integers, Sequences

CONSTANTS
  Confs,      \* the configurations considered
  MaxChunks   \* bound: pieces of a transfer

Configuration ==
  [one : BOOLEAN,           \* one_process_model
   force : BOOLEAN,         \* force_local_data_ssl
   require_reuse : BOOLEAN, \* require_ssl_reuse
   strict_read : BOOLEAN,   \* strict_ssl_read_eof
   strict_write : BOOLEAN]  \* strict_ssl_write_shutdown

ASSUME TlsAssumption == Confs \subseteq Configuration /\ MaxChunks \in Nat \ {0}

Certs == {"none", "a", "b"}          \* the certificate of a client, if any
Lines == {"protC", "protP", "recv", "send", "quit"}

VARIABLES
  conf,
  control_use_ssl, data_use_ssl,
  control_cert,     \* control_cert_digest
  sess,             \* what the session does next
  op,               \* the TLS call it waits for
  up, down,         \* the socket pair between session and slave
  slave,            \* where the slave is
  doing, need,      \* its request, and the kinds of the items still to read
  data_fd,          \* the session has a data connection
  fd_s, p_data_ssl, \* data_fd and p_data_ssl of the process that makes the calls
  sock,             \* the data connection: open, shut by the timer
  peer,             \* how the client left its side: open, notify, cut
  left,             \* pieces still to be sent
  kind,             \* recv or send
  result,           \* what the transfer comes to: none, ok, fail, refused
  moved,            \* how data was moved: subset of clear, tls
  vetted,           \* the data connection has the reuse and certificate asked for
  ended,            \* both sides have closed the TLS connection in order
  data_timeout, idle_timeout,
  parent,           \* the privileged parent: none, up, over
  bug               \* a check that calls bug() failed

flags == <<conf, control_use_ssl, data_use_ssl, control_cert>>
channel == <<up, down>>
server == <<slave, doing, need>>
tls == <<fd_s, p_data_ssl>>
line == <<sock, peer, left>>
timeouts == <<data_timeout, idle_timeout>>
outcome == <<kind, result, moved, vetted, ended>>
vars == <<flags, sess, op, channel, server, data_fd, tls, line, outcome, timeouts, parent, bug>>

Init ==
  /\ conf \in Confs
  /\ control_use_ssl = FALSE /\ data_use_ssl = FALSE /\ control_cert = "none"
  /\ sess = "prelogin" /\ op = "none" /\ up = <<>> /\ down = <<>>
  /\ slave = "none" /\ doing = "none" /\ need = <<>>
  /\ data_fd = FALSE /\ fd_s = FALSE /\ p_data_ssl = FALSE
  /\ sock = "none" /\ peer = "open" /\ left = 0
  /\ kind = "recv" /\ result = "none" /\ moved = {} /\ vetted = FALSE /\ ended = FALSE
  /\ data_timeout = FALSE /\ idle_timeout = FALSE
  /\ parent = IF conf.one THEN "none" ELSE "up"
  /\ bug = FALSE

Tok(k, v) == [k |-> k, v |-> v]
ssl_slave_active == slave # "none"

-----------------------------------------------------------------------------
(* Before the login.                                                       *)

\* handle_auth, and the handshake it makes: a failed SSL_accept is the end.
handle_auth(arg, cert) ==
  /\ sess = "prelogin" /\ ~control_use_ssl
  /\ control_use_ssl' = TRUE /\ control_cert' = cert
  /\ data_use_ssl' = (data_use_ssl \/ arg \in {"SSL", "TLS-P"})
  /\ UNCHANGED <<conf, sess, op, channel, server, data_fd, tls, line, outcome, timeouts, parent, bug>>

\* handle_prot.
prot(arg) ==
  /\ data_use_ssl' = IF control_use_ssl THEN arg = "protP" ELSE data_use_ssl
  /\ UNCHANGED <<conf, control_use_ssl, control_cert>>

\* PROT before the login; PBSZ changes nothing.
handle_prot ==
  /\ sess = "prelogin"
  /\ \E arg \in {"protC", "protP"} : prot(arg)
  /\ UNCHANGED <<sess, op, channel, server, data_fd, tls, line, outcome, timeouts, parent, bug>>

\* The login: the child becomes the slave when the control connection is TLS.
Login ==
  /\ sess = "prelogin"
  /\ sess' = "cmd"
  /\ slave' = IF control_use_ssl /\ ~conf.one THEN "cmd" ELSE "none"
  /\ UNCHANGED <<flags, op, channel, doing, need, data_fd, tls, line, outcome, timeouts, parent, bug>>

-----------------------------------------------------------------------------
(* Requests.                                                               *)

Args(o) ==
  CASE o \in {"resp", "write"} -> <<Tok("str", o)>>
    [] o = "read" -> <<Tok("int", o)>>
    [] o = "shake" -> <<Tok("fd", o)>>
    [] OTHER -> <<>>

\* Which requests go to the slave.  Without one, and for data in the clear,
\* the session makes the call.
Routed(o) == ssl_slave_active /\ (o \in {"getcmd", "resp"} \/ data_use_ssl)

Ask(o) ==
  /\ op' = o
  /\ IF Routed(o)
       THEN up' = up \o <<Tok("cmd", o)>> \o Args(o) /\ UNCHANGED doing
       ELSE doing' = o /\ UNCHANGED up
  /\ UNCHANGED <<down, slave, need>>

\* The slave reads the request, item by item.
SlaveCmd ==
  /\ slave = "cmd" /\ up # <<>>
  /\ doing' = Head(up).v
  /\ need' = [i \in 1 .. Len(Args(doing')) |-> Args(doing')[i].k]
  /\ slave' = IF need' = <<>> THEN "do" ELSE "args"
  /\ up' = Tail(up)
  /\ UNCHANGED <<flags, sess, op, down, data_fd, tls, line, outcome, timeouts, parent, bug>>

SlaveArg ==
  /\ slave = "args" /\ up # <<>>
  /\ need' = Tail(need)
  /\ slave' = IF Tail(need) = <<>> THEN "do" ELSE "args"
  /\ up' = Tail(up)
  /\ UNCHANGED <<flags, sess, op, down, doing, data_fd, tls, line, outcome, timeouts, parent, bug>>

\* The answer: a command line (not one too long) and data (always) are
\* followed by their text.
Reply(o, v) ==
  <<Tok(IF o \in {"shake", "close"} THEN "res" ELSE "int", v)>>
    \o (IF o = "read" \/ (o = "getcmd" /\ v # "long") THEN <<Tok("str", v)>> ELSE <<>>)

Answer(v) ==
  /\ doing' = "none"
  /\ down' = down \o Reply(doing, v)
  /\ slave' = IF slave = "do" THEN "cmd" ELSE slave
  /\ UNCHANGED <<up, need>>

\* The process that makes the call, when it is in it.
InCall(o) == doing = o /\ (Routed(o) => slave = "do") /\ sess # "over"

-----------------------------------------------------------------------------
(* The calls.                                                              *)

\* The process that makes the call ends with die().
Dies ==
  /\ IF slave = "do" THEN slave' = "over" /\ UNCHANGED sess
                     ELSE sess' = "over" /\ UNCHANGED slave
  /\ UNCHANGED <<up, down, doing, need>>

\* ftp_getline: a line, one too long, or the end of the connection, which
\* TLS tells apart: without a close_notify a strict reader has an error.
GetLine ==
  /\ InCall("getcmd") /\ ~idle_timeout
  /\ \/ \E v \in Lines \cup {"long", "gone"} : Answer(v) /\ UNCHANGED sess
     \/ control_use_ssl /\ conf.strict_read /\ Dies
  /\ UNCHANGED <<flags, op, data_fd, tls, line, outcome, timeouts, parent, bug>>

\* handle_alarm_timeout has shut the control connection for reading.
GetLineShut ==
  /\ InCall("getcmd") /\ idle_timeout
  /\ IF control_use_ssl /\ conf.strict_read THEN Dies ELSE Answer("gone") /\ UNCHANGED sess
  /\ UNCHANGED <<flags, op, data_fd, tls, line, outcome, timeouts, parent, bug>>

WriteStr ==
  /\ InCall("resp")
  /\ Answer("ok")
  /\ UNCHANGED <<flags, sess, op, data_fd, tls, line, outcome, timeouts, parent, bug>>

\* A client that gave a certificate must give the same one again.
CertOk(c) == control_cert # "none" => c = control_cert

\* ssl_accept; the slave closes its descriptor when it fails.
SslAccept(hand, reused, c) ==
  LET ok == hand /\ (conf.require_reuse => reused) /\ CertOk(c) IN
  /\ bug' = (bug \/ fd_s \/ p_data_ssl)
  /\ p_data_ssl' = ok
  /\ fd_s' = (ok /\ ssl_slave_active)
  /\ vetted' = (ok /\ (conf.require_reuse => reused) /\ (control_cert # "none" => c = control_cert))
  /\ Answer(IF ok THEN "ok" ELSE "bad")

Handshake ==
  /\ InCall("shake")
  /\ \/ sock = "open" /\ peer = "open" /\ \E reused \in BOOLEAN, c \in Certs : SslAccept(TRUE, reused, c)
     \/ SslAccept(FALSE, FALSE, "none")
  /\ UNCHANGED <<flags, sess, op, data_fd, line, kind, result, moved, ended, timeouts, parent>>

\* ssl_read_common: the end of the connection without a close_notify.
Eof ==
  IF data_use_ssl /\ (peer # "notify") /\ conf.strict_read THEN "err" ELSE "eof"

\* The slave, and ssl_read, use what the handshake left.
Ready == data_use_ssl => p_data_ssl /\ (ssl_slave_active => fd_s)
Medium == IF data_use_ssl THEN "tls" ELSE "clear"

ReadData ==
  /\ InCall("read")
  /\ bug' = (bug \/ ~Ready)
  /\ \/ sock = "open" /\ peer = "open" /\ left > 0
        /\ Answer("data") /\ left' = left - 1 /\ moved' = moved \cup {Medium}
     \/ (sock = "shut" \/ peer # "open") /\ Answer(Eof) /\ UNCHANGED <<left, moved>>
  /\ UNCHANGED <<flags, sess, op, data_fd, tls, sock, peer, kind, result, vetted, ended, timeouts, parent>>

WriteData ==
  /\ InCall("write")
  /\ bug' = (bug \/ ~Ready)
  /\ \/ sock = "open" /\ peer # "cut"
        /\ Answer("ok") /\ left' = left - 1 /\ moved' = moved \cup {Medium}
     \/ (sock = "shut" \/ peer = "cut") /\ Answer("err") /\ UNCHANGED <<left, moved>>
  /\ UNCHANGED <<flags, sess, op, data_fd, tls, sock, peer, kind, result, vetted, ended, timeouts, parent>>

\* Mutant: the TLS state outlives the connection.
ReleaseFdOnly == /\ fd_s' = FALSE
                 /\ UNCHANGED p_data_ssl
Release == fd_s' = FALSE /\ p_data_ssl' = FALSE

\* ssl_data_close: both ends have said good-bye, or not; only a strict writer
\* minds.  The second SSL_shutdown waits for the client.
Close ==
  /\ InCall("close")
  /\ IF ~fd_s /\ ~p_data_ssl
       THEN Answer("ok") /\ UNCHANGED <<tls, ended, bug>>
       ELSE /\ bug' = (bug \/ (ssl_slave_active /\ fd_s # p_data_ssl))
            /\ \/ sock = "open" /\ peer = "notify" /\ ended' = TRUE /\ Answer("ok")
               \/ /\ sock = "shut" \/ peer = "cut"
                  /\ ended' = FALSE
                  /\ Answer(IF conf.strict_write THEN "bad" ELSE "ok")
            /\ Release
  /\ UNCHANGED <<flags, sess, op, data_fd, line, kind, result, moved, vetted, timeouts, parent>>

-----------------------------------------------------------------------------
(* The session.                                                            *)

\* What the session reads as the answer (readwrite.c, ftpdataio.c).
Expected(o, v) ==
  CASE o \in {"shake", "close"} -> <<"res">>
    [] o = "read" -> <<"int", "str">>
    [] o = "getcmd" -> IF v = "long" THEN <<"int">> ELSE <<"int", "str">>
    [] OTHER -> <<"int">>

\* The answer v has been read.
Got(o, v) ==
  /\ sess # "over" /\ op = o /\ down # <<>>
  /\ v = Head(down).v
  /\ Len(down) >= Len(Expected(o, v))
  /\ down' = SubSeq(down, Len(Expected(o, v)) + 1, Len(down))
  /\ op' = "none"
  /\ UNCHANGED <<up, server>>

Answers(o) ==
  CASE o = "getcmd" -> Lines \cup {"long", "gone"}
    [] o = "read" -> {"data", "eof", "err"}
    [] o = "write" -> {"ok", "err"}
    [] o \in {"shake", "close"} -> {"ok", "bad"}
    [] OTHER -> {"ok"}

\* At step a the session asks for o.
Asks(a, o) ==
  /\ sess = a /\ op = "none"
  /\ Ask(o)
  /\ UNCHANGED <<flags, sess, data_fd, tls, line, outcome, timeouts, parent, bug>>

data_transfer_checks_ok == conf.force => data_use_ssl

\* The data connection is there (Privsep) and the transfer begins.
Connects(k) ==
  /\ data_fd' = TRUE /\ sock' = "open" /\ peer' = "open" /\ left' \in 0 .. MaxChunks
  /\ kind' = k /\ moved' = {} /\ vetted' = FALSE /\ ended' = FALSE
  /\ sess' = "mark"

GotCmd ==
  /\ \E v \in Answers("getcmd") :
       /\ Got("getcmd", v)
       /\ result' = "none"
       /\ \/ /\ v \in {"protC", "protP"} /\ ~idle_timeout
             /\ prot(v) /\ sess' = "tell"
             /\ UNCHANGED <<data_fd, line, kind, moved, vetted, ended>>
          \/ /\ v \in {"recv", "send"} /\ ~idle_timeout /\ data_transfer_checks_ok
             /\ Connects(v) /\ UNCHANGED flags
          \/ /\ v \in {"recv", "send"} /\ ~idle_timeout /\ ~data_transfer_checks_ok
             /\ sess' = "tell"
             /\ UNCHANGED <<flags, data_fd, line, kind, moved, vetted, ended>>
          \/ /\ v \in {"quit", "long", "gone"} \/ idle_timeout
             /\ sess' = IF v = "gone" /\ ~idle_timeout THEN "over" ELSE "bye"
             /\ UNCHANGED <<flags, data_fd, line, kind, moved, vetted, ended>>
  /\ UNCHANGED <<tls, timeouts, parent, bug>>

\* process_post_login, when a command is done.
AfterCommand == IF data_timeout THEN "bye" ELSE "cmd"

\* A reply is out: what comes next.
GotResp ==
  /\ Got("resp", "ok")
  /\ sess' = CASE sess = "mark" -> IF data_use_ssl THEN "shake" ELSE kind
               [] sess = "sorry" -> "close"
               [] sess = "bye" -> "over"
               [] OTHER -> AfterCommand
  /\ UNCHANGED <<flags, data_fd, tls, line, outcome, timeouts, parent, bug>>

\* vsf_ftpdataio_post_mark_connect.
GotShake ==
  /\ \E v \in Answers("shake") :
       /\ Got("shake", v)
       /\ sess' = IF v = "ok" THEN kind ELSE IF conf.require_reuse THEN "bye" ELSE "sorry"
       /\ result' = IF v = "ok" THEN "none" ELSE "refused"
  /\ UNCHANGED <<flags, data_fd, tls, line, kind, moved, vetted, ended, timeouts, parent, bug>>

GotData ==
  /\ \E o \in {"read", "write"} : \E v \in Answers(o) :
       /\ Got(o, v)
       /\ sess' = IF v \in {"eof", "err"} THEN "close" ELSE sess
       /\ result' = CASE v = "eof" -> "ok" [] v = "err" -> "fail" [] OTHER -> result
  /\ UNCHANGED <<flags, data_fd, tls, line, kind, moved, vetted, ended, timeouts, parent, bug>>

\* All of the object has been sent.
SentAll ==
  /\ sess = "send" /\ op = "none" /\ left = 0
  /\ sess' = "close" /\ result' = "ok"
  /\ UNCHANGED <<flags, op, channel, server, data_fd, tls, line, kind, moved, vetted, ended, timeouts, parent, bug>>

\* Mutant: a timeout is not held against the transfer.
VerdictLate(good) == IF result = "ok" /\ ~good THEN "fail" ELSE result
\* The result of vsf_ftpdataio_dispose_transfer_fd, and what the command
\* makes of it.
Verdict(good) == IF result = "ok" /\ (~good \/ data_timeout) THEN "fail" ELSE result

\* The end of the transfer.  A refused handshake has been answered before,
\* a timeout is answered when the command is over.
Disposed(good) ==
  /\ data_fd' = FALSE /\ sock' = "none"
  /\ result' = Verdict(good)
  /\ sess' = CASE result' = "refused" -> AfterCommand
               [] result' = "fail" /\ data_timeout -> "bye"
               [] OTHER -> "tell"

\* The TLS connection, if any, is closed first.
CloseNeeded == (data_use_ssl /\ ssl_slave_active) \/ p_data_ssl

DisposeClear ==
  /\ sess = "close" /\ op = "none" /\ ~CloseNeeded
  /\ Disposed(TRUE)
  /\ UNCHANGED <<flags, op, channel, server, tls, peer, left, kind, moved, vetted, ended, timeouts, parent, bug>>

GotClose ==
  /\ \E v \in Answers("close") : Got("close", v) /\ Disposed(v = "ok")
  /\ UNCHANGED <<flags, tls, peer, left, kind, moved, vetted, ended, timeouts, parent, bug>>

-----------------------------------------------------------------------------
(* Timers, the client, and the ends.                                       *)

\* Mutant: the alarm only notes that it went off.
ShutsNothing == UNCHANGED sock
\* The shutdown() of handle_sigalrm reaches the connection itself, so it
\* releases a slave that is blocked on it.
Shuts == sock' = "shut"

handle_sigalrm ==
  /\ data_fd /\ sock = "open" /\ ~data_timeout /\ op # "none" /\ sess # "over"
  /\ data_timeout' = TRUE
  /\ Shuts
  /\ UNCHANGED <<flags, sess, op, channel, server, data_fd, tls, peer, left, outcome, idle_timeout, parent, bug>>

handle_alarm_timeout ==
  /\ op = "getcmd" /\ ~idle_timeout /\ sess # "over"
  /\ idle_timeout' = TRUE
  /\ UNCHANGED <<flags, sess, op, channel, server, data_fd, tls, line, outcome, data_timeout, parent, bug>>

\* The client ends its side, in order or not.
Client ==
  /\ data_fd /\ peer = "open"
  /\ peer' \in {"notify", "cut"}
  /\ UNCHANGED <<flags, sess, op, channel, server, data_fd, tls, sock, left, outcome, timeouts, parent, bug>>

\* The socket pair ends: whoever waits on it dies.
SessionLost ==
  /\ op # "none" /\ Routed(op) /\ slave = "over" /\ down = <<>> /\ sess # "over"
  /\ sess' = "over"
  /\ UNCHANGED <<flags, op, channel, server, data_fd, tls, line, outcome, timeouts, parent, bug>>

SlaveLost ==
  /\ slave \in {"cmd", "args"} /\ up = <<>> /\ sess = "over"
  /\ slave' = "over"
  /\ UNCHANGED <<flags, sess, op, channel, doing, need, data_fd, tls, line, outcome, timeouts, parent, bug>>

\* SIGCHLD of either child.
ChildOver == sess = "over" \/ slave = "over"

ParentExits ==
  /\ parent = "up" /\ ChildOver
  /\ parent' = "over"
  /\ UNCHANGED <<flags, sess, op, channel, server, data_fd, tls, line, outcome, timeouts, bug>>

\* PR_SET_PDEATHSIG: SIGKILL for both children.
Killed ==
  /\ parent = "over"
  /\ sess' = "over"
  /\ slave' = IF ssl_slave_active THEN "over" ELSE slave
  /\ UNCHANGED <<flags, op, channel, doing, need, data_fd, tls, line, outcome, timeouts, parent, bug>>

-----------------------------------------------------------------------------
PreLogin ==
  \/ \E arg \in {"TLS", "SSL"}, cert \in Certs : handle_auth(arg, cert)
  \/ handle_prot
  \/ Login

SessionStep ==
  \/ Asks("cmd", "getcmd")
  \/ \E a \in {"mark", "sorry", "bye", "tell"} : Asks(a, "resp")
  \/ Asks("shake", "shake")
  \/ Asks("recv", "read")
  \/ left > 0 /\ Asks("send", "write")
  \/ CloseNeeded /\ Asks("close", "close")
  \/ GotCmd \/ GotResp \/ GotShake \/ GotData \/ SentAll \/ DisposeClear \/ GotClose

SlaveStep == SlaveCmd \/ SlaveArg

\* The calls that end whatever the client does.
Unblocked ==
  \/ WriteStr
  \/ GetLineShut
  \/ (sock = "shut" \/ peer = "cut") /\ (Handshake \/ ReadData \/ WriteData \/ Close)

Next ==
  \/ SessionStep \/ SlaveStep
  \/ WriteStr \/ GetLineShut \/ GetLine \/ Handshake \/ ReadData \/ WriteData \/ Close
  \/ handle_sigalrm \/ handle_alarm_timeout
  \/ Client \/ PreLogin
  \/ SessionLost \/ SlaveLost \/ ParentExits \/ Killed

Spec == Init /\ [][Next]_vars

\* The processes run, the alarms go off (both timeouts are positive by
\* default), and the kernel delivers what it promised.  Nothing is assumed of
\* the client.
FairSpec ==
  /\ Spec
  /\ WF_vars(SessionStep) /\ WF_vars(SlaveStep) /\ WF_vars(Unblocked)
  /\ WF_vars(handle_sigalrm) /\ WF_vars(handle_alarm_timeout)
  /\ WF_vars(SessionLost \/ SlaveLost) /\ WF_vars(ParentExits) /\ WF_vars(Killed)

-----------------------------------------------------------------------------
Ops == {"getcmd", "resp", "shake", "read", "write", "close"}

\* Every variable keeps to its values.
TypeOK ==
  /\ conf \in Confs
  /\ {control_use_ssl, data_use_ssl, data_fd, fd_s, p_data_ssl, vetted, ended,
      data_timeout, idle_timeout, bug} \subseteq BOOLEAN
  /\ control_cert \in Certs
  /\ sess \in {"prelogin", "cmd", "mark", "shake", "sorry", "recv", "send", "close", "tell", "bye", "over"}
  /\ op \in Ops \cup {"none"} /\ doing \in Ops \cup {"none"}
  /\ slave \in {"none", "cmd", "args", "do", "over"} /\ Len(need) <= 1
  /\ Len(up) <= 2 /\ Len(down) <= 2
  /\ sock \in {"none", "open", "shut"} /\ peer \in {"open", "notify", "cut"}
  /\ left \in 0 .. MaxChunks /\ kind \in {"recv", "send"}
  /\ result \in {"none", "ok", "fail", "refused"} /\ moved \subseteq {"clear", "tls"}
  /\ parent \in {"none", "up", "over"}

Kinds(q) == [i \in DOMAIN q |-> q[i].k]

\* Session and slave stay in step over the socket pair, which carries no
\* framing: what lies on it for the session is exactly what the session will
\* read as the answer to its request, nothing lies on it in both directions,
\* and nothing is left over when the session asks again (sslslave.c against
\* readwrite.c and ftpdataio.c).
InStep ==
  /\ down # <<>> => /\ up = <<>> /\ op # "none"
                    /\ Kinds(down) = Expected(op, Head(down).v)
  /\ op = "none" => up = <<>> /\ down = <<>>
  /\ slave = "args" /\ up # <<>> => Head(up).k = Head(need)

\* The slave's own checks ("state not clean", "invalid state") and
\* "p_data_ssl should be NULL" never fail, over any sequence of transfers,
\* refused handshakes and timeouts.
NoBug == ~bug

\* Session and slave agree: on what is on the socket pair, and on whether
\* there is a data connection and a TLS one on it.
Coherent == TypeOK /\ InStep /\ NoBug

\* Data moves only as the session's settings ask: PROT P needs a TLS control
\* connection, a transfer uses one medium throughout, TLS data only flows
\* after a handshake that passed the reuse and certificate checks, and with
\* force_local_data_ssl nothing ever goes in the clear.
Protected ==
  /\ data_use_ssl => control_use_ssl
  /\ data_fd => moved \subseteq {Medium}
  /\ "tls" \in moved => vetted
  /\ conf.force => "clear" \notin moved

\* A transfer that is reported as complete was: the timer did not cut it,
\* all pieces were sent, with strict_ssl_read_eof the client of an upload has
\* said close_notify, and with strict_ssl_write_shutdown the client of any
\* TLS transfer has.
ReportedWhole ==
  sess = "tell" /\ result = "ok" =>
    /\ ~data_timeout
    /\ kind = "send" => left = 0
    /\ data_use_ssl /\ kind = "recv" /\ conf.strict_read => peer = "notify"
    /\ data_use_ssl /\ conf.strict_write => ended

\* What a client may rely on for its data: the protection that was agreed on,
\* and that a transfer reported as complete is.
DataKept == Protected /\ ReportedWhole

\* A call on a data connection comes back even when the client stalls for
\* ever: the alarm goes off in the session, the call is in the slave, and the
\* shutdown of the shared socket is what ends it.
DataCallsEnd == op \in {"shake", "read", "write", "close"} ~> op \notin {"shake", "read", "write", "close"} \/ sess = "over"

\* When one of session, slave and parent ends, all of them do.
EndTogether ==
  sess = "over" \/ slave = "over" \/ parent = "over"
    ~> sess = "over" /\ slave \in {"none", "over"} /\ parent \in {"none", "over"}

\* The server never forgets a timeout: once the data alarm went off the
\* session ends (process_post_login looks at data_timeout after the command).
TimeoutEnds == data_timeout ~> sess = "over"

\* Nobody waits for ever, whichever of the processes the timer, the blocked
\* call and the failure are in.
TlsEnds == DataCallsEnd /\ EndTogether /\ TimeoutEnds
=============================================================================
