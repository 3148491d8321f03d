------------------------------ MODULE Privsep ------------------------------
(***************************************************************************)
(* One client's processes: the privileged parent, the child that reads USER*)
(* and PASS, and the child that serves the session once the login succeeds;*)
(* or, with one_process_model, a single process that does all of it.  The  *)
(* children ask the parent over a socket pair on which commands, strings,  *)
(* integers, results and file descriptors follow each other without any    *)
(* frame.  A write and a read of one of them is a step, and either process *)
(* may die between any two steps.                                          *)
(*                                                                         *)
(* What a command of the session does with its data connection is module   *)
(* Session; here it is the list of the requests it makes.  TLS is off.     *)
(***************************************************************************)
EXTENDS Integers, Sequences

CONSTANTS
  Confs,     \* the configurations considered
  MaxFails,  \* max_login_fails
  MaxLines   \* bound: lines the client sends

Users == {"anon", "real", "dodgy"}   \* dodgy: refused for its length or characters
Passwords == {"right", "wrong"}      \* wrong: for an anonymous user, a banned address

\* do_sanity_checks of main.
Sane(c) ==
  /\ c.one => ~c.local
  /\ c.local \/ c.anonymous
  /\ c.http => c.one

Configuration ==
  [one : BOOLEAN, http : BOOLEAN, anonymous : BOOLEAN, local : BOOLEAN,
   noAnonPassword : BOOLEAN, denied : SUBSET Users, promiscuous : BOOLEAN,
   chown : BOOLEAN]

ASSUME PrivsepAssumption ==
  /\ Confs \subseteq {c \in Configuration : Sane(c)}
  /\ MaxFails \in Nat \ {0} /\ MaxLines \in Nat

VARIABLES
  conf,      \* the configuration
  parent,    \* where the privileged parent is
  req,       \* the request it handles
  need,      \* the kinds of the arguments it has still to read
  who,       \* its user_str
  pw,        \* the password it has read
  pout,      \* what it has still to write
  answer,    \* what it answers, until the request has returned
  handler,   \* handle_sigchld is installed
  chld,      \* SIGCHLD is recorded
  listen,    \* pasv_listen_fd is open
  why,       \* why a process gave up, when it did
  pre,       \* where the child that logs in is
  post,      \* where the session is
  op,        \* the request of the child
  cout,      \* what it has still to write
  want,      \* the kind of what it reads next
  val,       \* the value its request returned
  user,      \* user_str of the child that logs in
  fails,     \* login_fails
  port,      \* p_port_sockaddr is set
  plan,      \* the requests the command of the session has still to make
  armed,     \* the child is killed when its parent dies
  up, down,  \* the socket pair
  ctl,       \* the control connection
  lines      \* lines the client may still send

boss == <<parent, req, need, who, pw, pout, answer>>
sig == <<handler, chld>>
call == <<op, cout, want, val>>
login == <<user, fails>>
sess == <<port, plan>>
vars == <<conf, boss, sig, listen, why, pre, post, call, login, sess, armed,
          up, down, ctl, lines>>

-----------------------------------------------------------------------------
(* What is written to the socket pair.                                     *)

Tok(k, v) == [k |-> k, v |-> v]
Cmd(o) == Tok("cmd", o)
IntTok(v) == Tok("int", v)
Res(v) == Tok("res", v)
Fd == Tok("fd", "fd")

Request(o, u, p) ==
  CASE o = "login" -> <<Cmd(o), Tok("str", u), Tok("str", p), IntTok("ssl"), IntTok("ssl")>>
    [] o = "sock" -> <<Cmd(o), IntTok("port")>>
    [] o = "chown" -> <<Cmd(o), Fd>>
    [] OTHER -> <<Cmd(o)>>

Args(o) ==
  CASE o = "login" -> <<"str", "str", "int", "int">>
    [] o = "sock" -> <<"int">>
    [] o = "chown" -> <<"fd">>
    [] OTHER -> <<>>

\* Mutant: a failed accept is answered without its integer.
ReplySilent(o, a) ==
  CASE o \in {"active", "listen"} -> <<IntTok(a)>>
    [] a = "fd" -> <<Res("ok"), Fd>>
    [] o = "accept" /\ a # "fd" -> <<Res("bad")>>
    [] OTHER -> <<Res(a)>>
Reply(o, a) ==
  CASE o \in {"active", "listen"} -> <<IntTok(a)>>
    [] a = "fd" -> <<Res("ok"), Fd>>
    [] o = "accept" /\ a # "fd" -> <<Res("bad"), IntTok(a)>>
    [] OTHER -> <<Res(a)>>

\* What the child reads first, and after a result.
First(o) == IF o \in {"active", "listen"} THEN "int" ELSE "res"
After(o, res) ==
  CASE o \in {"accept", "sock"} /\ res = "ok" -> "fd"
    [] o = "accept" /\ res = "bad" -> "int"
    [] OTHER -> "done"

-----------------------------------------------------------------------------
(* Lives.                                                                  *)

Alive(p) == p \notin {"none", "dead"}
\* The child at the other end of the socket pair.
Child == IF post = "none" THEN pre ELSE post
ParentUp == parent \notin {"absent", "dead"}

Init ==
  /\ conf \in Confs
  /\ parent = IF conf.one THEN "absent" ELSE "cmd"
  /\ req = "none" /\ need = <<>> /\ who = "none" /\ pw = "none"
  /\ pout = <<>> /\ answer = "none"
  /\ handler = ~conf.one /\ chld = FALSE /\ listen = FALSE /\ why = "none"
  /\ pre = IF conf.one THEN "idle" ELSE "start"
  /\ post = "none"
  /\ op = "none" /\ cout = <<>> /\ want = "done" /\ val = "none"
  /\ user = "none" /\ fails = 0 /\ port = FALSE /\ plan = <<>> /\ armed = FALSE
  /\ up = <<>> /\ down = <<>> /\ ctl = "open" /\ lines = MaxLines

\* A child ends; the parent is sent SIGCHLD, which is dropped while no handler
\* is installed.
PreEnds == pre' = "dead" /\ chld' = (chld \/ (handler /\ ParentUp)) /\ UNCHANGED <<post, handler>>
PostEnds == post' = "dead" /\ chld' = (chld \/ (handler /\ ParentUp)) /\ UNCHANGED <<pre, handler>>
ParentEnds(reason) == parent' = "dead" /\ why' = reason

-----------------------------------------------------------------------------
(* The parent: process_login_req before the login, process_post_login_req  *)
(* after it.                                                               *)

Allowed(o) ==
  IF post = "none" THEN o = "login"
  ELSE o # "login" /\ (o = "chown" => conf.chown)

ParentGetCmd ==
  /\ parent = "cmd" /\ up # <<>>
  /\ LET t == Head(up) IN
     IF t.k = "cmd" /\ Allowed(t.v)
       THEN /\ req' = t.v /\ need' = Args(t.v)
            /\ parent' = IF Args(t.v) = <<>> THEN "do" ELSE "args"
            /\ UNCHANGED why
       ELSE ParentEnds("request") /\ UNCHANGED <<req, need>>
  /\ up' = Tail(up)
  /\ UNCHANGED <<conf, who, pw, pout, answer, sig, listen, pre, post, call, login, sess,
                 armed, down, ctl, lines>>

ParentGetArg ==
  /\ parent = "args" /\ up # <<>>
  /\ need' = Tail(need)
  /\ parent' = IF Tail(need) = <<>> THEN "do" ELSE "args"
  /\ who' = IF req = "login" /\ Len(need) = 4 THEN Head(up).v ELSE who
  /\ pw' = IF req = "login" /\ Len(need) = 3 THEN Head(up).v ELSE pw
  /\ up' = Tail(up)
  /\ UNCHANGED <<conf, req, pout, answer, sig, listen, why, pre, post, call, login, sess,
                 armed, down, ctl, lines>>

\* handle_login: what the name and the password are worth.
LoginResult(c, u, p) ==
  IF u = "dodgy" THEN "fail"
  ELSE IF u = "anon" /\ c.anonymous THEN IF p = "wrong" THEN "fail" ELSE "anon"
  ELSE IF ~c.local THEN "die"
  ELSE IF u = "real" /\ p = "right" THEN "real" ELSE "fail"

\* Mutant: the handler of SIGCHLD stays.
DoLoginWatching ==
  /\ parent = "do" /\ req = "login"
  /\ LET r == LoginResult(conf, who, pw) IN
     IF r = "die"
       THEN ParentEnds("request") /\ UNCHANGED <<pout, answer, handler>>
       ELSE /\ answer' = IF r = "fail" THEN "bad" ELSE "ok"
            /\ pout' = Reply("login", answer')
            /\ parent' = "reply"
            /\ UNCHANGED <<why, handler>>
  /\ UNCHANGED <<conf, req, need, who, pw, chld, listen, pre, post, call, login, sess,
                 armed, up, down, ctl, lines>>
\* A success takes away the handler of SIGCHLD before the child is told.
DoLogin ==
  /\ parent = "do" /\ req = "login"
  /\ LET r == LoginResult(conf, who, pw) IN
     IF r = "die"
       THEN ParentEnds("request") /\ UNCHANGED <<pout, answer, handler>>
       ELSE /\ answer' = IF r = "fail" THEN "bad" ELSE "ok"
            /\ pout' = Reply("login", answer')
            /\ parent' = "reply"
            /\ handler' = (r = "fail")
            /\ UNCHANGED why
  /\ UNCHANGED <<conf, req, need, who, pw, chld, listen, pre, post, call, login, sess,
                 armed, up, down, ctl, lines>>

\* The operations of privops.c: the passive socket after it, and the answer.
\* An operation that is asked for in a wrong state, or that finds no port to
\* bind, is the end of the process.
Outcome(o, open) ==
  CASE o = "cleanup" -> {[open |-> FALSE, ans |-> "ok", dies |-> "no"]}
    [] o = "active" -> {[open |-> open, ans |-> IF open THEN "yes" ELSE "no", dies |-> "no"]}
    [] o = "chown" -> {[open |-> open, ans |-> "ok", dies |-> "no"]}
    [] o = "listen" /\ ~open ->
         {[open |-> TRUE, ans |-> "port", dies |-> "no"],
          [open |-> FALSE, ans |-> "none", dies |-> "bind"]}
    [] o = "accept" /\ open ->
         {[open |-> TRUE, ans |-> a, dies |-> "no"] : a \in {"fd", "fail", "badip"}}
    [] o = "sock" /\ ~open ->
         {[open |-> FALSE, ans |-> a, dies |-> "no"] : a \in {"fd", "bad"}}
           \cup {[open |-> FALSE, ans |-> "none", dies |-> "bind"]}
    [] OTHER -> {[open |-> open, ans |-> "none", dies |-> "request"]}

Serve ==
  /\ parent = "do" /\ req # "login"
  /\ \E r \in Outcome(req, listen) :
       /\ listen' = r.open
       /\ IF r.dies = "no"
            THEN /\ answer' = r.ans /\ pout' = Reply(req, r.ans) /\ parent' = "reply"
                 /\ UNCHANGED why
            ELSE ParentEnds(r.dies) /\ UNCHANGED <<answer, pout>>
  /\ UNCHANGED <<conf, req, need, who, pw, sig, pre, post, call, login, sess, armed, up,
                 down, ctl, lines>>

\* A write to a child that is gone fails (EPIPE).
ParentWrite ==
  /\ parent = "reply"
  /\ IF Alive(Child)
       THEN /\ down' = Append(down, Head(pout))
            /\ pout' = Tail(pout)
            /\ parent' = IF Tail(pout) # <<>> THEN "reply"
                         ELSE IF req = "login" /\ answer = "ok" THEN "wait" ELSE "cmd"
            /\ UNCHANGED why
       ELSE ParentEnds("eof") /\ UNCHANGED <<down, pout>>
  /\ UNCHANGED <<conf, req, need, who, pw, answer, sig, listen, pre, post, call, login, sess,
                 armed, up, ctl, lines>>

\* common_do_login: the child that logged in has left the control connection
\* when the next one is started.
Wait ==
  /\ parent = "wait" /\ pre = "dead"
  /\ parent' = "fork"
  /\ UNCHANGED <<conf, req, need, who, pw, pout, answer, sig, listen, why, pre, post, call,
                 login, sess, armed, up, down, ctl, lines>>

\* The configuration of the user cannot be read.
ForkFails ==
  /\ parent = "fork"
  /\ ParentEnds("config")
  /\ UNCHANGED <<conf, req, need, who, pw, pout, answer, sig, listen, pre, post, call, login,
                 sess, armed, up, down, ctl, lines>>

Fork ==
  /\ parent = "fork"
  /\ up' = <<>> /\ down' = <<>>                   \* priv_sock_close, priv_sock_init
  /\ handler' = TRUE
  /\ post' = "start" /\ armed' = FALSE
  /\ op' = "none" /\ cout' = <<>> /\ want' = "done" /\ val' = "none"
  /\ parent' = "cmd" /\ req' = "none" /\ answer' = "none"
  /\ UNCHANGED <<conf, need, who, pw, pout, chld, listen, why, pre, login, sess, ctl, lines>>

ParentEof ==
  /\ parent \in {"cmd", "args"} /\ up = <<>> /\ ~Alive(Child)
  /\ ParentEnds("eof")
  /\ UNCHANGED <<conf, req, need, who, pw, pout, answer, sig, listen, pre, post, call, login,
                 sess, armed, up, down, ctl, lines>>

\* handle_sigchld waits for a child, which is the one that died.
ParentChld ==
  /\ ParentUp /\ handler /\ chld /\ ~Alive(Child)
  /\ ParentEnds("child")
  /\ UNCHANGED <<conf, req, need, who, pw, pout, answer, sig, listen, pre, post, call, login,
                 sess, armed, up, down, ctl, lines>>

\* handle_sigterm; and a death without it.
ParentTerm(killed) ==
  /\ ParentUp
  /\ ParentEnds(IF killed THEN "killed" ELSE "term")
  /\ ctl' = IF killed THEN ctl ELSE "shut"
  /\ UNCHANGED <<conf, req, need, who, pw, pout, answer, sig, listen, pre, post, call, login,
                 sess, armed, up, down, lines>>

-----------------------------------------------------------------------------
(* A child and its request.                                                *)

\* In one process the request is a call.
Ask(o, u, p) ==
  /\ op' = o /\ want' = First(o) /\ val' = "none"
  /\ cout' = IF conf.one THEN <<>> ELSE Request(o, u, p)
  /\ who' = IF conf.one /\ o = "login" THEN u ELSE who
  /\ pw' = IF conf.one /\ o = "login" THEN p ELSE pw

CallerEnds == IF post = "none" THEN PreEnds ELSE PostEnds

CallWrite ==
  /\ Child = "call" /\ cout # <<>>
  /\ IF ParentUp
       THEN up' = Append(up, Head(cout)) /\ cout' = Tail(cout) /\ UNCHANGED <<sig, pre, post>>
       ELSE CallerEnds /\ UNCHANGED <<up, cout>>
  /\ UNCHANGED <<conf, boss, listen, why, op, want, val, login, sess, armed, down, ctl, lines>>

\* Mutant: the item after the result is not read.
CallReadEager ==
  /\ Child = "call" /\ cout = <<>> /\ want # "done" /\ down # <<>>
  /\ LET t == Head(down) IN
     /\ want' = IF want = "res" /\ op = "sock" THEN After(op, t.v) ELSE "done"
     /\ val' = t.v
  /\ down' = Tail(down)
  /\ UNCHANGED <<conf, boss, sig, listen, why, pre, post, op, cout, login, sess, armed, up,
                 ctl, lines>>
CallRead ==
  /\ Child = "call" /\ cout = <<>> /\ want # "done" /\ down # <<>>
  /\ LET t == Head(down) IN
     /\ want' = IF want = "res" THEN After(op, t.v) ELSE "done"
     /\ val' = t.v
  /\ down' = Tail(down)
  /\ UNCHANGED <<conf, boss, sig, listen, why, pre, post, op, cout, login, sess, armed, up,
                 ctl, lines>>

CallEof ==
  /\ Child = "call" /\ cout = <<>> /\ want # "done" /\ down = <<>> /\ ~conf.one /\ ~ParentUp
  /\ CallerEnds
  /\ UNCHANGED <<conf, boss, listen, why, call, login, sess, armed, up, down, ctl, lines>>

\* one_process_model: the child does it itself.  Only an anonymous login leads
\* on; any other is a bug.
DirectLogin ==
  /\ conf.one /\ pre = "call" /\ want # "done"
  /\ LET r == LoginResult(conf, who, pw) IN
     IF r \in {"fail", "anon"}
       THEN /\ val' = IF r = "fail" THEN "bad" ELSE "ok"
            /\ answer' = val' /\ want' = "done"
            /\ UNCHANGED <<why, pre, post, sig>>
       ELSE why' = "bug" /\ PreEnds /\ UNCHANGED <<val, answer, want>>
  /\ UNCHANGED <<conf, parent, req, need, who, pw, pout, listen, op, cout, login, sess, armed,
                 up, down, ctl, lines>>

Direct ==
  /\ conf.one /\ post = "call" /\ want # "done"
  /\ \E r \in Outcome(op, listen) :
       /\ listen' = r.open
       /\ IF r.dies = "no"
            THEN val' = r.ans /\ answer' = r.ans /\ want' = "done" /\ UNCHANGED <<why, pre, post, sig>>
            ELSE why' = r.dies /\ PostEnds /\ UNCHANGED <<val, answer, want>>
  /\ UNCHANGED <<conf, parent, req, need, who, pw, pout, op, cout, login, sess, armed, up,
                 down, ctl, lines>>

-----------------------------------------------------------------------------
(* The child that logs in: parse_username_password.                        *)

\* prctl has no effect once the parent is dead.
PreStart(ok) ==
  /\ pre = "start"
  /\ armed' = ParentUp
  /\ IF ok THEN pre' = "idle" /\ UNCHANGED <<sig, post>> ELSE PreEnds
  /\ UNCHANGED <<conf, boss, listen, why, call, login, sess, up, down, ctl, lines>>

PreLine == pre = "idle" /\ ctl = "open" /\ lines > 0 /\ lines' = lines - 1
\* Mutant: one refusal too many.
FailLate ==
  /\ fails' = fails + 1 /\ user' = "none"
  /\ IF fails + 1 > MaxFails
       THEN ctl' = "shut" /\ PreEnds
       ELSE pre' = "idle" /\ UNCHANGED <<ctl, post, sig>>
\* check_login_fails: the connection is closed after too many.
Fail ==
  /\ fails' = fails + 1 /\ user' = "none"
  /\ IF fails + 1 >= MaxFails
       THEN ctl' = "shut" /\ PreEnds
       ELSE pre' = "idle" /\ UNCHANGED <<ctl, post, sig>>

User(u) ==
  /\ PreLine /\ ~conf.http
  /\ CASE ~conf.local /\ u # "anon" ->
            /\ user' = "none"
            /\ UNCHANGED <<fails, ctl, pre, post, sig, call, who, pw>>
       [] (conf.local \/ u = "anon") /\ u \in conf.denied ->
            Fail /\ UNCHANGED <<call, who, pw>>
       [] OTHER ->
            /\ user' = u
            /\ IF u = "anon" /\ conf.noAnonPassword
                 THEN pre' = "call" /\ Ask("login", u, "right")
                 ELSE UNCHANGED <<pre, call, who, pw>>
            /\ UNCHANGED <<fails, ctl, post, sig>>
  /\ UNCHANGED <<conf, parent, req, need, pout, answer, listen, why, sess, armed, up, down>>

Pass(p) ==
  /\ PreLine /\ ~conf.http
  /\ IF user = "none"
       THEN UNCHANGED <<pre, call, who, pw>>
       ELSE pre' = "call" /\ Ask("login", user, p)
  /\ UNCHANGED <<conf, parent, req, need, pout, answer, sig, listen, why, post, login, sess,
                 armed, up, down, ctl>>

\* GET of the HTTP mode logs in as FTP; any other verb is the end.
Get(p) ==
  /\ PreLine /\ conf.http
  /\ user' = "anon" /\ pre' = "call" /\ Ask("login", "anon", p)
  /\ UNCHANGED <<conf, parent, req, need, pout, answer, sig, listen, why, post, fails, sess,
                 armed, up, down, ctl>>

\* Any other line has a reply; QUIT, and a bad verb of HTTP, are the end.
PreOther(quit) ==
  /\ PreLine
  /\ IF quit \/ conf.http THEN PreEnds /\ ctl' = "shut" ELSE UNCHANGED <<pre, post, sig, ctl>>
  /\ UNCHANGED <<conf, boss, listen, why, call, login, sess, armed, up, down>>

\* The end of vsf_two_process_login and of vsf_one_process_login.
LoginReturns ==
  /\ pre = "call" /\ post = "none" /\ want = "done" /\ cout = <<>>
  /\ CASE val = "ok" /\ ~conf.one -> PreEnds /\ UNCHANGED <<ctl, login>>
       [] val = "ok" /\ conf.one ->
            pre' = "dead" /\ post' = "idle" /\ UNCHANGED <<sig, ctl, login>>
       [] val # "ok" /\ conf.http ->
            /\ fails' = fails + 1 /\ user' = "none"
            /\ ctl' = "shut" /\ PreEnds
       [] OTHER -> Fail
  /\ op' = "none" /\ answer' = "none"
  /\ UNCHANGED <<conf, parent, req, need, who, pw, pout, listen, why, cout, want, val, sess,
                 armed, up, down, lines>>

-----------------------------------------------------------------------------
(* The session: the requests of its commands.                              *)

PostStart(ok) ==
  /\ post = "start"
  /\ armed' = ParentUp
  /\ IF ok THEN post' = "idle" /\ UNCHANGED <<sig, pre>> ELSE PostEnds
  /\ UNCHANGED <<conf, boss, listen, why, call, login, sess, up, down, ctl, lines>>

PostLine == post = "idle" /\ ctl = "open" /\ lines > 0 /\ lines' = lines - 1 /\ ~conf.http

\* Mutant: the last passive socket is not closed first.
PasvPlanKeeping == <<"noport", "listen">>
PasvPlan == <<"cleanup", "noport", "listen">>
PortPlan(legal) == IF legal THEN <<"cleanup", "noport", "port">> ELSE <<"cleanup", "noport">>
\* data_transfer_checks_ok and get_remote_transfer_fd ask pasv_active again
\* and again, port_active by way of pasv_active; port_promiscuous connects
\* without the parent.
ChecksPlan == IF port THEN <<"checks", "active">> ELSE <<"checks">>
RemotePlan ==
  IF ~port THEN <<"active", "active", "accept">>
  ELSE <<"active", "active", "active">> \o (IF conf.promiscuous THEN <<>> ELSE <<"sock">>)
TransferPlan(stor) ==
  ChecksPlan \o (IF stor /\ conf.chown THEN <<"chown">> ELSE <<>>)
    \o RemotePlan \o <<"noport", "cleanup">>

Command(steps) ==
  /\ PostLine
  /\ plan' = steps /\ post' = "next"
  /\ UNCHANGED <<conf, boss, sig, listen, why, pre, call, login, port, armed, up, down, ctl>>

Pasv == Command(PasvPlan)
Port(legal) == Command(PortPlan(legal))
\* The transfer may be refused after the checks, which leaves the address.
Transfer(stor, refused) == Command(IF refused THEN ChecksPlan ELSE TransferPlan(stor))

PostOther(quit) ==
  /\ PostLine
  /\ IF quit THEN PostEnds /\ ctl' = "shut" ELSE UNCHANGED <<pre, post, sig, ctl>>
  /\ UNCHANGED <<conf, boss, listen, why, call, login, sess, armed, up, down>>

\* handle_http answers one request and exits.
Http ==
  /\ post = "idle" /\ conf.http
  /\ PostEnds /\ ctl' = "shut"
  /\ UNCHANGED <<conf, boss, listen, why, call, login, sess, armed, up, down, lines>>

NextStep ==
  /\ post = "next"
  /\ CASE plan = <<>> -> post' = "idle" /\ UNCHANGED <<port, plan, call, who, pw>>
       [] plan # <<>> /\ Head(plan) \in {"noport", "port"} ->
            /\ port' = (Head(plan) = "port") /\ plan' = Tail(plan)
            /\ UNCHANGED <<post, call, who, pw>>
       [] OTHER ->
            /\ post' = "call"
            /\ Ask(IF Head(plan) = "checks" THEN "active" ELSE Head(plan), "none", "none")
            /\ UNCHANGED <<port, plan>>
  /\ UNCHANGED <<conf, parent, req, need, pout, answer, sig, listen, why, pre, login, armed,
                 up, down, ctl, lines>>

\* port_active and pasv_active both, or neither once the checks were passed,
\* is a bug.
CallReturns ==
  /\ post = "call" /\ want = "done" /\ cout = <<>>
  /\ op' = "none" /\ answer' = "none"
  /\ CASE op = "active" /\ (val = "yes") = port /\ (port \/ Head(plan) # "checks") ->
            why' = "bug" /\ PostEnds /\ UNCHANGED plan
       [] op = "active" /\ val = "no" /\ ~port /\ Head(plan) = "checks" ->
            post' = "next" /\ plan' = <<>> /\ UNCHANGED <<why, pre, sig>>
       [] OTHER ->
            post' = "next" /\ plan' = Tail(plan) /\ UNCHANGED <<why, pre, sig>>
  /\ UNCHANGED <<conf, parent, req, need, who, pw, pout, listen, cout, want, val, login, port,
                 armed, up, down, ctl, lines>>

-----------------------------------------------------------------------------
(* The client, the clock and the kernel.                                   *)

\* Mutant: only the shutdown by the server itself is noticed.
ChildEofLate ==
  /\ Child = "idle" /\ ctl = "shut"
  /\ CallerEnds /\ ctl' = "shut"
  /\ UNCHANGED <<conf, boss, listen, why, call, login, sess, armed, up, down, lines>>
\* The end of the control connection, or the idle timeout, is found by the
\* next read.
ChildEof ==
  /\ Child = "idle" /\ ctl # "open"
  /\ CallerEnds /\ ctl' = "shut"
  /\ UNCHANGED <<conf, boss, listen, why, call, login, sess, armed, up, down, lines>>

HangUp ==
  /\ ctl = "open" /\ ctl' = "shut"
  /\ UNCHANGED <<conf, boss, sig, listen, why, pre, post, call, login, sess, armed, up, down, lines>>

\* handle_alarm_timeout.
Expire ==
  /\ ctl = "open" /\ Alive(Child) /\ Child # "start" /\ ctl' = "readshut"
  /\ UNCHANGED <<conf, boss, sig, listen, why, pre, post, call, login, sess, armed, up, down, lines>>

ChildKilled ==
  /\ Alive(Child) /\ CallerEnds
  /\ UNCHANGED <<conf, boss, listen, why, call, login, sess, armed, up, down, ctl, lines>>

\* PR_SET_PDEATHSIG.
ParentDeathSignal ==
  /\ parent = "dead" /\ armed /\ Alive(Child)
  /\ CallerEnds
  /\ UNCHANGED <<conf, boss, listen, why, call, login, sess, armed, up, down, ctl, lines>>

Over ==
  /\ ~ParentUp /\ ~Alive(pre) /\ ~Alive(post)
  /\ UNCHANGED vars

ParentStep ==
  \/ ParentGetCmd \/ ParentGetArg \/ DoLogin \/ Serve \/ ParentWrite \/ Wait
  \/ ForkFails \/ Fork \/ ParentEof \/ ParentChld
CallStep == CallWrite \/ CallRead \/ CallEof \/ DirectLogin \/ Direct
ChildStep ==
  \/ CallStep \/ LoginReturns \/ Http \/ NextStep \/ CallReturns \/ ChildEof
  \/ \E ok \in BOOLEAN : PreStart(ok) \/ PostStart(ok)
Client ==
  \/ \E u \in Users : User(u)
  \/ \E p \in Passwords : Pass(p) \/ Get(p)
  \/ Pasv \/ HangUp
  \/ \E b \in BOOLEAN : PreOther(b) \/ PostOther(b) \/ Port(b)
  \/ \E stor, refused \in BOOLEAN : Transfer(stor, refused)
Fault == ChildKilled \/ \E killed \in BOOLEAN : ParentTerm(killed)

Next == ParentStep \/ ChildStep \/ ParentDeathSignal \/ Expire \/ Client \/ Fault \/ Over
Spec == Init /\ [][Next]_vars

\* A process that can run does; accept, connect and the sleeps of a login have
\* timeouts; the kernel delivers what it promised; and the alarm set before
\* each line goes off when the client stays silent.
FairSpec ==
  Spec /\ WF_vars(ParentStep) /\ WF_vars(ChildStep) /\ WF_vars(ParentDeathSignal)
       /\ WF_vars(Expire /\ Child = "idle")

-----------------------------------------------------------------------------
(* Properties.                                                             *)

Kinds == {"cmd", "str", "int", "res", "fd"}
Ops == {"login", "active", "cleanup", "listen", "accept", "sock", "chown"}
Answers == {"ok", "bad", "yes", "no", "port", "fd", "fail", "badip"}

\* Where the processes are, and what they hold.
TypeOK ==
  /\ conf \in Confs
  /\ parent \in {"absent", "cmd", "args", "do", "reply", "wait", "fork", "dead"}
  /\ req \in Ops \cup {"none"} /\ need \in Seq(Kinds)
  /\ who \in Users \cup {"none"} /\ pw \in Passwords \cup {"none"}
  /\ pout \in Seq([k : Kinds, v : Answers]) /\ answer \in Answers \cup {"none"}
  /\ handler \in BOOLEAN /\ chld \in BOOLEAN /\ listen \in BOOLEAN
  /\ why \in {"none", "request", "bug", "bind", "eof", "child", "config", "term", "killed"}
  /\ pre \in {"start", "idle", "call", "dead"}
  /\ post \in {"none", "start", "idle", "next", "call", "dead"}
  /\ op \in Ops \cup {"none"} /\ want \in {"res", "int", "fd", "done"}
  /\ val \in Answers \cup {"none"}
  /\ user \in Users \cup {"none"} /\ fails \in 0 .. MaxFails
  /\ port \in BOOLEAN /\ armed \in BOOLEAN
  /\ ctl \in {"open", "readshut", "shut"} /\ lines \in 0 .. MaxLines

\* Neither process ever reads the socket pair expecting one thing (a command, a
\* string, an integer, a result, a descriptor) where the other wrote another,
\* and nothing is left on it between two requests.
InStep ==
  /\ ParentUp /\ parent \in {"cmd", "args"} /\ up # <<>> =>
       Head(up).k = IF parent = "cmd" THEN "cmd" ELSE Head(need)
  /\ Child = "call" /\ down # <<>> => Head(down).k = want
  /\ Alive(Child) /\ Child # "call" => up = <<>> /\ down = <<>>

\* No command of the session asks the parent for something it dies of (a second
\* passive socket, an accept without one, a connection beside one, a request not
\* enabled), and no bug() of the login or of the two checks is reached.
NoBadRequest == why \notin {"request", "bug"}

\* Parent and child agree on every item between them, and on what may be asked
\* for at all, over any sequence of commands and however either of them ends
\* (privsock.c, postprivparent.c against privops.c).
Agreed == TypeOK /\ InStep /\ NoBadRequest

\* Two processes never read the control connection: the child that logged in is
\* gone before the session is started (common_do_login waits for it).
OneReader == ~(Alive(pre) /\ Alive(post))

\* A recorded SIGCHLD is the end of the child the parent serves.  The exit of
\* the child that logged in is never taken for the end of the session.
ChldIsOver == ParentUp /\ chld => ~Alive(Child)

\* There is a session only for a name and a password that handle_login accepted:
\* common_do_login is not reached after a refusal, and neither is changed once
\* it is.
Vouched == post # "none" => LoginResult(conf, who, pw) \in {"anon", "real"}

\* Nobody goes on after max_login_fails refusals, those of the user list and
\* those of the password together: neither another guess nor a session.
GuessesLimited == Alive(pre) \/ Alive(post) => fails < MaxFails

\* A request of a child comes back, or the child ends (accept, connect and the
\* delays of a login are bounded; the end of the parent is seen by the read).
CallEnds == Child = "call" ~> Child # "call"

\* "Child died, so we'll do the same!", and no process lingers when the parent
\* dies: by PR_SET_PDEATHSIG, by the shutdown of handle_sigterm, or, when the
\* parent died before the child asked for the signal, by the idle timeout.
EndTogether ==
  /\ ParentUp /\ ~Alive(Child) ~> ~ParentUp \/ Alive(Child)
  /\ parent = "dead" ~> ~Alive(pre) /\ ~Alive(post)

\* What the children are promised: their requests happen one after the other on
\* the passive socket, once each, and return what the operation answered.
Promise == INSTANCE Broker WITH
  open <- listen,
  asked <- op,
  done <- answer,
  result <- IF op = "none" THEN val ELSE "none"
ImplementsBroker == Promise!Spec
=============================================================================
