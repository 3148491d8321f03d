--------------------------- MODULE PrivsepProofs ---------------------------
(***************************************************************************)
(* The login, the requests on the socket pair and the commands that make   *)
(* them, for every set of configurations, every number of login failures   *)
(* and every number of lines.  The change from the child that logs in to   *)
(* the session comes first (AInv), then what lies on the socket pair       *)
(* (Wire, Protocol), who asks (Callers, Names, Limits), and how far the    *)
(* command has come (Course); PInv is all of it.                           *)
(***************************************************************************)
EXTENDS Privsep, TLAPS

\* The steps are about sets and functions, save where arithmetic is named SMT.
USE ZenonT(60)

\* A session is there only once the child that logged in is gone, and the
\* parent starts it without a handler and without a recorded SIGCHLD.
Handover ==
  /\ post # "none" => pre = "dead"
  /\ parent = "fork" => pre = "dead"
  /\ parent \in {"wait", "fork"} => post = "none" /\ ~handler /\ ~chld
  /\ parent \in {"args", "do", "reply"} /\ req = "login" => post = "none"
  /\ parent = "reply" /\ req = "login" /\ answer = "ok" => ~handler
  /\ conf.one => parent = "absent"
  /\ chld \in BOOLEAN /\ handler \in BOOLEAN

Accepted == LoginResult(conf, who, pw) \in {"anon", "real"}

\* Where a login has been accepted; one process has no socket pair.
Acceptance ==
  /\ parent \in {"wait", "fork"} => Accepted
  /\ parent = "reply" /\ req = "login" /\ answer = "ok" => Accepted
  /\ conf.one => down = <<>>
  /\ conf.one /\ pre = "call" /\ want = "done" /\ val = "ok" => Accepted

\* No request of the session is a login.
Steps == {"cleanup", "noport", "port", "listen", "checks", "active", "accept", "sock", "chown"}
Plans == plan \in Seq(Steps) /\ (post = "call" => plan # <<>>)

HInv == Handover /\ ChldIsOver
AInv == HInv /\ Acceptance /\ Plans /\ Vouched

LEMMA HandoverInit == Init => HInv
BY DEF Init, HInv, Handover, ChldIsOver, ParentUp, Child, Alive

\* The processes come and go as common_do_login has it.
LEMMA HandoverNext == HInv /\ [Next]_vars => HInv'
<1> SUFFICES ASSUME HInv, [Next]_vars PROVE HInv'
  OBVIOUS
<1> USE DEF HInv, Handover, ChldIsOver, ParentUp, Child, Alive
<1>1. CASE ParentGetCmd
  BY <1>1 DEF ParentGetCmd, ParentEnds, sig, Allowed
<1>2. CASE ParentGetArg
  BY <1>2 DEF ParentGetArg, sig
<1>3. CASE DoLogin
  BY <1>3 DEF DoLogin, ParentEnds, Reply
<1>4. CASE Serve
  BY <1>4 DEF Serve, ParentEnds, sig
<1>5. CASE ParentWrite
  BY <1>5 DEF ParentWrite, ParentEnds, sig
<1>6. CASE Wait
  BY <1>6 DEF Wait, sig
<1>7. CASE ForkFails
  BY <1>7 DEF ForkFails, ParentEnds, sig
<1>8. CASE Fork
  BY <1>8 DEF Fork
<1>9. CASE ParentEof
  BY <1>9 DEF ParentEof, ParentEnds, sig
<1>10. CASE ParentChld
  BY <1>10 DEF ParentChld, ParentEnds, sig
<1>11. ASSUME NEW killed \in BOOLEAN, ParentTerm(killed) PROVE HInv'
  BY <1>11 DEF ParentTerm, ParentEnds, sig
<1>12. CASE CallWrite
  BY <1>12 DEF CallWrite, CallerEnds, PreEnds, PostEnds, sig, boss
<1>13. CASE CallRead
  BY <1>13 DEF CallRead, sig, boss
<1>14. CASE CallEof
  BY <1>14 DEF CallEof, CallerEnds, PreEnds, PostEnds, boss
<1>15. CASE DirectLogin
  BY <1>15 DEF DirectLogin, PreEnds, sig
<1>16. CASE Direct
  BY <1>16 DEF Direct, PostEnds, sig
<1>17. ASSUME NEW ok \in BOOLEAN, PreStart(ok) PROVE HInv'
  BY <1>17 DEF PreStart, PreEnds, sig, boss
<1>18. ASSUME NEW u \in Users, User(u) PROVE HInv'
  BY <1>18 DEF User, PreLine, Fail, PreEnds, sig, call
<1>19. ASSUME NEW p \in Passwords, Pass(p) PROVE HInv'
  BY <1>19 DEF Pass, PreLine, sig
<1>20. ASSUME NEW p \in Passwords, Get(p) PROVE HInv'
  BY <1>20 DEF Get, PreLine, sig
<1>21. ASSUME NEW quit \in BOOLEAN, PreOther(quit) PROVE HInv'
  BY <1>21 DEF PreOther, PreLine, PreEnds, sig, boss
<1>22. CASE LoginReturns
  BY <1>22 DEF LoginReturns, Fail, PreEnds, sig
<1>23. ASSUME NEW ok \in BOOLEAN, PostStart(ok) PROVE HInv'
  BY <1>23 DEF PostStart, PostEnds, sig, boss
<1>24. CASE Pasv
  BY <1>24 DEF Pasv, Command, PostLine, sig, boss
<1>25. ASSUME NEW legal \in BOOLEAN, Port(legal) PROVE HInv'
  BY <1>25 DEF Port, Command, PostLine, sig, boss
<1>26. ASSUME NEW stor \in BOOLEAN, NEW refused \in BOOLEAN, Transfer(stor, refused) PROVE HInv'
  BY <1>26 DEF Transfer, Command, PostLine, sig, boss
<1>27. ASSUME NEW quit \in BOOLEAN, PostOther(quit) PROVE HInv'
  BY <1>27 DEF PostOther, PostLine, PostEnds, sig, boss
<1>28. CASE Http
  BY <1>28 DEF Http, PostEnds, sig, boss
<1>29. CASE NextStep
  BY <1>29 DEF NextStep, sig
<1>30. CASE CallReturns
  BY <1>30 DEF CallReturns, PostEnds, sig
<1>31. CASE ChildEof
  BY <1>31 DEF ChildEof, CallerEnds, PreEnds, PostEnds, sig, boss
<1>32. CASE HangUp
  BY <1>32 DEF HangUp, sig, boss
<1>33. CASE Expire
  BY <1>33 DEF Expire, sig, boss
<1>34. CASE ChildKilled
  BY <1>34 DEF ChildKilled, CallerEnds, PreEnds, PostEnds, boss
<1>35. CASE ParentDeathSignal
  BY <1>35 DEF ParentDeathSignal, CallerEnds, PreEnds, PostEnds, boss
<1>36. CASE Over
  BY <1>36 DEF Over, vars, sig, boss
<1>37. CASE UNCHANGED vars
  BY <1>37 DEF vars, sig, boss
<1>. QED
  BY <1>1, <1>2, <1>3, <1>4, <1>5, <1>6, <1>7, <1>8, <1>9, <1>10, <1>11, <1>12, <1>13,
     <1>14, <1>15, <1>16, <1>17, <1>18, <1>19, <1>20, <1>21, <1>22, <1>23, <1>24, <1>25,
     <1>26, <1>27, <1>28, <1>29, <1>30, <1>31, <1>32, <1>33, <1>34, <1>35, <1>36, <1>37
     DEF Next, ParentStep, ChildStep, CallStep, Client, Fault

LEMMA AcceptanceInit == Init => AInv
<1> SUFFICES ASSUME Init PROVE AInv
  OBVIOUS
<1>1. HInv
  BY HandoverInit
<1>2. Acceptance /\ Plans /\ Vouched
  BY SMT DEF Init, Acceptance, Plans, Vouched
<1>. QED
  BY <1>1, <1>2 DEF AInv

\* The requests of the session's commands.
LEMMA PlansOfCommands ==
  /\ PasvPlan \in Seq(Steps)
  /\ \A legal \in BOOLEAN : PortPlan(legal) \in Seq(Steps)
  /\ ChecksPlan \in Seq(Steps)
  /\ \A stor \in BOOLEAN : TransferPlan(stor) \in Seq(Steps)
<1>1. /\ <<>> \in Seq(Steps) /\ <<"chown">> \in Seq(Steps) /\ <<"sock">> \in Seq(Steps)
      /\ <<"checks">> \in Seq(Steps) /\ <<"checks", "active">> \in Seq(Steps)
      /\ <<"cleanup", "noport">> \in Seq(Steps) /\ <<"noport", "cleanup">> \in Seq(Steps)
  BY SMT DEF Steps
<1>2. /\ <<"cleanup", "noport", "listen">> \in Seq(Steps)
      /\ <<"cleanup", "noport", "port">> \in Seq(Steps)
      /\ <<"active", "active", "accept">> \in Seq(Steps)
      /\ <<"active", "active", "active">> \in Seq(Steps)
  BY SMT DEF Steps
<1>3. \A s, t \in Seq(Steps) : s \o t \in Seq(Steps)
  BY SMT
<1>4. PasvPlan \in Seq(Steps)
  BY <1>2 DEF PasvPlan
<1>5. ASSUME NEW legal \in BOOLEAN PROVE PortPlan(legal) \in Seq(Steps)
  BY <1>1, <1>2 DEF PortPlan
<1>6. ChecksPlan \in Seq(Steps)
  BY <1>1 DEF ChecksPlan
<1>7. RemotePlan \in Seq(Steps)
  BY <1>1, <1>2, <1>3 DEF RemotePlan
<1>8. ASSUME NEW stor \in BOOLEAN PROVE TransferPlan(stor) \in Seq(Steps)
  BY <1>1, <1>3, <1>6, <1>7 DEF TransferPlan
<1>. QED
  BY <1>4, <1>5, <1>6, <1>8

\* A session is started for an accepted login, whose name and password stay.
LEMMA AcceptanceNext == AInv /\ [Next]_vars => AInv'
<1> SUFFICES ASSUME AInv, [Next]_vars PROVE AInv'
  OBVIOUS
<1>0. HInv'
  BY HandoverNext DEF AInv
<1> SUFFICES (Acceptance /\ Plans /\ Vouched)'
  BY <1>0 DEF AInv
<1>a. /\ post # "none" => pre = "dead"
      /\ parent \in {"args", "do", "reply"} /\ req = "login" => post = "none"
      /\ conf.one => parent = "absent"
      /\ Acceptance /\ Plans /\ Vouched
  BY DEF AInv, HInv, Handover
<1> USE <1>a DEF Acceptance, Accepted, Plans, Vouched
<1>1. CASE ParentGetCmd
  BY <1>1 DEF ParentGetCmd, ParentEnds, call, sess
<1>2. CASE ParentGetArg
  BY <1>2 DEF ParentGetArg, call, sess
<1>3. CASE DoLogin
  <2>1. LoginResult(conf, who, pw) \in {"fail", "anon", "die", "real"}
    BY DEF LoginResult
  <2>. QED
    BY <1>3, <2>1 DEF DoLogin, ParentEnds, call, sess
<1>4. CASE Serve
  BY <1>4 DEF Serve, ParentEnds, call, sess
<1>5. CASE ParentWrite
  BY <1>5 DEF ParentWrite, ParentEnds, call, sess
<1>6. CASE Wait
  BY <1>6 DEF Wait, call, sess
<1>7. CASE ForkFails
  BY <1>7 DEF ForkFails, ParentEnds, call, sess
<1>8. CASE Fork
  BY <1>8 DEF Fork, sess
<1>9. CASE ParentEof
  BY <1>9 DEF ParentEof, ParentEnds, call, sess
<1>10. CASE ParentChld
  BY <1>10 DEF ParentChld, ParentEnds, call, sess
<1>11. ASSUME NEW killed \in BOOLEAN, ParentTerm(killed) PROVE (Acceptance /\ Plans /\ Vouched)'
  BY <1>11 DEF ParentTerm, ParentEnds, call, sess
<1>12. CASE CallWrite
  BY <1>12 DEF CallWrite, CallerEnds, PreEnds, PostEnds, sig, boss, sess
<1>13. CASE CallRead
  BY <1>13 DEF CallRead, sess, boss
<1>14. CASE CallEof
  BY <1>14 DEF CallEof, CallerEnds, PreEnds, PostEnds, boss, call, sess
<1>15. CASE DirectLogin
  BY <1>15 DEF DirectLogin, PreEnds, sess
<1>16. CASE Direct
  BY <1>16 DEF Direct, PostEnds, sess
<1>17. ASSUME NEW ok \in BOOLEAN, PreStart(ok) PROVE (Acceptance /\ Plans /\ Vouched)'
  BY <1>17 DEF PreStart, PreEnds, boss, call, sess
<1>18. ASSUME NEW u \in Users, User(u) PROVE (Acceptance /\ Plans /\ Vouched)'
  BY <1>18 DEF User, PreLine, Fail, PreEnds, call, sess, Ask, First
<1>19. ASSUME NEW p \in Passwords, Pass(p) PROVE (Acceptance /\ Plans /\ Vouched)'
  BY <1>19 DEF Pass, PreLine, call, sess, Ask, First
<1>20. ASSUME NEW p \in Passwords, Get(p) PROVE (Acceptance /\ Plans /\ Vouched)'
  BY <1>20 DEF Get, PreLine, sess, Ask, First
<1>21. ASSUME NEW quit \in BOOLEAN, PreOther(quit) PROVE (Acceptance /\ Plans /\ Vouched)'
  BY <1>21 DEF PreOther, PreLine, PreEnds, boss, call, sess
<1>22. CASE LoginReturns
  BY <1>22 DEF LoginReturns, Fail, PreEnds, sess
<1>23. ASSUME NEW ok \in BOOLEAN, PostStart(ok) PROVE (Acceptance /\ Plans /\ Vouched)'
  BY <1>23 DEF PostStart, PostEnds, boss, call, sess
<1>24. CASE Pasv
  BY <1>24, PlansOfCommands DEF Pasv, Command, PostLine, boss, call
<1>25. ASSUME NEW legal \in BOOLEAN, Port(legal) PROVE (Acceptance /\ Plans /\ Vouched)'
  BY <1>25, PlansOfCommands DEF Port, Command, PostLine, boss, call
<1>26. ASSUME NEW stor \in BOOLEAN, NEW refused \in BOOLEAN, Transfer(stor, refused) PROVE (Acceptance /\ Plans /\ Vouched)'
  BY <1>26, PlansOfCommands DEF Transfer, Command, PostLine, boss, call
<1>27. ASSUME NEW quit \in BOOLEAN, PostOther(quit) PROVE (Acceptance /\ Plans /\ Vouched)'
  BY <1>27 DEF PostOther, PostLine, PostEnds, boss, call, sess
<1>28. CASE Http
  BY <1>28 DEF Http, PostEnds, boss, call, sess
<1>29. CASE NextStep
  BY SMT, <1>29 DEF NextStep, Ask, call, Steps
<1>30. CASE CallReturns
  <2>1. plan # <<>> /\ Tail(plan) \in Seq(Steps) /\ <<>> \in Seq(Steps)
    BY SMT, <1>30 DEF CallReturns
  <2>2. plan' \in {plan, <<>>, Tail(plan)} /\ (post' = "dead" \/ post' = "next")
    BY <1>30 DEF CallReturns, PostEnds
  <2>3. UNCHANGED <<conf, parent, req, who, pw, pre, down, want, val>> /\ answer' = "none"
    BY <1>30 DEF CallReturns, PostEnds
  <2>4. post # "none"
    BY <1>30 DEF CallReturns
  <2>. QED
    BY <2>1, <2>2, <2>3, <2>4
<1>31. CASE ChildEof
  BY <1>31 DEF ChildEof, CallerEnds, PreEnds, PostEnds, boss, call, sess
<1>32. CASE HangUp
  BY <1>32 DEF HangUp, boss, call, sess
<1>33. CASE Expire
  BY <1>33 DEF Expire, boss, call, sess
<1>34. CASE ChildKilled
  BY <1>34 DEF ChildKilled, CallerEnds, PreEnds, PostEnds, boss, call, sess
<1>35. CASE ParentDeathSignal
  BY <1>35 DEF ParentDeathSignal, CallerEnds, PreEnds, PostEnds, boss, call, sess
<1>36. CASE Over
  BY <1>36 DEF Over, vars, boss, call, sess
<1>37. CASE UNCHANGED vars
  BY <1>37 DEF vars, boss, call, sess
<1>. QED
  BY <1>1, <1>2, <1>3, <1>4, <1>5, <1>6, <1>7, <1>8, <1>9, <1>10, <1>11, <1>12, <1>13,
     <1>14, <1>15, <1>16, <1>17, <1>18, <1>19, <1>20, <1>21, <1>22, <1>23, <1>24, <1>25,
     <1>26, <1>27, <1>28, <1>29, <1>30, <1>31, <1>32, <1>33, <1>34, <1>35, <1>36, <1>37
     DEF Next, ParentStep, ChildStep, CallStep, Client, Fault

\* Both invariants hold of every reachable state.
THEOREM HandoverInvariance == Spec => []AInv
<1>1. Init => AInv
  BY AcceptanceInit
<1>2. AInv /\ [Next]_vars => AInv'
  BY AcceptanceNext
<1>. QED
  BY <1>1, <1>2, PTL DEF Spec

\* The child that logged in has left the control connection before the session
\* reads it (common_do_login), whenever either process or the parent dies.
THEOREM ReadersExclude == Spec => []OneReader
<1>1. AInv => OneReader
  BY DEF AInv, HInv, Handover, OneReader, Alive
<1>. QED
  BY <1>1, HandoverInvariance, PTL

\* handle_sigchld never takes the exit of the child that logged in for the end
\* of the session.
THEOREM ChildEndsAreEnds == Spec => []ChldIsOver
<1>1. AInv => ChldIsOver
  BY DEF AInv, HInv
<1>. QED
  BY <1>1, HandoverInvariance, PTL

\* There is a session only for a login that handle_login accepted, in two
\* processes and in one.
THEOREM SessionsVouched == Spec => []Vouched
<1>1. AInv => Vouched
  BY DEF AInv
<1>. QED
  BY <1>1, HandoverInvariance, PTL
-----------------------------------------------------------------------------
(***************************************************************************)
(* The requests on the socket pair.                                        *)
(***************************************************************************)
Words == Ops \cup Users \cup Passwords \cup Answers \cup {"ssl", "none"}
Token == [k : Kinds, v : Words]

\* The items of a request, and which one has r more behind it.
Parts(o) == IF o = "login" THEN 5 ELSE IF o \in {"sock", "chown"} THEN 2 ELSE 1
ItemKind(o, r) ==
  IF r = Parts(o) - 1 THEN "cmd" ELSE IF o = "chown" THEN "fd"
  ELSE IF o = "login" /\ r \in {2, 3} THEN "str" ELSE "int"

\* The names that the child hands on: without local_enable, only the anonymous.
Named(c) == IF c.local THEN Users ELSE {"anon"}
IsItem(c, t, o, r) ==
  /\ r < Parts(o) /\ t.k = ItemKind(o, r)
  /\ t.k = "cmd" => t.v = o
  /\ o = "login" /\ r = 3 => t.v \in Named(c)
  /\ o = "login" /\ r = 2 => t.v \in Passwords

\* The items of the answer a, in the same way, and what the child reads next
\* when r of them are still to come.
AnswerParts(o, a) == IF o = "accept" \/ a = "fd" THEN 2 ELSE 1
AnswerItem(o, a, r) ==
  IF r = 1 THEN Res(IF a = "fd" THEN "ok" ELSE "bad")
  ELSE IF a = "fd" THEN Fd
  ELSE IF o \in {"active", "listen", "accept"} THEN IntTok(a) ELSE Res(a)
Awaited(o, a, r) == IF r = 0 THEN "done" ELSE AnswerItem(o, a, r - 1).k

\* What lies on the socket pair is the rest of one request, or of its answer.
Wire ==
  /\ cout \in Seq(Token) /\ up \in Seq(Token) /\ down \in Seq([k : Kinds, v : Answers])
  /\ \A i \in 1 .. Len(cout) : IsItem(conf, cout[i], op, Len(cout) - i)
  /\ \A i \in 1 .. Len(up) : IsItem(conf, up[i], op, Len(cout) + Len(up) - i)
  /\ \A i \in 1 .. Len(pout) : pout[i] = AnswerItem(op, answer, Len(pout) - i)
  /\ \A i \in 1 .. Len(down) : down[i] = AnswerItem(op, answer, Len(pout) + Len(down) - i)

NoCall ==
  /\ answer = "none" /\ up = <<>> /\ down = <<>> /\ cout = <<>> /\ pout = <<>>
  /\ parent \in {"absent", "cmd", "wait", "fork", "dead"}
  /\ parent \in {"wait", "fork"} => pre = "dead"

Asking ==
  /\ down = <<>> /\ pout = <<>> /\ want = First(op)
  /\ parent \in {"absent", "cmd", "args", "do", "dead"}
  /\ conf.one => up = <<>> /\ cout = <<>>
  /\ parent = "cmd" => Len(up) + Len(cout) = Parts(op)
  /\ parent = "args" => /\ req = op /\ Len(need) = Len(up) + Len(cout)
                        /\ Len(need) \in 1 .. Parts(op) - 1
                        /\ \A i \in 1 .. Len(need) : need[i] = ItemKind(op, Len(need) - i)
  /\ parent = "do" => req = op /\ up = <<>> /\ cout = <<>>

\* The answers there are to a request.
AnswerOf(o) ==
  IF o = "accept" THEN {"fd", "fail", "badip"} ELSE IF o = "sock" THEN {"fd", "bad"}
  ELSE IF o = "login" THEN {"ok", "bad"} ELSE Answers \ {"fd"}

Answering ==
  /\ up = <<>> /\ cout = <<>> /\ answer \in AnswerOf(op)
  /\ parent \in {"absent", "cmd", "reply", "wait", "fork", "dead"}
  /\ Len(down) + Len(pout) <= AnswerParts(op, answer)
  /\ conf.one => down = <<>> /\ pout = <<>>
  /\ want = Awaited(op, answer, Len(down) + Len(pout))
  /\ want = "done" => val = answer
  /\ parent = "reply" => req = op /\ pout # <<>>
  /\ parent \in {"cmd", "wait", "fork"} => pout = <<>>
  /\ parent \in {"wait", "fork"} => op = "login" /\ answer = "ok"

Protocol ==
  /\ op = "none" => NoCall
  /\ op # "none" /\ answer = "none" => Asking
  /\ op # "none" /\ answer # "none" => Answering

\* Who has a request under way.
Callers ==
  /\ Child = "call" => op # "none"
  /\ Alive(Child) /\ Child # "call" => op = "none"
  /\ IF post = "none" THEN op \in {"none", "login"} ELSE op # "login"

\* The names that get to handle_login.
Names ==
  /\ user \in Named(conf) \cup {"none"} /\ who \in Named(conf) \cup {"none"}
  /\ parent = "args" /\ req = "login" /\ Len(need) <= 3 => who # "none"
  /\ parent = "do" /\ req = "login" => who # "none"
  /\ conf.one /\ pre = "call" => who # "none"

Limits ==
  /\ fails \in 0 .. MaxFails
  /\ fails = MaxFails => /\ pre = "dead" /\ post = "none" /\ op = "none"
                         /\ parent \notin {"wait", "fork"}

(***************************************************************************)
(* The commands of the session.                                            *)
(***************************************************************************)

\* Which request of a command comes after which.
Follows(a, b) ==
  \/ a = "cleanup" /\ b = "noport"
  \/ a = "noport" /\ b \in {"listen", "port", "cleanup"}
  \/ a = "checks" /\ b \in {"active", "chown"}
  \/ a = "active" /\ b \in {"active", "chown", "accept", "sock", "noport"}
  \/ a = "chown" /\ b = "active"
  \/ a \in {"accept", "sock"} /\ b = "noport"

Orderly(c, p, hasPort) ==
  /\ p \in Seq(Steps)
  /\ \A i \in 1 .. Len(p) - 1 : Follows(p[i], p[i + 1])
  /\ \A i \in 1 .. Len(p) : /\ p[i] = "noport" => i + 1 >= Len(p)
                            /\ p[i] = "checks" => i = 1
                            /\ p[i] = "chown" => c.chown
                            /\ p[i] = "accept" => ~hasPort /\ i + 2 = Len(p)
                            /\ p[i] = "sock" => hasPort /\ i + 2 = Len(p)
  /\ \A i \in 1 .. Len(p) - 1 :
       p[i] \in {"active", "accept", "sock"} /\ p[i + 1] = "noport" =>
         i + 2 = Len(p) /\ p[i + 2] = "cleanup"

\* What the first request of the rest of a command finds.
Ready(p, hasPort, open) ==
  IF p = <<>> THEN ~(hasPort /\ open)
  ELSE /\ Head(p) \in {"cleanup", "checks"} => ~(hasPort /\ open)
       /\ Head(p) = "noport" => ~open \/ (Len(p) = 2 /\ p[2] = "cleanup")
       /\ Head(p) = "listen" => ~hasPort /\ ~open
       /\ Head(p) = "port" => ~open
       /\ Head(p) \in {"active", "chown", "accept", "sock"} => (hasPort <=> ~open)

\* What the request leaves, until it has returned.
Left(o, a, p, hasPort, open) ==
  /\ o = "cleanup" => ~open
  /\ o = "active" => Ready(p, hasPort, open) /\ a = (IF open THEN "yes" ELSE "no")
  /\ o = "listen" => ~hasPort /\ open
  /\ o \in {"chown", "accept", "sock"} => (hasPort <=> ~open)

Course ==
  /\ port \in BOOLEAN /\ listen \in BOOLEAN
  /\ post = "none" => plan = <<>> /\ ~port /\ ~listen
  /\ Orderly(conf, plan, port)
  /\ post # "none" /\ op # "none" =>
       plan # <<>> /\ op = (IF Head(plan) = "checks" THEN "active" ELSE Head(plan))
  /\ op = "none" \/ answer = "none" => Ready(plan, port, listen)
  /\ op # "none" /\ answer # "none" /\ post # "none" => Left(op, answer, plan, port, listen)
  /\ post \in {"start", "idle"} => plan = <<>>

PInv == TypeOK /\ AInv /\ Wire /\ Protocol /\ Callers /\ Names /\ Limits /\ Course /\ NoBadRequest

LEMMA Tokens ==
  ASSUME NEW k \in Kinds, NEW v \in Words
  PROVE  Tok(k, v) \in Token /\ Tok(k, v).k = k /\ Tok(k, v).v = v
BY DEF Tok, Token

\* The sequences that the two processes write, item by item.
LEMMA RequestItems ==
  ASSUME NEW o \in Ops, NEW u, NEW p, o = "login" => u \in Named(conf) /\ p \in Passwords
  PROVE  /\ Request(o, u, p) \in Seq(Token) /\ Len(Request(o, u, p)) = Parts(o)
         /\ \A i \in 1 .. Parts(o) : IsItem(conf, Request(o, u, p)[i], o, Parts(o) - i)
<1>0. /\ {"cmd", "str", "int", "fd"} \subseteq Kinds /\ {o, "ssl", "port", "fd"} \subseteq Words
      /\ o = "login" => u \in Words /\ p \in Words
  BY DEF Kinds, Words, Ops, Named, Users, Passwords, Answers
<1>1. CASE o = "login"
  <2>1. Request(o, u, p) = <<Tok("cmd", o), Tok("str", u), Tok("str", p), Tok("int", "ssl"), Tok("int", "ssl")>>
    BY <1>1 DEF Request, Cmd, IntTok
  <2>2. /\ Tok("cmd", o) \in Token /\ IsItem(conf, Tok("cmd", o), o, 4)
        /\ Tok("str", u) \in Token /\ IsItem(conf, Tok("str", u), o, 3)
        /\ Tok("str", p) \in Token /\ IsItem(conf, Tok("str", p), o, 2)
        /\ Tok("int", "ssl") \in Token /\ IsItem(conf, Tok("int", "ssl"), o, 1) /\ IsItem(conf, Tok("int", "ssl"), o, 0)
    BY SMT, <1>0, <1>1, Tokens DEF IsItem, ItemKind, Parts
  <2>3. /\ Request(o, u, p) \in Seq(Token) /\ Len(Request(o, u, p)) = 5
        /\ Request(o, u, p)[1] = Tok("cmd", o) /\ Request(o, u, p)[2] = Tok("str", u)
        /\ Request(o, u, p)[3] = Tok("str", p) /\ Request(o, u, p)[4] = Tok("int", "ssl")
        /\ Request(o, u, p)[5] = Tok("int", "ssl")
    BY SMT, <2>1, <2>2
  <2>4. Parts(o) = 5
    BY <1>1 DEF Parts
  <2>. QED
    BY SMT, <2>2, <2>3, <2>4
<1>2. CASE o = "sock"
  <2>1. Request(o, u, p) = <<Tok("cmd", o), Tok("int", "port")>>
    BY <1>2 DEF Request, Cmd, IntTok
  <2>2. /\ Tok("cmd", o) \in Token /\ IsItem(conf, Tok("cmd", o), o, 1)
        /\ Tok("int", "port") \in Token /\ IsItem(conf, Tok("int", "port"), o, 0)
    BY SMT, <1>0, <1>2, Tokens DEF IsItem, ItemKind, Parts
  <2>3. /\ Request(o, u, p) \in Seq(Token) /\ Len(Request(o, u, p)) = 2
        /\ Request(o, u, p)[1] = Tok("cmd", o) /\ Request(o, u, p)[2] = Tok("int", "port")
    BY SMT, <2>1, <2>2
  <2>4. Parts(o) = 2
    BY <1>2 DEF Parts
  <2>. QED
    BY SMT, <2>2, <2>3, <2>4
<1>3. CASE o = "chown"
  <2>1. Request(o, u, p) = <<Tok("cmd", o), Tok("fd", "fd")>>
    BY <1>3 DEF Request, Cmd, Fd
  <2>2. /\ Tok("cmd", o) \in Token /\ IsItem(conf, Tok("cmd", o), o, 1)
        /\ Tok("fd", "fd") \in Token /\ IsItem(conf, Tok("fd", "fd"), o, 0)
    BY SMT, <1>0, <1>3, Tokens DEF IsItem, ItemKind, Parts
  <2>3. /\ Request(o, u, p) \in Seq(Token) /\ Len(Request(o, u, p)) = 2
        /\ Request(o, u, p)[1] = Tok("cmd", o) /\ Request(o, u, p)[2] = Tok("fd", "fd")
    BY SMT, <2>1, <2>2
  <2>4. Parts(o) = 2
    BY <1>3 DEF Parts
  <2>. QED
    BY SMT, <2>2, <2>3, <2>4
<1>4. CASE o \notin {"login", "sock", "chown"}
  <2>1. Request(o, u, p) = <<Tok("cmd", o)>>
    BY <1>4 DEF Request, Cmd
  <2>2. Tok("cmd", o) \in Token /\ IsItem(conf, Tok("cmd", o), o, 0)
    BY SMT, <1>0, <1>4, Tokens DEF IsItem, ItemKind, Parts
  <2>. QED
    BY SMT, <1>4, <2>1, <2>2 DEF Parts
<1>. QED
  BY <1>1, <1>2, <1>3, <1>4

LEMMA ArgItems ==
  ASSUME NEW o \in Ops
  PROVE  /\ Args(o) \in Seq(Kinds) /\ Len(Args(o)) = Parts(o) - 1
         /\ \A i \in 1 .. Parts(o) - 1 : Args(o)[i] = ItemKind(o, Parts(o) - 1 - i)
<1>0. {"str", "int", "fd"} \subseteq Kinds
  BY DEF Kinds
<1>1. CASE o = "login"
  <2>1. Args(o) = <<"str", "str", "int", "int">>
    BY <1>1 DEF Args
  <2>2. ItemKind(o, 3) = "str" /\ ItemKind(o, 2) = "str" /\ ItemKind(o, 1) = "int" /\ ItemKind(o, 0) = "int"
    BY SMT, <1>1 DEF ItemKind, Parts
  <2>3. /\ Args(o) \in Seq(Kinds) /\ Len(Args(o)) = 4
        /\ Args(o)[1] = "str" /\ Args(o)[2] = "str" /\ Args(o)[3] = "int" /\ Args(o)[4] = "int"
    BY SMT, <1>0, <2>1
  <2>4. Parts(o) - 1 = 4 /\ \A i : 4 - i = Parts(o) - 1 - i
    BY SMT, <1>1 DEF Parts
  <2>. QED
    BY SMT, <2>2, <2>3, <2>4
<1>2. CASE o = "sock"
  <2>1. Args(o) = <<"int">>
    BY <1>2 DEF Args
  <2>2. ItemKind(o, 0) = "int"
    BY SMT, <1>2 DEF ItemKind, Parts
  <2>3. /\ Args(o) \in Seq(Kinds) /\ Len(Args(o)) = 1
        /\ Args(o)[1] = "int"
    BY SMT, <1>0, <2>1
  <2>4. Parts(o) - 1 = 1 /\ \A i : 1 - i = Parts(o) - 1 - i
    BY SMT, <1>2 DEF Parts
  <2>. QED
    BY SMT, <2>2, <2>3, <2>4
<1>3. CASE o = "chown"
  <2>1. Args(o) = <<"fd">>
    BY <1>3 DEF Args
  <2>2. ItemKind(o, 0) = "fd"
    BY SMT, <1>3 DEF ItemKind, Parts
  <2>3. /\ Args(o) \in Seq(Kinds) /\ Len(Args(o)) = 1
        /\ Args(o)[1] = "fd"
    BY SMT, <1>0, <2>1
  <2>4. Parts(o) - 1 = 1 /\ \A i : 1 - i = Parts(o) - 1 - i
    BY SMT, <1>3 DEF Parts
  <2>. QED
    BY SMT, <2>2, <2>3, <2>4
<1>4. CASE o \notin {"login", "sock", "chown"}
  <2>1. Args(o) = <<>>
    BY <1>4 DEF Args
  <2>. QED
    BY SMT, <1>4, <2>1 DEF Parts
<1>. QED
  BY <1>1, <1>2, <1>3, <1>4

LEMMA ReplyItems ==
  ASSUME NEW o \in Ops, NEW a \in AnswerOf(o)
  PROVE  /\ Reply(o, a) \in Seq([k : Kinds, v : Answers])
         /\ Len(Reply(o, a)) = AnswerParts(o, a)
         /\ \A i \in 1 .. AnswerParts(o, a) : Reply(o, a)[i] = AnswerItem(o, a, AnswerParts(o, a) - i)
<1>0. /\ a \in Answers /\ {"ok", "bad", "fd"} \subseteq Answers /\ {"res", "int", "fd"} \subseteq Kinds
      /\ a = "fd" => o \in {"accept", "sock"}
  BY DEF AnswerOf, Answers, Kinds
<1>a. \A x \in Answers : /\ Res(x) \in [k : Kinds, v : Answers] /\ IntTok(x) \in [k : Kinds, v : Answers]
                         /\ Fd \in [k : Kinds, v : Answers]
  BY <1>0 DEF Res, IntTok, Fd, Tok
<1>1. CASE o \in {"active", "listen"}
  <2>0. a # "fd" /\ o # "accept"
    BY <1>0, <1>1
  <2>1. Reply(o, a) = <<IntTok(a)>>
    BY <1>1, <2>0 DEF Reply
  <2>2. AnswerItem(o, a, 0) = IntTok(a) /\ AnswerParts(o, a) = 1
    BY SMT, <1>0, <1>1 DEF AnswerItem, AnswerParts
  <2>. QED
    BY SMT, <1>0, <1>a, <2>1, <2>2
<1>2. CASE a = "fd"
  <2>1. o \notin {"active", "listen"}
    BY <1>0, <1>2
  <2>2. Reply(o, a) = <<Res("ok"), Fd>>
    BY <1>2, <2>1 DEF Reply
  <2>3. AnswerItem(o, a, 1) = Res("ok") /\ AnswerItem(o, a, 0) = Fd /\ AnswerParts(o, a) = 2
    BY SMT, <1>2 DEF AnswerItem, AnswerParts
  <2>4. Res("ok") \in [k : Kinds, v : Answers] /\ Fd \in [k : Kinds, v : Answers]
    BY <1>0, <1>a
  <2>5. /\ Reply(o, a) \in Seq([k : Kinds, v : Answers]) /\ Len(Reply(o, a)) = 2
        /\ Reply(o, a)[1] = Res("ok") /\ Reply(o, a)[2] = Fd
    BY SMT, <2>2, <2>4
  <2>. QED
    BY SMT, <2>3, <2>5
<1>3. CASE o = "accept" /\ a # "fd"
  <2>0. o \notin {"active", "listen"}
    BY <1>3
  <2>1. Reply(o, a) = <<Res("bad"), IntTok(a)>>
    BY <1>3, <2>0 DEF Reply
  <2>2. AnswerItem(o, a, 1) = Res("bad") /\ AnswerItem(o, a, 0) = IntTok(a) /\ AnswerParts(o, a) = 2
    BY SMT, <1>3 DEF AnswerItem, AnswerParts
  <2>4. Res("bad") \in [k : Kinds, v : Answers] /\ IntTok(a) \in [k : Kinds, v : Answers]
    BY <1>0, <1>a
  <2>5. /\ Reply(o, a) \in Seq([k : Kinds, v : Answers]) /\ Len(Reply(o, a)) = 2
        /\ Reply(o, a)[1] = Res("bad") /\ Reply(o, a)[2] = IntTok(a)
    BY SMT, <2>1, <2>4
  <2>. QED
    BY SMT, <2>2, <2>5
<1>4. CASE o \notin {"active", "listen", "accept"} /\ a # "fd"
  <2>1. Reply(o, a) = <<Res(a)>>
    BY <1>4 DEF Reply
  <2>2. AnswerItem(o, a, 0) = Res(a) /\ AnswerParts(o, a) = 1
    BY SMT, <1>4 DEF AnswerItem, AnswerParts
  <2>. QED
    BY SMT, <1>0, <1>a, <2>1, <2>2
<1>. QED
  BY <1>1, <1>2, <1>3, <1>4

(***************************************************************************)
(* A step that leaves the request under way, the command and the login as  *)
(* they are: processes start and end, and the client comes and goes.       *)
(***************************************************************************)
Calm ==
  /\ UNCHANGED <<conf, req, need, who, pw, pout, answer, listen, op, cout, want, val, user, fails,
                 port, plan, up, down>>
  /\ parent' = parent \/ (ParentUp /\ parent' = "dead")
  /\ why' \in {why, "eof", "child", "config", "term", "killed"}
  /\ pre' = pre \/ pre' = "dead" \/ (pre = "start" /\ pre' = "idle")
  /\ post' = post \/ (post # "none" /\ post' = "dead") \/ (post = "start" /\ post' = "idle")

\* The steps that do not.
Stirring ==
  \/ ParentGetCmd \/ ParentGetArg \/ DoLogin \/ Serve \/ ParentWrite \/ Wait \/ Fork
  \/ CallWrite \/ CallRead \/ DirectLogin \/ Direct \/ LoginReturns \/ NextStep \/ CallReturns
  \/ (\E u \in Users : User(u)) \/ (\E p \in Passwords : Pass(p) \/ Get(p))
  \/ Pasv \/ (\E legal \in BOOLEAN : Port(legal))
  \/ (\E stor, refused \in BOOLEAN : Transfer(stor, refused))

LEMMA CalmOrStirring == [Next]_vars => Calm \/ Stirring
<1> SUFFICES ASSUME [Next]_vars, ~Stirring PROVE Calm
  OBVIOUS
<1> USE DEF boss, sig, call, login, sess
<1>1. ASSUME ForkFails PROVE Calm
  BY <1>1 DEF ForkFails, ParentEnds, ParentUp, Calm
<1>2. ASSUME ParentEof PROVE Calm
  BY <1>2 DEF ParentEof, ParentEnds, ParentUp, Calm
<1>3. ASSUME ParentChld PROVE Calm
  BY <1>3 DEF ParentChld, ParentEnds, ParentUp, Calm
<1>4. ASSUME NEW killed \in BOOLEAN, ParentTerm(killed) PROVE Calm
  BY <1>4 DEF ParentTerm, ParentEnds, ParentUp, Calm
<1>5. ASSUME CallEof PROVE Calm
  BY <1>5 DEF CallEof, CallerEnds, PreEnds, PostEnds, Calm
<1>6. ASSUME NEW ok \in BOOLEAN, PreStart(ok) PROVE Calm
  BY <1>6 DEF PreStart, PreEnds, Calm
<1>7. ASSUME NEW ok \in BOOLEAN, PostStart(ok) PROVE Calm
  BY <1>7 DEF PostStart, PostEnds, Calm
<1>8. ASSUME NEW quit \in BOOLEAN, PreOther(quit) PROVE Calm
  BY <1>8 DEF PreOther, PreEnds, Calm
<1>9. ASSUME NEW quit \in BOOLEAN, PostOther(quit) PROVE Calm
  BY <1>9 DEF PostOther, PostLine, PostEnds, Calm
<1>10. ASSUME Http PROVE Calm
  BY <1>10 DEF Http, PostEnds, Calm
<1>11. ASSUME ChildEof PROVE Calm
  BY <1>11 DEF ChildEof, CallerEnds, PreEnds, PostEnds, Calm
<1>12. ASSUME HangUp PROVE Calm
  BY <1>12 DEF HangUp, Calm
<1>13. ASSUME Expire PROVE Calm
  BY <1>13 DEF Expire, Calm
<1>14. ASSUME ChildKilled PROVE Calm
  BY <1>14 DEF ChildKilled, CallerEnds, PreEnds, PostEnds, Calm
<1>15. ASSUME ParentDeathSignal PROVE Calm
  BY <1>15 DEF ParentDeathSignal, CallerEnds, PreEnds, PostEnds, Calm
<1>16. ASSUME UNCHANGED vars PROVE Calm
  BY <1>16 DEF vars, Calm
<1>17. ASSUME Over PROVE Calm
  BY <1>16, <1>17 DEF Over
<1>. QED
  BY <1>1, <1>2, <1>3, <1>4, <1>5, <1>6, <1>7, <1>8, <1>9, <1>10, <1>11, <1>12, <1>13, <1>14, <1>15, <1>16, <1>17
     DEF Next, ParentStep, ChildStep, CallStep, Client, Fault, Stirring

(***************************************************************************)
(* The socket pair.                                                        *)
(***************************************************************************)
LEMMA Tails ==
  ASSUME NEW S, NEW s \in Seq(S), s # <<>>
  PROVE  /\ Head(s) = s[1] /\ Head(s) \in S /\ Len(s) \in Nat \ {0}
         /\ Tail(s) \in Seq(S) /\ Len(Tail(s)) = Len(s) - 1
         /\ \A i \in 1 .. Len(s) - 1 : Tail(s)[i] = s[i + 1]
         /\ Tail(s) = <<>> <=> Len(s) = 1
<1>1. Len(s) \in Nat \ {0}
  BY SMT
<1>2. Head(s) = s[1] /\ s[1] \in S
  BY SMT, <1>1
<1>3. Tail(s) \in Seq(S) /\ Len(Tail(s)) = Len(s) - 1
  BY SMT, <1>1
<1>4. \A i \in 1 .. Len(s) - 1 : Tail(s)[i] = s[i + 1]
  BY SMT, <1>1
<1>5. \A t \in Seq(S) : t = <<>> <=> Len(t) = 0
  BY SMT
<1>6. Tail(s) = <<>> <=> Len(Tail(s)) = 0
  BY <1>3, <1>5
<1>7. Len(Tail(s)) = 0 <=> Len(s) = 1
  BY SMT, <1>1, <1>3
<1>8. Tail(s) = <<>> <=> Len(s) = 1
  BY <1>6, <1>7
<1>. QED
  BY <1>1, <1>2, <1>3, <1>4, <1>8

LEMMA Appends ==
  ASSUME NEW S, NEW s \in Seq(S), NEW e \in S
  PROVE  /\ Append(s, e) \in Seq(S) /\ Len(Append(s, e)) = Len(s) + 1
         /\ \A i \in 1 .. Len(s) : Append(s, e)[i] = s[i]
         /\ Append(s, e)[Len(s) + 1] = e
         /\ Append(s, e) # <<>>
BY SMT

\* A request is started on an empty socket pair.
LEMMA AskStarts ==
  ASSUME TypeOK, op = "none", NoCall, parent \in {"absent", "cmd", "dead"}, conf.one => parent = "absent",
         NEW o \in Ops, NEW u, NEW p, o = "login" => u \in Named(conf) /\ p \in Passwords,
         Ask(o, u, p), UNCHANGED <<conf, parent, req, need, pout, answer, up, down>>
  PROVE  Wire' /\ Protocol' /\ op' = o /\ answer' = "none" /\ want' # "done"
<1> DEFINE r == Request(o, u, p)
<1>1. r \in Seq(Token) /\ Len(r) = Parts(o) /\ \A i \in 1 .. Parts(o) : IsItem(conf, r[i], o, Parts(o) - i)
  BY RequestItems
<1>2. op' = o /\ want' = First(o) /\ cout' = (IF conf.one THEN <<>> ELSE r)
  BY DEF Ask
<1>3. up = <<>> /\ down = <<>> /\ pout = <<>> /\ answer = "none"
  BY DEF NoCall
<1>4. /\ up' = <<>> /\ down' = <<>> /\ pout' = <<>> /\ answer' = "none"
      /\ conf' = conf /\ parent' = parent
  BY <1>3
<1> HIDE DEF r
<1>5. Wire'
  <2>1. CASE conf.one
    BY SMTT(30), <1>2, <1>4, <2>1 DEF Wire
  <2>2. CASE ~conf.one
    <3>1. cout' = r
      BY <1>2, <2>2
    <3>. QED
      BY SMT, <1>1, <1>2, <1>4, <3>1 DEF Wire
  <2>. QED
    BY <2>1, <2>2
<1>6. o # "none" /\ Parts(o) \in Nat /\ First(o) # "done"
  BY DEF Ops, Parts, First
<1>7. Asking'
  BY SMT, <1>1, <1>2, <1>4, <1>6 DEF Asking
<1>. QED
  BY <1>2, <1>4, <1>5, <1>6, <1>7 DEF Protocol

\* The parent serves what is asked for: before the session a login, then
\* anything else, a chown only when it is enabled.
LEMMA AllowedRequests ==
  ASSUME Callers, Course, op \in Ops
  PROVE  Allowed(op)
<1>1. CASE post = "none"
  BY <1>1 DEF Callers, Allowed, Ops
<1>2. CASE post # "none"
  <2>1. op # "login"
    BY <1>2 DEF Callers
  <2>2. ASSUME op = "chown" PROVE conf.chown
    <3>1. plan # <<>> /\ op = (IF Head(plan) = "checks" THEN "active" ELSE Head(plan)) /\ plan \in Seq(Steps)
      BY <1>2, <2>2 DEF Course, Orderly
    <3>2. Head(plan) = plan[1] /\ Len(plan) \in Nat \ {0}
      BY <3>1, Tails
    <3>3. plan[1] = "chown"
      BY <2>2, <3>1, <3>2
    <3>. QED
      BY SMT, <3>2, <3>3 DEF Course, Orderly
  <2>. QED
    BY <1>2, <2>1, <2>2 DEF Allowed
<1>. QED
  BY <1>1, <1>2

\* What the parent reads while it waits for a command is one, and may be asked.
LEMMA CommandsAllowed ==
  ASSUME PInv, parent = "cmd", up # <<>>
  PROVE  Head(up).k = "cmd" /\ Head(up).v = op /\ op \in Ops /\ Allowed(op) /\ answer = "none" /\ Asking
<1>t. TypeOK /\ Wire /\ Protocol /\ Callers /\ Course
  BY DEF PInv
<1>1. op \in Ops /\ answer = "none" /\ Asking
  BY <1>t DEF TypeOK, Protocol, NoCall, Answering
<1>2. /\ up \in Seq(Token) /\ cout \in Seq(Token) /\ Len(up) + Len(cout) = Parts(op) /\ Len(cout) \in Nat
      /\ Parts(op) \in Nat
  BY SMT, <1>t, <1>1 DEF Wire, Asking, Parts
<1>3. Head(up) = up[1] /\ Len(up) \in Nat \ {0}
  BY <1>2, Tails
<1>4. IsItem(conf, up[1], op, Parts(op) - 1)
  BY SMT, <1>t, <1>2, <1>3 DEF Wire
<1>5. Head(up).k = "cmd" /\ Head(up).v = op
  BY <1>3, <1>4 DEF IsItem, ItemKind
<1>6. Allowed(op)
  BY <1>t, <1>1, AllowedRequests
<1>. QED
  BY <1>1, <1>5, <1>6

\* Neither end is touched; a process may end.
LEMMA WireKept ==
  ASSUME Wire, Protocol, UNCHANGED <<conf, req, need, op, answer, up, down, cout, pout, want, val>>,
         parent' \in {parent, "dead"}, pre = "dead" => pre' = "dead"
  PROVE  (Wire /\ Protocol)'
<1>1. Wire'
  BY DEF Wire
<1>2. CASE op = "none"
  BY <1>1, <1>2 DEF Protocol, NoCall
<1>3. CASE op # "none" /\ answer = "none"
  <2>1. Asking'
    BY <1>3 DEF Protocol, Asking
  <2>. QED
    BY <1>1, <1>3, <2>1 DEF Protocol
<1>4. CASE op # "none" /\ answer # "none"
  <2>1. Answering'
    BY <1>4 DEF Protocol, Answering
  <2>. QED
    BY <1>1, <1>4, <2>1 DEF Protocol
<1>. QED
  BY <1>2, <1>3, <1>4

\* What the operations answer (privops.c), and when they are the end.
LEMMA Outcomes ==
  ASSUME NEW o \in Ops \ {"login"}, NEW open \in BOOLEAN, NEW r \in Outcome(o, open)
  PROVE  /\ r.open \in BOOLEAN /\ r.dies \in {"no", "bind", "request"}
         /\ r.dies = "no" => /\ r.ans \in AnswerOf(o)
                             /\ o \in {"active", "chown"} => r.open = open
                             /\ o \in {"cleanup", "chown"} => r.ans = "ok"
                             /\ o = "active" => r.ans = (IF open THEN "yes" ELSE "no")
                             /\ o = "listen" => ~open /\ r.open /\ r.ans = "port"
                             /\ o = "accept" => open /\ r.open
                             /\ o = "sock" => ~open
                             /\ o \in {"cleanup", "sock"} => ~r.open
         /\ r.dies # "no" => r.open = open
         /\ r.dies = "request" =>
              (o = "listen" /\ open) \/ (o = "accept" /\ ~open) \/ (o = "sock" /\ open)
<1> USE DEF AnswerOf, Answers
<1>1. CASE o = "cleanup"
  <2>1. Outcome(o, open) = {[open |-> FALSE, ans |-> "ok", dies |-> "no"]}
    BY <1>1 DEF Outcome
  <2>2. r.open = FALSE /\ r.ans = "ok" /\ r.dies = "no"
    BY SMT, <2>1
  <2>. QED
    BY <1>1, <2>2
<1>2. CASE o = "active"
  <2>1. Outcome(o, open) = {[open |-> open, ans |-> IF open THEN "yes" ELSE "no", dies |-> "no"]}
    BY <1>2 DEF Outcome
  <2>. QED
    BY SMT, <1>2, <2>1
<1>3. CASE o = "chown"
  <2>1. Outcome(o, open) = {[open |-> open, ans |-> "ok", dies |-> "no"]}
    BY <1>3 DEF Outcome
  <2>. QED
    BY SMT, <1>3, <2>1
<1>4. CASE o = "listen" /\ ~open
  <2>1. Outcome(o, open) = {[open |-> TRUE, ans |-> "port", dies |-> "no"],
                            [open |-> FALSE, ans |-> "none", dies |-> "bind"]}
    BY <1>4 DEF Outcome
  <2>2. (r.open = TRUE /\ r.ans = "port" /\ r.dies = "no") \/ (r.open = FALSE /\ r.dies = "bind")
    BY SMT, <2>1
  <2>. QED
    BY <1>4, <2>2
<1>5. CASE o = "accept" /\ open
  <2>1. Outcome(o, open) = {[open |-> TRUE, ans |-> a, dies |-> "no"] : a \in {"fd", "fail", "badip"}}
    BY <1>5 DEF Outcome
  <2>2. r.open = TRUE /\ r.ans \in {"fd", "fail", "badip"} /\ r.dies = "no"
    BY SMT, <2>1
  <2>. QED
    BY <1>5, <2>2
<1>6. CASE o = "sock" /\ ~open
  <2>1. Outcome(o, open) = {[open |-> FALSE, ans |-> a, dies |-> "no"] : a \in {"fd", "bad"}}
                             \cup {[open |-> FALSE, ans |-> "none", dies |-> "bind"]}
    BY <1>6 DEF Outcome
  <2>2. (r.open = FALSE /\ r.ans \in {"fd", "bad"} /\ r.dies = "no") \/ (r.open = FALSE /\ r.dies = "bind")
    BY SMT, <2>1
  <2>. QED
    BY <1>6, <2>2
<1>7. CASE (o = "listen" /\ open) \/ (o = "accept" /\ ~open) \/ (o = "sock" /\ open)
  <2>1. Outcome(o, open) = {[open |-> open, ans |-> "none", dies |-> "request"]}
    BY <1>7 DEF Outcome
  <2>. QED
    BY SMT, <1>7, <2>1
<1>. QED
  BY <1>1, <1>2, <1>3, <1>4, <1>5, <1>6, <1>7 DEF Ops

\* The answer is ready to be written.
LEMMA AnswerStarts ==
  ASSUME Wire, Asking, op \in Ops, parent = "do", ~conf.one, NEW a \in AnswerOf(op),
         answer' = a, pout' = Reply(op, a), parent' = "reply",
         UNCHANGED <<conf, req, op, cout, want, val, up, down>>
  PROVE  (Wire /\ Protocol)'
<1> DEFINE s == Reply(op, a)
<1>1. /\ s \in Seq([k : Kinds, v : Answers]) /\ Len(s) = AnswerParts(op, a)
      /\ \A i \in 1 .. AnswerParts(op, a) : s[i] = AnswerItem(op, a, AnswerParts(op, a) - i)
  BY ReplyItems
<1>2. pout' = s /\ answer' = a
  OBVIOUS
<1> HIDE DEF s
<1>3. up = <<>> /\ cout = <<>> /\ down = <<>> /\ want = First(op) /\ req = op
  BY DEF Asking
<1>4. Wire'
  BY SMT, <1>1, <1>2, <1>3 DEF Wire
<1>5. /\ AnswerParts(op, a) \in {1, 2} /\ First(op) = Awaited(op, a, AnswerParts(op, a)) /\ First(op) # "done"
      /\ a # "none"
  BY SMT DEF AnswerParts, First, Awaited, AnswerItem, AnswerOf, Answers, Res, Fd, IntTok, Tok, Ops
<1>6. Answering'
  BY SMT, <1>1, <1>2, <1>3, <1>5 DEF Answering
<1>. QED
  BY <1>2, <1>4, <1>5, <1>6 DEF Protocol, Ops

\* The parent takes one item off its socket.
LEMMA WireRead ==
  ASSUME Wire, up # <<>>, up' = Tail(up), UNCHANGED <<conf, op, cout, down, pout, answer>>
  PROVE  Wire'
<1>1. up \in Seq(Token) /\ cout \in Seq(Token)
  BY DEF Wire
<1>2. /\ Len(up) \in Nat \ {0} /\ up' \in Seq(Token) /\ Len(up') = Len(up) - 1
      /\ \A i \in 1 .. Len(up) - 1 : up'[i] = up[i + 1]
  BY <1>1, Tails
<1>3. Len(cout) \in Nat
  BY SMT, <1>1
<1>4. ASSUME NEW i \in 1 .. Len(up') PROVE IsItem(conf', up'[i], op', Len(cout') + Len(up') - i)
  <2>1. /\ i \in 1 .. Len(up) - 1 /\ i + 1 \in 1 .. Len(up)
        /\ Len(cout) + Len(up) - (i + 1) = Len(cout) + Len(up') - i
    BY SMT, <1>2, <1>3
  <2>2. IsItem(conf, up[i + 1], op, Len(cout) + Len(up) - (i + 1))
    BY <2>1 DEF Wire
  <2>. QED
    BY <1>2, <2>1, <2>2
<1>. QED
  BY <1>2, <1>4 DEF Wire

\* The parent reads and writes its end.
LEMMA ParentWire ==
  ASSUME PInv, ParentGetCmd \/ ParentGetArg \/ DoLogin \/ Serve \/ ParentWrite \/ Wait \/ Fork
  PROVE  (Wire /\ Protocol)'
<1>t. TypeOK /\ Wire /\ Protocol
  BY DEF PInv
<1>h. Handover
  BY DEF PInv, AInv, HInv
<1> USE DEF call
<1>1. CASE ParentGetCmd
  <2>0. UNCHANGED <<conf, pout, answer, op, cout, want, val, down, pre, post>> /\ parent = "cmd" /\ up # <<>>
    BY <1>1 DEF ParentGetCmd
  <2>1. Head(up).k = "cmd" /\ Head(up).v = op /\ op \in Ops /\ Allowed(op) /\ answer = "none" /\ Asking
    BY <2>0, CommandsAllowed
  <2>2. /\ up \in Seq(Token) /\ cout \in Seq(Token) /\ Len(up) + Len(cout) = Parts(op) /\ Len(cout) \in Nat
        /\ Parts(op) \in Nat
    BY SMTT(30), <1>t, <2>0, <2>1 DEF Wire, Asking, Parts
  <2>3. /\ Len(up) \in Nat \ {0} /\ Tail(up) \in Seq(Token) /\ Len(Tail(up)) = Len(up) - 1
        /\ \A i \in 1 .. Len(up) - 1 : Tail(up)[i] = up[i + 1]
        /\ Tail(up) = <<>> <=> Len(up) = 1
    BY <2>0, <2>2, Tails
  <2>7. /\ req' = op /\ need' = Args(op) /\ parent' = (IF Args(op) = <<>> THEN "do" ELSE "args")
        /\ up' = Tail(up)
    BY <1>1, <2>1 DEF ParentGetCmd
  <2>8. /\ Args(op) \in Seq(Kinds) /\ Len(Args(op)) = Parts(op) - 1
        /\ \A i \in 1 .. Parts(op) - 1 : Args(op)[i] = ItemKind(op, Parts(op) - 1 - i)
    BY <2>1, ArgItems
  <2> DEFINE t == Tail(up)
  <2>9. up' = t /\ t \in Seq(Token) /\ Len(t) = Len(up) - 1 /\ (\A i \in 1 .. Len(up) - 1 : t[i] = up[i + 1])
        /\ (t = <<>> <=> Len(up) = 1)
    BY <2>3, <2>7
  <2> HIDE DEF t
  <2>10. Wire'
    BY <1>t, <2>0, <2>7, WireRead
  <2>11. CASE Args(op) = <<>>
    <3>1. Parts(op) = 1
      BY SMT, <2>2, <2>8, <2>11
    <3>2. cout = <<>> /\ t = <<>>
      BY SMT, <2>2, <2>3, <2>9, <3>1
    <3>3. Asking'
      BY <2>0, <2>1, <2>7, <2>9, <2>11, <3>2 DEF Asking
    <3>. QED
      BY <2>0, <2>1, <2>10, <3>3 DEF Protocol, Ops
  <2>12. CASE Args(op) # <<>>
    <3>1. Parts(op) - 1 \in Nat \ {0}
      BY SMTT(30), <2>2, <2>8, <2>12
    <3>2. parent' = "args" /\ Len(need') = Len(up') + Len(cout') /\ Len(need') \in 1 .. Parts(op) - 1
      BY SMT, <2>0, <2>2, <2>3, <2>7, <2>8, <2>9, <2>12, <3>1
    <3>3. \A i \in 1 .. Len(need') : need'[i] = ItemKind(op, Len(need') - i)
      BY <2>7, <2>8
    <3>4. Asking'
      BY <1>h, <2>0, <2>1, <2>7, <3>2, <3>3 DEF Asking, Handover
    <3>. QED
      BY <2>0, <2>1, <2>10, <3>4 DEF Protocol, Ops
  <2>. QED
    BY <2>11, <2>12
<1>2. CASE ParentGetArg
  <2>0. UNCHANGED <<conf, req, pout, answer, op, cout, want, val, down, pre, post>> /\ parent = "args" /\ up # <<>>
        /\ up' = Tail(up) /\ need' = Tail(need) /\ parent' = (IF Tail(need) = <<>> THEN "do" ELSE "args")
    BY <1>2 DEF ParentGetArg
  <2>1. op \in Ops /\ answer = "none" /\ Asking
    BY <1>t, <2>0 DEF TypeOK, Protocol, NoCall, Answering
  <2>2. /\ up \in Seq(Token) /\ cout \in Seq(Token) /\ Len(need) = Len(up) + Len(cout) /\ Len(cout) \in Nat
        /\ Parts(op) \in Nat /\ need \in Seq(Kinds) /\ Len(need) \in 1 .. Parts(op) - 1
    BY SMT, <1>t, <2>0, <2>1 DEF Wire, Asking, Parts, TypeOK
  <2>3. /\ Len(up) \in Nat \ {0} /\ Tail(up) \in Seq(Token) /\ Len(Tail(up)) = Len(up) - 1
        /\ \A i \in 1 .. Len(up) - 1 : Tail(up)[i] = up[i + 1]
        /\ Tail(up) = <<>> <=> Len(up) = 1
    BY <2>0, <2>2, Tails
  <2>4. /\ Len(need) \in Nat \ {0} /\ Tail(need) \in Seq(Kinds) /\ Len(Tail(need)) = Len(need) - 1
        /\ \A i \in 1 .. Len(need) - 1 : Tail(need)[i] = need[i + 1]
        /\ Tail(need) = <<>> <=> Len(need) = 1
    <3>1. need # <<>>
      BY SMT, <2>2
    <3>. QED
      BY <2>2, <3>1, Tails
  <2> DEFINE t == Tail(up)
             n == Tail(need)
  <2>9. /\ up' = t /\ t \in Seq(Token) /\ Len(t) = Len(up) - 1 /\ (\A i \in 1 .. Len(up) - 1 : t[i] = up[i + 1])
        /\ (t = <<>> <=> Len(up) = 1)
        /\ need' = n /\ n \in Seq(Kinds) /\ Len(n) = Len(need) - 1 /\ (\A i \in 1 .. Len(need) - 1 : n[i] = need[i + 1])
        /\ (n = <<>> <=> Len(need) = 1) /\ parent' = (IF n = <<>> THEN "do" ELSE "args")
    BY <2>0, <2>3, <2>4
  <2> HIDE DEF t, n
  <2>10. Wire'
    BY <1>t, <2>0, WireRead
  <2>11. CASE n = <<>>
    <3>2. cout = <<>> /\ t = <<>>
      BY SMT, <2>2, <2>3, <2>4, <2>9, <2>11
    <3>3. Asking'
      BY <2>0, <2>1, <2>9, <2>11, <3>2 DEF Asking
    <3>. QED
      BY <2>0, <2>1, <2>10, <3>3 DEF Protocol, Ops
  <2>12. CASE n # <<>>
    <3>1. /\ parent' = "args" /\ Len(need') = Len(need) - 1 /\ Len(up') = Len(up) - 1 /\ cout' = cout
          /\ Len(need) # 1
      BY <2>0, <2>9, <2>12
    <3>a. Len(need) \in Nat /\ Len(up) \in Nat /\ Len(cout) \in Nat /\ Parts(op) \in Nat
      BY <2>2, <2>3, <2>4
    <3>b. Len(need) = Len(up) + Len(cout) /\ Len(need) \in 1 .. Parts(op) - 1
      BY <2>2
    <3>2. parent' = "args" /\ Len(need') = Len(up') + Len(cout') /\ Len(need') \in 1 .. Parts(op) - 1
      BY SMT, <3>1, <3>a, <3>b
    <3>3. ASSUME NEW i \in 1 .. Len(need') PROVE need'[i] = ItemKind(op, Len(need') - i)
      <4>1. i + 1 \in 1 .. Len(need) /\ n[i] = need[i + 1] /\ Len(need) - (i + 1) = Len(n) - i
        <5>1. Len(need) \in Nat /\ Len(n) = Len(need) - 1 /\ need' = n
          BY <2>4, <2>9
        <5>2. i \in 1 .. Len(n)
          BY <3>3, <5>1
        <5>3. i \in 1 .. Len(need) - 1 /\ i + 1 \in 1 .. Len(need) /\ Len(need) - (i + 1) = Len(n) - i
          BY SMT, <5>1, <5>2
        <5>. QED
          BY <2>9, <5>3
      <4>2. need[i + 1] = ItemKind(op, Len(need) - (i + 1))
        BY <2>0, <2>1, <4>1 DEF Asking
      <4>. QED
        BY <2>9, <4>1, <4>2
    <3>4. Asking'
      BY <1>h, <2>0, <2>1, <3>2, <3>3 DEF Asking, Handover
    <3>. QED
      BY <2>0, <2>1, <2>10, <3>4 DEF Protocol, Ops
  <2>. QED
    BY <2>11, <2>12
<1>3. CASE DoLogin
  <2>0. UNCHANGED <<conf, req, op, cout, want, val, up, down, pre, post>> /\ parent = "do" /\ req = "login"
    BY <1>3 DEF DoLogin
  <2>1. op \in Ops /\ answer = "none" /\ Asking /\ op = "login" /\ ~conf.one
    BY <1>t, <1>h, <2>0 DEF TypeOK, Protocol, NoCall, Answering, Asking, Handover
  <2>2. CASE LoginResult(conf, who, pw) = "die"
    <3>1. UNCHANGED <<need, answer, pout>> /\ parent' = "dead"
      BY <1>3, <2>2 DEF DoLogin, ParentEnds
    <3>. QED
      BY <1>t, <2>0, <3>1, WireKept
  <2>3. CASE LoginResult(conf, who, pw) # "die"
    <3>1. answer' \in {"ok", "bad"} /\ pout' = Reply("login", answer') /\ parent' = "reply"
      BY <1>3, <2>3 DEF DoLogin
    <3>2. answer' \in AnswerOf(op)
      BY <2>1, <3>1 DEF AnswerOf
    <3>. QED
      BY <1>t, <2>0, <2>1, <3>1, <3>2, AnswerStarts
  <2>. QED
    BY <2>2, <2>3
<1>4. CASE Serve
  <2>0. UNCHANGED <<conf, req, op, cout, want, val, up, down, pre, post>> /\ parent = "do" /\ req # "login"
    BY <1>4 DEF Serve
  <2>1. op \in Ops \ {"login"} /\ answer = "none" /\ Asking /\ req = op /\ listen \in BOOLEAN /\ ~conf.one
    BY <1>t, <1>h, <2>0 DEF TypeOK, Protocol, NoCall, Answering, Asking, Handover
  <2>2. PICK r \in Outcome(op, listen) :
           IF r.dies = "no"
             THEN /\ answer' = r.ans /\ pout' = Reply(op, r.ans) /\ parent' = "reply"
             ELSE ParentEnds(r.dies) /\ UNCHANGED <<answer, pout>>
    BY <1>4, <2>1 DEF Serve
  <2>3. CASE r.dies = "no"
    <3>1. r.ans \in AnswerOf(op)
      BY <2>1, <2>3, Outcomes
    <3>. QED
      BY <1>t, <2>0, <2>1, <2>2, <2>3, <3>1, AnswerStarts
  <2>4. CASE r.dies # "no"
    <3>1. UNCHANGED <<need, answer, pout>> /\ parent' = "dead"
      BY <1>4, <2>2, <2>4 DEF Serve, ParentEnds
    <3>. QED
      BY <1>t, <2>0, <3>1, WireKept
  <2>. QED
    BY <2>3, <2>4
<1>5. CASE ParentWrite
  <2>0. UNCHANGED <<conf, req, answer, op, cout, want, val, up, pre, post>> /\ parent = "reply"
    BY <1>5 DEF ParentWrite
  <2>1. op \in Ops /\ answer # "none" /\ Answering /\ req = op /\ pout # <<>> /\ ~conf.one
    BY <1>t, <1>h, <2>0 DEF TypeOK, Protocol, NoCall, Answering, Asking, Handover
  <2>2. pout \in Seq([k : Kinds, v : Answers]) /\ down \in Seq([k : Kinds, v : Answers])
    BY <1>t DEF TypeOK, Wire
  <2>3. CASE ~Alive(Child)
    <3>1. UNCHANGED <<need, down, pout>> /\ parent' = "dead"
      BY <1>5, <2>3 DEF ParentWrite, ParentEnds
    <3>. QED
      BY <1>t, <2>0, <3>1, WireKept
  <2>4. CASE Alive(Child)
    <3> DEFINE t == Tail(pout)
               d == Append(down, Head(pout))
    <3>1. /\ Head(pout) = pout[1] /\ Head(pout) \in [k : Kinds, v : Answers] /\ Len(pout) \in Nat \ {0}
          /\ t \in Seq([k : Kinds, v : Answers]) /\ Len(t) = Len(pout) - 1
          /\ \A i \in 1 .. Len(pout) - 1 : t[i] = pout[i + 1]
      BY <2>1, <2>2, Tails
    <3>2. /\ d \in Seq([k : Kinds, v : Answers]) /\ Len(d) = Len(down) + 1 /\ Len(down) \in Nat
          /\ \A i \in 1 .. Len(down) : d[i] = down[i]
          /\ d[Len(down) + 1] = pout[1]
      BY SMTT(30), <2>2, <3>1, Appends
    <3>3. /\ pout' = t /\ down' = d
          /\ parent' = (IF t # <<>> THEN "reply" ELSE IF op = "login" /\ answer = "ok" THEN "wait" ELSE "cmd")
      BY <1>5, <2>1, <2>4 DEF ParentWrite
    <3> HIDE DEF t, d
    <3>4. \A i \in 1 .. Len(t) : t[i] = AnswerItem(op, answer, Len(t) - i)
      <4> SUFFICES ASSUME NEW i \in 1 .. Len(t) PROVE t[i] = AnswerItem(op, answer, Len(t) - i)
        OBVIOUS
      <4>1. i + 1 \in 1 .. Len(pout) /\ t[i] = pout[i + 1] /\ Len(pout) - (i + 1) = Len(t) - i
        BY SMT, <3>1
      <4>2. pout[i + 1] = AnswerItem(op, answer, Len(pout) - (i + 1))
        BY <1>t, <4>1 DEF Wire
      <4>. QED
        BY <4>1, <4>2
    <3>5. \A i \in 1 .. Len(d) : d[i] = AnswerItem(op, answer, Len(t) + Len(d) - i)
      <4> SUFFICES ASSUME NEW i \in 1 .. Len(d) PROVE d[i] = AnswerItem(op, answer, Len(t) + Len(d) - i)
        OBVIOUS
      <4>1. Len(t) + Len(d) - i = Len(pout) + Len(down) - i
        BY SMT, <3>1, <3>2
      <4>2. CASE i \in 1 .. Len(down)
        BY <1>t, <3>2, <4>1, <4>2 DEF Wire
      <4>3. CASE i = Len(down) + 1
        <5>1. pout[1] = AnswerItem(op, answer, Len(pout) - 1)
          BY SMTT(30), <1>t, <3>1 DEF Wire
        <5>2. Len(pout) + Len(down) - i = Len(pout) - 1
          BY SMTT(30), <3>1, <3>2, <4>3
        <5>. QED
          BY <3>2, <4>1, <4>3, <5>1, <5>2
      <4>. QED
        BY SMT, <3>2, <4>2, <4>3
    <3>6. Wire'
      BY <1>t, <2>0, <3>2, <3>3, <3>4, <3>5 DEF Wire
    <3>7. Len(d) + Len(t) = Len(down) + Len(pout)
      BY SMT, <3>1, <3>2
    <3>8. Answering'
      BY <2>0, <2>1, <3>3, <3>7 DEF Answering
    <3>. QED
      BY <2>0, <2>1, <3>6, <3>8 DEF Protocol, Ops
  <2>. QED
    BY <2>3, <2>4
<1>6. CASE Wait
  BY <1>t, <1>6 DEF Wait, Wire, Protocol, NoCall, Asking, Answering
<1>7. CASE Fork
  <2>1. pout = <<>> /\ op' = "none" /\ NoCall'
    BY <1>t, <1>7 DEF Fork, Protocol, NoCall, Asking, Answering
  <2>. QED
    BY SMT, <2>1 DEF Wire, Protocol, NoCall
<1>. QED
  BY <1>1, <1>2, <1>3, <1>4, <1>5, <1>6, <1>7

\* Reading an item of the answer leaves the child waiting for the next.
LEMMA ReadsOn ==
  ASSUME NEW o \in Ops, NEW a \in AnswerOf(o), NEW n \in 1 .. AnswerParts(o, a)
  PROVE  /\ Awaited(o, a, n) # "done"
         /\ (IF Awaited(o, a, n) = "res" THEN After(o, AnswerItem(o, a, n - 1).v) ELSE "done") = Awaited(o, a, n - 1)
         /\ n = 1 => AnswerItem(o, a, n - 1).v = a
<1>0. AnswerParts(o, a) \in {1, 2} /\ (n = 1 \/ (n = 2 /\ AnswerParts(o, a) = 2))
  BY SMT DEF AnswerParts
<1>a. /\ After(o, "bad") = (IF o = "accept" THEN "int" ELSE "done")
      /\ After(o, "ok") = (IF o \in {"accept", "sock"} THEN "fd" ELSE "done")
      /\ \A v : v \notin {"ok", "bad"} => After(o, v) = "done"
  <2>1. CASE o = "accept"
    BY <2>1 DEF After
  <2>2. CASE o = "sock"
    BY <2>2 DEF After
  <2>3. CASE o \notin {"accept", "sock"}
    BY <2>3 DEF After
  <2>. QED
    BY <2>1, <2>2, <2>3
<1>1. CASE n = 2
  <2>1. n - 1 = 1 /\ n # 0 /\ n - 1 # 0 /\ 1 - 1 = 0
    BY SMT, <1>1
  <2>2. o = "accept" \/ (o = "sock" /\ a = "fd")
    BY SMT, <1>0, <1>1 DEF AnswerParts, AnswerOf, Answers
  <2>3. Awaited(o, a, n) = "res" /\ AnswerItem(o, a, n - 1).v = (IF a = "fd" THEN "ok" ELSE "bad")
    BY <2>1 DEF Awaited, AnswerItem, Res, Tok
  <2>4. Awaited(o, a, n - 1) = (IF a = "fd" THEN "fd" ELSE "int")
    BY <2>1, <2>2 DEF Awaited, AnswerItem, Res, Fd, IntTok, Tok
  <2>. QED
    BY SMT, <1>1, <1>a, <2>2, <2>3, <2>4
<1>2. CASE n = 1
  <2>1. n - 1 = 0 /\ n # 0
    BY SMT, <1>2
  <2>2. Awaited(o, a, n - 1) = "done" /\ Awaited(o, a, n) = AnswerItem(o, a, 0).k
    BY <2>1 DEF Awaited
  <2>3. CASE a = "fd"
    <3>1. AnswerItem(o, a, 0) = Fd
      BY SMTT(30), <2>3 DEF AnswerItem
    <3>. QED
      BY SMTT(30), <2>1, <2>2, <2>3, <3>1 DEF Fd, Tok
  <2>4. CASE a # "fd" /\ o \in {"active", "listen", "accept"}
    <3>1. AnswerItem(o, a, 0) = IntTok(a)
      BY SMTT(30), <2>4 DEF AnswerItem
    <3>. QED
      BY SMTT(30), <2>1, <2>2, <3>1 DEF IntTok, Tok
  <2>5. CASE a # "fd" /\ o \notin {"active", "listen", "accept"}
    <3>1. AnswerItem(o, a, 0) = Res(a)
      BY SMT, <2>5 DEF AnswerItem
    <3>2. After(o, a) = "done"
      BY <1>a, <2>5 DEF AnswerOf
    <3>. QED
      BY SMT, <2>1, <2>2, <3>1, <3>2 DEF Res, Tok
  <2>. QED
    BY <2>3, <2>4, <2>5
<1>. QED
  BY <1>0, <1>1, <1>2

\* A request has returned when all of its answer is read, and what it returns
\* is the answer.
LEMMA Returned ==
  ASSUME Wire, Protocol, TypeOK, op # "none", want = "done"
  PROVE  /\ op \in Ops /\ Answering /\ val = answer /\ answer # "none"
         /\ up = <<>> /\ cout = <<>> /\ down = <<>> /\ pout = <<>>
<1>1. op \in Ops
  BY DEF TypeOK
<1>2. First(op) # "done"
  BY DEF First
<1>3. answer # "none" /\ Answering
  BY <1>2 DEF Protocol, Asking
<1>4. Len(down) \in Nat /\ Len(pout) \in Nat /\ Len(down) + Len(pout) <= AnswerParts(op, answer)
  BY SMTT(30), <1>3 DEF Answering, Wire, TypeOK
<1>5. CASE Len(down) + Len(pout) = 0
  BY SMT, <1>1, <1>3, <1>4, <1>5 DEF Answering, Wire, TypeOK
<1>6. CASE Len(down) + Len(pout) # 0
  <2>1. Len(down) + Len(pout) \in 1 .. AnswerParts(op, answer) /\ answer \in AnswerOf(op)
    BY SMT, <1>3, <1>4, <1>6 DEF Answering, AnswerParts
  <2>2. Awaited(op, answer, Len(down) + Len(pout)) # "done"
    BY <1>1, <2>1, ReadsOn
  <2>. QED
    BY <1>3, <2>2 DEF Answering
<1>. QED
  BY <1>5, <1>6

\* The children.
LEMMA ChildWire ==
  ASSUME PInv, Calm \/ CallWrite \/ CallRead \/ DirectLogin \/ Direct \/ LoginReturns \/ NextStep \/ CallReturns
  PROVE  (Wire /\ Protocol)'
<1>t. TypeOK /\ Wire /\ Protocol
  BY DEF PInv
<1>c. Callers
  BY DEF PInv
<1>h. Handover
  BY DEF PInv, AInv, HInv
<1> USE DEF call, boss
<1>1. CASE Calm
  BY <1>t, <1>1, WireKept DEF Calm
<1>2. CASE CallWrite
  <2>0. /\ UNCHANGED <<conf, parent, req, need, pout, answer, op, want, val, down>>
        /\ Child = "call" /\ cout # <<>>
    BY <1>2 DEF CallWrite
  <2>1. CASE ~ParentUp
    <3>1. UNCHANGED <<up, cout>> /\ (pre' = pre \/ pre' = "dead")
      BY <1>2, <2>1 DEF CallWrite, CallerEnds, PreEnds, PostEnds
    <3>. QED
      BY <1>t, <2>0, <3>1, WireKept
  <2>2. CASE ParentUp
    <3> DEFINE t == Tail(cout)
               s == Append(up, Head(cout))
    <3>0. op \in Ops /\ answer = "none" /\ Asking /\ cout \in Seq(Token) /\ up \in Seq(Token)
      BY <1>t, <1>c, <2>0 DEF TypeOK, Protocol, Answering, Callers, Wire
    <3>1. /\ Head(cout) = cout[1] /\ Head(cout) \in Token /\ Len(cout) \in Nat \ {0}
          /\ t \in Seq(Token) /\ Len(t) = Len(cout) - 1
          /\ \A i \in 1 .. Len(cout) - 1 : t[i] = cout[i + 1]
      BY <2>0, <3>0, Tails
    <3>2. /\ s \in Seq(Token) /\ Len(s) = Len(up) + 1 /\ Len(up) \in Nat
          /\ \A i \in 1 .. Len(up) : s[i] = up[i]
          /\ s[Len(up) + 1] = cout[1]
      BY SMT, <3>0, <3>1, Appends
    <3>3. cout' = t /\ up' = s
      BY <1>2, <2>2 DEF CallWrite
    <3> HIDE DEF t, s
    <3>4. \A i \in 1 .. Len(t) : IsItem(conf, t[i], op, Len(t) - i)
      <4> SUFFICES ASSUME NEW i \in 1 .. Len(t) PROVE IsItem(conf, t[i], op, Len(t) - i)
        OBVIOUS
      <4>1. i + 1 \in 1 .. Len(cout) /\ t[i] = cout[i + 1] /\ Len(cout) - (i + 1) = Len(t) - i
        BY SMT, <3>1
      <4>2. IsItem(conf, cout[i + 1], op, Len(cout) - (i + 1))
        BY <1>t, <4>1 DEF Wire
      <4>. QED
        BY <4>1, <4>2
    <3>5. \A i \in 1 .. Len(s) : IsItem(conf, s[i], op, Len(t) + Len(s) - i)
      <4> SUFFICES ASSUME NEW i \in 1 .. Len(s) PROVE IsItem(conf, s[i], op, Len(t) + Len(s) - i)
        OBVIOUS
      <4>1. Len(t) + Len(s) - i = Len(cout) + Len(up) - i
        BY SMT, <3>1, <3>2
      <4>2. CASE i \in 1 .. Len(up)
        BY <1>t, <3>2, <4>1, <4>2 DEF Wire
      <4>3. CASE i = Len(up) + 1
        <5>1. IsItem(conf, cout[1], op, Len(cout) - 1)
          BY SMTT(30), <1>t, <3>1 DEF Wire
        <5>2. Len(cout) + Len(up) - i = Len(cout) - 1
          BY SMTT(30), <3>1, <3>2, <4>3
        <5>. QED
          BY <3>2, <4>1, <4>3, <5>1, <5>2
      <4>. QED
        BY SMT, <3>2, <4>2, <4>3
    <3>6. Wire'
      BY <1>t, <2>0, <3>0, <3>1, <3>2, <3>3, <3>4, <3>5 DEF Wire, Asking
    <3>7. Len(s) + Len(t) = Len(up) + Len(cout)
      BY SMT, <3>1, <3>2
    <3>8. Asking'
      BY <2>0, <3>0, <3>3, <3>7 DEF Asking
    <3>. QED
      BY <2>0, <3>0, <3>6, <3>8 DEF Protocol, Ops
  <2>. QED
    BY <2>1, <2>2
<1>3. CASE CallRead
  <2>0. /\ UNCHANGED <<conf, parent, req, need, pout, answer, op, up, cout>>
        /\ Child = "call" /\ want # "done" /\ down # <<>>
        /\ want' = (IF want = "res" THEN After(op, Head(down).v) ELSE "done") /\ val' = Head(down).v
        /\ down' = Tail(down)
    BY <1>3 DEF CallRead
  <2>1. op \in Ops /\ answer # "none" /\ Answering /\ answer \in AnswerOf(op)
    BY <1>t, <1>c, <2>0 DEF TypeOK, Protocol, Asking, Callers, Answering
  <2> DEFINE t == Tail(down)
             n == Len(down) + Len(pout)
  <2>2. /\ Head(down) = down[1] /\ Len(down) \in Nat \ {0}
        /\ t \in Seq([k : Kinds, v : Answers]) /\ Len(t) = Len(down) - 1
        /\ \A i \in 1 .. Len(down) - 1 : t[i] = down[i + 1]
    BY <1>t, <2>0, Tails DEF Wire
  <2>3. Len(pout) \in Nat /\ n \in 1 .. AnswerParts(op, answer) /\ want = Awaited(op, answer, n) /\ Len(pout) + Len(t) = n - 1
        /\ n - 1 <= AnswerParts(op, answer)
    BY SMTT(30), <1>t, <2>1, <2>2 DEF Answering, TypeOK, AnswerParts
  <2>4. down[1] = AnswerItem(op, answer, n - 1)
    <3>1. Len(pout) + Len(down) - 1 = n - 1
      BY <2>2, <2>3
    <3>. QED
      BY SMTT(30), <1>t, <2>2, <3>1 DEF Wire
  <2>5. want' = Awaited(op, answer, n - 1) /\ (n = 1 => val' = answer)
    BY SMT, <2>0, <2>1, <2>2, <2>3, <2>4, ReadsOn
  <2>6. want' = "done" => n = 1
    <3>1. CASE n - 1 = 0
      BY SMT, <2>2, <2>3, <3>1
    <3>2. CASE n - 1 # 0
      <4>1. n - 1 \in 1 .. AnswerParts(op, answer)
        BY SMTT(30), <2>3, <3>2 DEF AnswerParts
      <4>. QED
        BY <2>1, <2>5, <4>1, ReadsOn
    <3>. QED
      BY <3>1, <3>2
  <2>7. down' = t /\ Len(t) + Len(pout) = n - 1
    BY SMT, <2>0, <2>2, <2>3
  <2>8. \A i \in 1 .. Len(t) : t[i] = AnswerItem(op, answer, Len(pout) + Len(t) - i)
    <3> SUFFICES ASSUME NEW i \in 1 .. Len(t) PROVE t[i] = AnswerItem(op, answer, Len(pout) + Len(t) - i)
      OBVIOUS
    <3>1. i + 1 \in 1 .. Len(down) /\ t[i] = down[i + 1] /\ Len(pout) + Len(down) - (i + 1) = Len(pout) + Len(t) - i
      BY SMTT(30), <2>2, <2>3
    <3>2. down[i + 1] = AnswerItem(op, answer, Len(pout) + Len(down) - (i + 1))
      BY <1>t, <3>1 DEF Wire
    <3>. QED
      BY <3>1, <3>2
  <2> HIDE DEF t, n
  <2>9. Wire'
    BY <1>t, <2>0, <2>2, <2>7, <2>8 DEF Wire
  <2>10. conf.one => down = <<>>
    BY <2>1 DEF Answering
  <2>11. Answering'
    BY <2>0, <2>1, <2>3, <2>5, <2>6, <2>7, <2>10 DEF Answering
  <2>. QED
    BY <2>0, <2>1, <2>9, <2>11 DEF Protocol, Ops
<1>4. CASE DirectLogin
  <2>0. /\ UNCHANGED <<conf, parent, req, need, pout, op, up, cout, down>>
        /\ pre = "call" /\ want # "done" /\ conf.one /\ parent = "absent"
    BY <1>4, <1>h DEF DirectLogin, Handover
  <2>1. op = "login" /\ post = "none"
    BY <1>t, <1>c, <1>h, <2>0 DEF Callers, Handover, Child
  <2>2. answer = "none" /\ Asking
    BY SMT, <1>t, <2>0, <2>1 DEF Protocol, Answering, Awaited
  <2>3. CASE LoginResult(conf, who, pw) \in {"fail", "anon"}
    <3>1. answer' \in {"ok", "bad"} /\ val' = answer' /\ want' = "done"
      BY <1>4, <2>3 DEF DirectLogin
    <3>2. up = <<>> /\ cout = <<>> /\ down = <<>> /\ pout = <<>>
      BY <2>0, <2>2 DEF Asking
    <3>3. Wire'
      BY SMT, <1>t, <2>0, <3>2 DEF Wire
    <3>4. Answering'
      BY SMT, <2>0, <2>1, <3>1, <3>2 DEF Answering, AnswerOf, AnswerParts, Awaited
    <3>. QED
      BY <2>0, <2>1, <3>1, <3>3, <3>4 DEF Protocol
  <2>4. CASE LoginResult(conf, who, pw) \notin {"fail", "anon"}
    <3>1. UNCHANGED <<val, answer, want>> /\ pre' = "dead"
      BY <1>4, <2>4 DEF DirectLogin, PreEnds
    <3>. QED
      BY <1>t, <2>0, <3>1, WireKept
  <2>. QED
    BY <2>3, <2>4
<1>5. CASE Direct
  <2>0. /\ UNCHANGED <<conf, parent, req, need, pout, op, up, cout, down>>
        /\ post = "call" /\ want # "done" /\ conf.one /\ parent = "absent"
    BY <1>5, <1>h DEF Direct, Handover
  <2>1. op \in Ops \ {"login"} /\ listen \in BOOLEAN
    BY <1>t, <1>c, <2>0 DEF Callers, Child, TypeOK
  <2>2. answer = "none" /\ Asking
    BY SMTT(30), <1>t, <2>0, <2>1 DEF Protocol, Answering, Awaited, Ops
  <2>3. PICK r \in Outcome(op, listen) :
           IF r.dies = "no" THEN val' = r.ans /\ answer' = r.ans /\ want' = "done"
           ELSE PostEnds /\ UNCHANGED <<val, answer, want>>
    BY <1>5 DEF Direct
  <2>4. CASE r.dies = "no"
    <3>1. r.ans \in AnswerOf(op)
      BY <2>1, <2>4, Outcomes
    <3>2. up = <<>> /\ cout = <<>> /\ down = <<>> /\ pout = <<>>
      BY <2>0, <2>2 DEF Asking
    <3>3. Wire'
      BY SMTT(30), <1>t, <2>0, <3>2 DEF Wire
    <3>4. Answering'
      BY SMT, <2>0, <2>1, <2>3, <2>4, <3>1, <3>2 DEF Answering, AnswerParts, Awaited
    <3>5. answer' # "none"
      BY <2>1, <2>3, <2>4, <3>1 DEF AnswerOf, Answers
    <3>. QED
      BY <2>0, <2>1, <3>3, <3>4, <3>5 DEF Protocol, Ops
  <2>5. CASE r.dies # "no"
    BY <1>t, <2>0, <2>3, <2>5, WireKept DEF PostEnds
  <2>. QED
    BY <2>4, <2>5
<1>6. CASE LoginReturns
  <2>0. /\ UNCHANGED <<conf, parent, req, need, pout, up, cout, down, want, val>>
        /\ pre = "call" /\ post = "none" /\ want = "done" /\ op' = "none" /\ answer' = "none"
        /\ val = "ok" => pre' = "dead"
    BY <1>6 DEF LoginReturns, PreEnds
  <2>1. /\ Answering /\ val = answer
        /\ up = <<>> /\ cout = <<>> /\ down = <<>> /\ pout = <<>>
    BY <1>t, <1>c, <2>0, Returned DEF Callers, Child
  <2>2. NoCall'
    BY <2>0, <2>1 DEF NoCall, Answering
  <2>. QED
    BY SMT, <1>t, <2>0, <2>1, <2>2 DEF Protocol, Wire
<1>7. CASE CallReturns
  <2>0. /\ UNCHANGED <<conf, parent, req, need, pout, up, cout, down, want, val>>
        /\ post = "call" /\ want = "done" /\ op' = "none" /\ answer' = "none"
    BY <1>7 DEF CallReturns
  <2>1. /\ Answering
        /\ up = <<>> /\ cout = <<>> /\ down = <<>> /\ pout = <<>>
    BY <1>t, <1>c, <2>0, Returned DEF Callers, Child
  <2>2. NoCall'
    BY <1>h, <2>0, <2>1 DEF NoCall, Answering, Handover
  <2>. QED
    BY SMT, <1>t, <2>0, <2>1, <2>2 DEF Protocol, Wire
<1>8. CASE NextStep
  <2>0. /\ UNCHANGED <<conf, parent, req, need, pout, answer, up, down, pre>>
        /\ post = "next"
    BY <1>8 DEF NextStep
  <2>1. op = "none" /\ NoCall /\ parent \in {"absent", "cmd", "dead"} /\ (conf.one => parent = "absent")
    BY <1>t, <1>c, <1>h, <2>0 DEF Callers, Child, Alive, Protocol, NoCall, Handover
  <2>2. CASE plan = <<>> \/ Head(plan) \in {"noport", "port"}
    <3>1. UNCHANGED <<op, cout, want, val>>
      BY <1>8, <2>2 DEF NextStep
    <3>. QED
      BY <1>t, <2>0, <3>1, WireKept
  <2>3. CASE plan # <<>> /\ Head(plan) \notin {"noport", "port"}
    <3> DEFINE o == IF Head(plan) = "checks" THEN "active" ELSE Head(plan)
    <3>1. Ask(o, "none", "none")
      BY <1>8, <2>3 DEF NextStep
    <3>2. Head(plan) \in Steps
      <4>1. plan \in Seq(Steps)
        BY DEF PInv, Course, Orderly
      <4>. QED
        BY <2>3, <4>1, Tails
    <3>3. o \in Ops \ {"login"}
      BY <2>3, <3>2 DEF Steps, Ops
    <3> HIDE DEF o
    <3>. QED
      BY <1>t, <2>0, <2>1, <3>1, <3>3, AskStarts
  <2>. QED
    BY <2>2, <2>3
<1>. QED
  BY <1>1, <1>2, <1>3, <1>4, <1>5, <1>6, <1>7, <1>8

\* The child that waits for a line has no request under way.
LEMMA IdleLogin ==
  ASSUME PInv, pre = "idle"
  PROVE  /\ post = "none" /\ op = "none" /\ NoCall /\ TypeOK /\ Wire /\ Protocol
         /\ parent \in {"absent", "cmd", "dead"} /\ (conf.one => parent = "absent")
         /\ fails \in 0 .. MaxFails /\ fails # MaxFails
<1>1. Handover /\ TypeOK /\ Wire /\ Protocol /\ Callers /\ Limits
  BY DEF PInv, AInv, HInv
<1>2. post = "none"
  BY <1>1 DEF Handover
<1>3. op = "none" /\ NoCall
  BY <1>1, <1>2 DEF Callers, Child, Alive, Protocol
<1>. QED
  BY <1>1, <1>2, <1>3 DEF NoCall, Handover, Limits

LEMMA AnonNamed == "anon" \in Named(conf) /\ "none" \notin Named(conf) /\ Named(conf) \subseteq Users
BY DEF Named, Users

\* The names that are handed on.
LEMMA UserCases ==
  ASSUME NEW u \in Users, User(u)
  PROVE  /\ UNCHANGED <<conf, parent, req, need, pout, answer, listen, why, port, plan, up, down, post>>
         /\ pre = "idle"
         /\ \/ /\ UNCHANGED <<op, cout, want, val, who, pw, fails, pre>>
               /\ user' = "none" \/ (u \in Named(conf) /\ user' = u)
            \/ UNCHANGED <<op, cout, want, val, who, pw>> /\ Fail
            \/ /\ u \in Named(conf) /\ user' = u /\ pre' = "call" /\ Ask("login", u, "right")
               /\ UNCHANGED fails
<1> USE DEF User, PreLine, call, sess, Fail, PreEnds, sig
<1>1. CASE ~conf.local /\ u # "anon"
  BY <1>1
<1>2. CASE (conf.local \/ u = "anon") /\ u \in conf.denied
  BY <1>2
<1>3. CASE (conf.local \/ u = "anon") /\ u \notin conf.denied
  <2>1. u \in Named(conf)
    BY <1>3 DEF Named
  <2>. QED
    BY <1>3, <2>1
<1>. QED
  BY <1>1, <1>2, <1>3

LEMMA ClientWire ==
  ASSUME PInv, \/ \E u \in Users : User(u)
               \/ \E p \in Passwords : Pass(p) \/ Get(p)
               \/ Pasv \/ (\E legal \in BOOLEAN : Port(legal))
               \/ \E stor, refused \in BOOLEAN : Transfer(stor, refused)
  PROVE  (Wire /\ Protocol)'
<1>t. TypeOK /\ Wire /\ Protocol
  BY DEF PInv
<1>1. ASSUME NEW u \in Users, User(u) PROVE (Wire /\ Protocol)'
  <2>1. /\ UNCHANGED <<conf, parent, req, need, pout, answer, up, down>> /\ pre = "idle"
        /\ \/ UNCHANGED <<op, cout, want, val>>
           \/ u \in Named(conf) /\ Ask("login", u, "right")
    BY <1>1, UserCases
  <2>2. CASE UNCHANGED <<op, cout, want, val>>
    BY <1>t, <2>1, <2>2, WireKept
  <2>3. CASE u \in Named(conf) /\ Ask("login", u, "right")
    BY <2>1, <2>3, IdleLogin, AskStarts DEF Ops, Passwords
  <2>. QED
    BY <2>1, <2>2, <2>3
<1>2. ASSUME NEW p \in Passwords, Pass(p) PROVE (Wire /\ Protocol)'
  <2>1. /\ UNCHANGED <<conf, parent, req, need, pout, answer, up, down>> /\ pre = "idle"
        /\ \/ UNCHANGED <<op, cout, want, val, pre>>
           \/ user # "none" /\ Ask("login", user, p)
    BY <1>2 DEF Pass, PreLine, call
  <2>2. CASE UNCHANGED <<op, cout, want, val, pre>>
    BY <1>t, <2>1, <2>2, WireKept
  <2>3. CASE user # "none" /\ Ask("login", user, p)
    <3>1. user \in Named(conf)
      BY <2>3 DEF PInv, Names
    <3>. QED
      BY <2>1, <2>3, <3>1, IdleLogin, AskStarts DEF Ops
  <2>. QED
    BY <2>1, <2>2, <2>3
<1>3. ASSUME NEW p \in Passwords, Get(p) PROVE (Wire /\ Protocol)'
  <2>1. /\ UNCHANGED <<conf, parent, req, need, pout, answer, up, down>> /\ pre = "idle"
        /\ Ask("login", "anon", p)
    BY <1>3 DEF Get, PreLine
  <2>. QED
    BY <2>1, IdleLogin, AnonNamed, AskStarts DEF Ops
<1>4. ASSUME NEW steps, Command(steps) PROVE (Wire /\ Protocol)'
  <2>1. UNCHANGED <<conf, parent, req, need, pout, answer, op, cout, want, val, up, down, pre>>
    BY <1>4 DEF Command, boss, call
  <2>. QED
    BY <1>t, <2>1, WireKept
<1>. QED
  BY <1>1, <1>2, <1>3, <1>4 DEF Pasv, Port, Transfer

\* What lies on the socket pair is always the rest of one request or of its
\* answer, as far as the two processes have got.
LEMMA WireNext == PInv /\ [Next]_vars => (Wire /\ Protocol)'
BY CalmOrStirring, ParentWire, ChildWire, ClientWire DEF Stirring

\* Who has a request under way.
LEMMA CallersNext == PInv /\ [Next]_vars => Callers'
<1> SUFFICES ASSUME PInv, [Next]_vars PROVE Callers'
  OBVIOUS
<1>t. Handover /\ Callers /\ Wire /\ Protocol /\ TypeOK
  BY DEF PInv, AInv, HInv
<1> USE DEF call, boss, sig
<1>1. ASSUME Calm PROVE Callers'
  BY <1>t, <1>1 DEF Calm, Callers, Child, Alive
<1>2. ASSUME ParentGetCmd \/ ParentGetArg \/ DoLogin \/ Serve \/ ParentWrite \/ Wait PROVE Callers'
  <2>1. UNCHANGED <<pre, post, op>>
    BY <1>2 DEF ParentGetCmd, ParentGetArg, DoLogin, Serve, ParentWrite, Wait
  <2>. QED
    BY <1>t, <2>1 DEF Callers, Child, Alive
<1>3. ASSUME Fork PROVE Callers'
  BY <1>3 DEF Fork, Callers, Child, Alive
<1>4. ASSUME CallWrite \/ CallRead PROVE Callers'
  BY <1>t, <1>4 DEF CallWrite, CallRead, Callers, Child, Alive, CallerEnds, PreEnds, PostEnds
<1>5. ASSUME DirectLogin \/ Direct PROVE Callers'
  <2>1. op' = op /\ post' \in {post, "dead"} /\ pre' \in {pre, "dead"} /\ (post' # post => post = "call")
    BY <1>5 DEF DirectLogin, Direct, PreEnds, PostEnds
  <2>. QED
    BY <1>t, <2>1 DEF Callers, Child, Alive
<1>6. ASSUME LoginReturns PROVE Callers'
  <2>1. op' = "none" /\ pre' # "call" /\ post' # "call"
    <3>1. CASE val = "ok"
      BY <1>6, <3>1 DEF LoginReturns, PreEnds
    <3>2. CASE val # "ok" /\ conf.http
      BY <1>6, <3>2 DEF LoginReturns, PreEnds
    <3>3. CASE val # "ok" /\ ~conf.http
      BY <1>6, <3>3 DEF LoginReturns, PreEnds, Fail
    <3>. QED
      BY <3>1, <3>2, <3>3
  <2>. QED
    BY <2>1 DEF Callers, Child
<1>7. ASSUME CallReturns PROVE Callers'
  <2>1. op' = "none" /\ post' \in {"next", "dead"}
    BY <1>7 DEF CallReturns, PostEnds
  <2>. QED
    BY <2>1 DEF Callers, Child
<1>8. ASSUME NextStep PROVE Callers'
  <2>1. post = "next" /\ op = "none"
    BY <1>t, <1>8 DEF NextStep, Callers, Child, Alive
  <2>2. CASE plan = <<>> \/ Head(plan) \in {"noport", "port"}
    <3>1. op' = op /\ post' \in {"idle", "next"}
      BY <1>8, <2>2, <2>1 DEF NextStep
    <3>. QED
      BY <2>1, <3>1 DEF Callers, Child
  <2>3. CASE plan # <<>> /\ Head(plan) \notin {"noport", "port"}
    <3>1. op' = (IF Head(plan) = "checks" THEN "active" ELSE Head(plan)) /\ post' = "call"
      BY <1>8, <2>3 DEF NextStep, Ask
    <3>2. Head(plan) \in Steps
      <4>1. plan \in Seq(Steps)
        BY DEF PInv, Course, Orderly
      <4>. QED
        BY <2>3, <4>1, Tails
    <3>. QED
      BY <3>1, <3>2 DEF Callers, Child, Steps, Alive
  <2>. QED
    BY <2>2, <2>3
<1>9. ASSUME NEW u \in Users, User(u) PROVE Callers'
  <2>1. post' = post /\ post = "none" /\ op = "none"
    BY <1>9, UserCases, IdleLogin
  <2>2. (op' = op /\ (pre' = "idle" \/ pre' = "dead")) \/ (op' = "login" /\ pre' = "call")
    BY <1>9, UserCases DEF Fail, PreEnds, Ask
  <2>. QED
    BY <2>1, <2>2 DEF Callers, Child, Alive
<1>10. ASSUME NEW p \in Passwords, Pass(p) \/ Get(p) PROVE Callers'
  <2>1. post' = post /\ post = "none" /\ op = "none"
    BY <1>10, IdleLogin DEF Pass, Get, PreLine
  <2>2. (op' = op /\ pre' = "idle") \/ (op' = "login" /\ pre' = "call")
    BY <1>10 DEF Pass, Get, PreLine, Ask
  <2>. QED
    BY <2>1, <2>2 DEF Callers, Child, Alive
<1>11. ASSUME NEW steps, Command(steps) PROVE Callers'
  BY <1>t, <1>11 DEF Command, PostLine, Callers, Child, Alive
<1>. QED
  BY CalmOrStirring, <1>1, <1>2, <1>3, <1>4, <1>5, <1>6, <1>7, <1>8, <1>9, <1>10, <1>11
     DEF Stirring, Pasv, Port, Transfer

\* Only a name that the child may hand on reaches handle_login, and it is there
\* before the login is tried.
LEMMA NamesNext == PInv /\ [Next]_vars => Names'
<1> SUFFICES ASSUME PInv, [Next]_vars PROVE Names'
  OBVIOUS
<1>t. Names /\ Handover /\ Wire /\ Protocol /\ TypeOK
  BY DEF PInv, AInv, HInv
<1>n. "anon" \in Named(conf) /\ "none" \notin Named(conf)
  BY AnonNamed
<1> USE DEF call, boss, login
<1>1. ASSUME Calm PROVE Names'
  BY <1>t, <1>1 DEF Calm, Names, ParentUp
<1>2. ASSUME ParentGetCmd PROVE Names'
  <2>1. UNCHANGED <<conf, user, who, pre>> /\ (parent' = "dead" \/
          (req' = Head(up).v /\ need' = Args(req') /\ parent' = (IF Args(req') = <<>> THEN "do" ELSE "args")))
    BY <1>2 DEF ParentGetCmd, ParentEnds
  <2>2. "login" \in Ops
    BY DEF Ops
  <2>a. Parts("login") - 1 = 4
    BY SMT DEF Parts
  <2>3. Args("login") \in Seq(Kinds) /\ Len(Args("login")) = 4
    BY <2>2, <2>a, ArgItems
  <2>4. Args("login") # <<>> /\ ~(Len(Args("login")) <= 3)
    BY SMTT(30), <2>3
  <2>5. CASE parent' = "dead"
    BY <1>t, <2>1, <2>5 DEF Names
  <2>6. CASE req' # "login"
    BY <1>t, <2>1, <2>6 DEF Names
  <2>7. CASE parent' # "dead" /\ req' = "login"
    <3>1. parent' = "args" /\ ~(Len(need') <= 3)
      BY <2>1, <2>4, <2>7
    <3>. QED
      BY <1>t, <2>1, <3>1 DEF Names
  <2>. QED
    BY <2>5, <2>6, <2>7
<1>3. ASSUME ParentGetArg PROVE Names'
  <2>0. /\ UNCHANGED <<conf, user, pre, req, op>> /\ parent = "args" /\ up # <<>> /\ need' = Tail(need)
        /\ parent' \in {"do", "args"} /\ (parent' = "do" => Tail(need) = <<>>)
        /\ who' = (IF req = "login" /\ Len(need) = 4 THEN Head(up).v ELSE who)
    BY <1>3 DEF ParentGetArg
  <2>1. op \in Ops /\ Asking
    BY <1>t, <2>0 DEF TypeOK, Protocol, NoCall, Answering
  <2>2. /\ up \in Seq(Token) /\ cout \in Seq(Token) /\ Len(need) = Len(up) + Len(cout)
        /\ need \in Seq(Kinds) /\ Len(need) \in Nat \ {0} /\ req = op /\ Len(cout) \in Nat
    BY SMT, <1>t, <2>0, <2>1 DEF Wire, Asking, TypeOK
  <2>3. Head(up) = up[1] /\ Len(up) \in Nat \ {0}
    BY <2>0, <2>2, Tails
  <2>4. need # <<>>
    BY SMT, <2>2
  <2>5. Len(Tail(need)) = Len(need) - 1 /\ (Tail(need) = <<>> <=> Len(need) = 1)
    BY <2>2, <2>4, Tails
  <2>6. ASSUME req = "login", Len(need) = 4 PROVE who' \in Named(conf)
    <3>1. IsItem(conf, up[1], op, 3)
      <4>0. Len(up) + Len(cout) = 4
        BY <2>2, <2>6
      <4>1. Len(cout) + Len(up) - 1 = 3
        BY SMT, <2>2, <2>3, <4>0
      <4>. QED
        BY SMTT(30), <1>t, <2>3, <4>1 DEF Wire
    <3>. QED
      BY <2>0, <2>2, <2>3, <2>6, <3>1 DEF IsItem
  <2>7. Len(need') <= 3 => Len(need) <= 3 \/ Len(need) = 4
    BY SMT, <2>0, <2>2, <2>5
  <2>8. parent' = "do" => Len(need) <= 3
    BY SMT, <2>0, <2>5
  <2>. QED
    BY <1>t, <1>n, <2>0, <2>6, <2>7, <2>8 DEF Names, Handover
<1>4. ASSUME DoLogin \/ Serve \/ ParentWrite \/ Wait \/ Fork \/ CallWrite \/ CallRead \/ DirectLogin \/ Direct PROVE Names'
  <2>1. /\ UNCHANGED <<conf, user, who, need>> /\ (req' = req \/ req' = "none")
        /\ pre' = pre \/ pre' = "dead"
        /\ (parent' = parent /\ req' = req) \/ parent' \notin {"args", "do"}
    BY <1>4 DEF DoLogin, Serve, ParentWrite, Wait, Fork, CallWrite, CallRead, DirectLogin, Direct,
                CallerEnds, PreEnds, PostEnds, ParentEnds
  <2>. QED
    BY <1>t, <2>1 DEF Names
<1>5. ASSUME LoginReturns PROVE Names'
  <2>1. UNCHANGED <<conf, who, need, parent, req>> /\ user' \in {user, "none"} /\ pre' # "call"
    <3>1. CASE val = "ok"
      BY <1>5, <3>1 DEF LoginReturns, PreEnds
    <3>2. CASE val # "ok" /\ conf.http
      BY <1>5, <3>2 DEF LoginReturns, PreEnds
    <3>3. CASE val # "ok" /\ ~conf.http
      BY <1>5, <3>3 DEF LoginReturns, PreEnds, Fail
    <3>. QED
      BY <3>1, <3>2, <3>3
  <2>. QED
    BY <1>t, <2>1 DEF Names
<1>6. ASSUME NextStep PROVE Names'
  <2>1. UNCHANGED <<conf, user, need, parent, req, pre>>
    BY <1>6 DEF NextStep
  <2>2. pre # "call" /\ plan \in Seq(Steps)
    BY <1>t, <1>6 DEF NextStep, Handover, PInv, Course, Orderly
  <2>3. who' = who
    <3>1. CASE plan = <<>> \/ Head(plan) \in {"noport", "port"}
      BY <1>6, <3>1 DEF NextStep
    <3>2. CASE plan # <<>> /\ Head(plan) \notin {"noport", "port"}
      <4>1. Ask(IF Head(plan) = "checks" THEN "active" ELSE Head(plan), "none", "none")
        BY <1>6, <3>2 DEF NextStep
      <4>2. Head(plan) \in Steps
        BY <2>2, <3>2, Tails
      <4>. QED
        BY <4>1, <4>2 DEF Ask, Steps
    <3>. QED
      BY <3>1, <3>2
  <2>. QED
    BY <1>t, <2>1, <2>3 DEF Names
<1>7. ASSUME CallReturns PROVE Names'
  <2>1. UNCHANGED <<conf, user, who, need, parent, req, pre>>
    BY <1>7 DEF CallReturns, PostEnds
  <2>. QED
    BY <1>t, <2>1 DEF Names
<1>8. ASSUME NEW u \in Users, User(u) PROVE Names'
  <2>1. UNCHANGED <<conf, parent, req, need>>
    BY <1>8, UserCases
  <2>2. /\ user' \in Named(conf) \cup {"none"} /\ who' \in Named(conf) \cup {"none"}
        /\ who' = who \/ (who' # "none" /\ conf.one)
        /\ conf.one /\ pre' = "call" => who' # "none"
    <3>1. pre = "idle"
      BY <1>8, UserCases
    <3>2. CASE UNCHANGED <<who, pre>> /\ (user' = "none" \/ (u \in Named(conf) /\ user' = u))
      BY <1>t, <3>1, <3>2 DEF Names
    <3>3. CASE UNCHANGED who /\ Fail
      BY <1>t, <3>3 DEF Names, Fail, PreEnds
    <3>4. CASE u \in Named(conf) /\ user' = u /\ Ask("login", u, "right")
      BY <1>t, <1>n, <3>4 DEF Names, Ask
    <3>. QED
      BY <1>8, <3>2, <3>3, <3>4, UserCases
  <2>. QED
    BY <1>t, <2>1, <2>2 DEF Names, Handover
<1>9. ASSUME NEW p \in Passwords, Pass(p) \/ Get(p) PROVE Names'
  <2>1. UNCHANGED <<conf, parent, req, need>> /\ pre = "idle"
    BY <1>9 DEF Pass, Get, PreLine
  <2>2. \/ UNCHANGED <<user, pre, who>>
        \/ \E u \in Named(conf) : user' = u /\ Ask("login", u, p)
    BY <1>t, <1>n, <1>9 DEF Pass, Get, Names
  <2>. QED
    BY <1>t, <1>n, <2>1, <2>2 DEF Names, Handover, Ask
<1>10. ASSUME NEW steps, Command(steps) PROVE Names'
  BY <1>t, <1>10 DEF Command, Names
<1>. QED
  BY CalmOrStirring, <1>1, <1>2, <1>3, <1>4, <1>5, <1>6, <1>7, <1>8, <1>9, <1>10
     DEF Stirring, Pasv, Port, Transfer

\* The last refusal is the end of the child that logs in, and nothing follows.
LEMMA LimitsNext == PInv /\ [Next]_vars => Limits'
<1> SUFFICES ASSUME PInv, [Next]_vars PROVE Limits'
  OBVIOUS
<1>t. Limits /\ Handover /\ Callers /\ Wire /\ Protocol /\ TypeOK
  BY DEF PInv, AInv, HInv
<1>m. MaxFails \in Nat \ {0}
  BY PrivsepAssumption
<1> USE DEF call, boss, login
<1>1. ASSUME Calm PROVE Limits'
  BY <1>t, <1>1 DEF Calm, Limits, ParentUp
<1>2. ASSUME ParentGetCmd \/ ParentGetArg \/ DoLogin \/ Serve \/ ParentWrite \/ Wait \/ Fork PROVE Limits'
  <2>1. parent \in {"cmd", "args", "do", "reply", "wait", "fork"}
        /\ UNCHANGED <<fails, pre>>
    BY <1>2 DEF ParentGetCmd, ParentGetArg, DoLogin, Serve, ParentWrite, Wait, Fork
  <2>2. \/ UNCHANGED <<post, op>> /\ parent' \notin {"wait", "fork"}
        \/ parent \in {"wait", "fork"}
        \/ parent = "reply"
    BY <1>2 DEF ParentGetCmd, ParentGetArg, DoLogin, Serve, ParentWrite, Wait, Fork, ParentEnds
  <2>3. parent = "reply" => op # "none"
    BY <1>t DEF Protocol, NoCall
  <2>. QED
    BY <1>t, <2>1, <2>2, <2>3 DEF Limits
<1>3. ASSUME CallWrite \/ CallRead \/ DirectLogin \/ Direct PROVE Limits'
  <2>1. /\ UNCHANGED <<fails, op, parent>> /\ post' \in {post, "dead"} /\ pre' \in {pre, "dead"}
        /\ Child = "call" \/ pre = "call" \/ post = "call"
    BY <1>3 DEF CallWrite, CallRead, DirectLogin, Direct, CallerEnds, PreEnds, PostEnds, sig
  <2>2. fails # MaxFails
    BY <1>t, <2>1 DEF Limits, Callers, Child
  <2>. QED
    BY <1>t, <2>1, <2>2 DEF Limits
<1>4. ASSUME LoginReturns PROVE Limits'
  <2>0. pre = "call" /\ post = "none" /\ want = "done" /\ op' = "none" /\ UNCHANGED parent
    BY <1>4 DEF LoginReturns
  <2>1. fails \in 0 .. MaxFails /\ fails # MaxFails
    BY <1>t, <2>0 DEF Limits
  <2>2. CASE val = "ok"
    <3>1. fails' = fails
      BY <1>4, <2>2 DEF LoginReturns, PreEnds
    <3>. QED
      BY <2>1, <3>1 DEF Limits
  <2>3. CASE val # "ok"
    <3>1. parent \notin {"wait", "fork"}
      <4>1. Answering /\ val = answer
        BY <1>t, <2>0, Returned DEF Callers, Child
      <4>. QED
        BY <2>3, <4>1 DEF Answering
    <3>2. fails' = fails + 1 /\ post' = post /\ (fails + 1 >= MaxFails => pre' = "dead")
      <4>1. CASE conf.http
        BY <1>4, <2>3, <4>1 DEF LoginReturns, PreEnds
      <4>2. CASE ~conf.http
        BY <1>4, <2>3, <4>2 DEF LoginReturns, Fail, PreEnds
      <4>. QED
        BY <4>1, <4>2
    <3>. QED
      BY SMTT(30), <1>m, <2>0, <2>1, <3>1, <3>2 DEF Limits
  <2>. QED
    BY <2>2, <2>3
<1>5. ASSUME NextStep \/ CallReturns PROVE Limits'
  <2>1. post \in {"next", "call"} /\ fails' = fails
    BY <1>5 DEF NextStep, CallReturns
  <2>. QED
    BY <1>t, <2>1 DEF Limits
<1>6. ASSUME NEW u \in Users, User(u) PROVE Limits'
  <2>1. pre = "idle" /\ UNCHANGED <<parent, post>>
    BY <1>6, UserCases
  <2>2. fails \in 0 .. MaxFails /\ fails # MaxFails /\ post = "none" /\ op = "none" /\ parent \notin {"wait", "fork"}
    BY <2>1, IdleLogin
  <2>3. fails' = fails \/ (fails' = fails + 1 /\ (fails + 1 >= MaxFails => pre' = "dead") /\ op' = op)
    BY <1>6, UserCases DEF Fail, PreEnds
  <2>. QED
    BY SMTT(30), <1>m, <2>1, <2>2, <2>3 DEF Limits
<1>7. ASSUME NEW p \in Passwords, Pass(p) \/ Get(p) PROVE Limits'
  <2>1. pre = "idle" /\ fails' = fails
    BY <1>7 DEF Pass, Get, PreLine
  <2>. QED
    BY <2>1, IdleLogin DEF Limits
<1>8. ASSUME NEW steps, Command(steps) PROVE Limits'
  BY <1>t, <1>8 DEF Command, PostLine, Limits
<1>. QED
  BY CalmOrStirring, <1>1, <1>2, <1>3, <1>4, <1>5, <1>6, <1>7, <1>8
     DEF Stirring, Pasv, Port, Transfer

(***************************************************************************)
(* The commands of the session.                                            *)
(***************************************************************************)
LEMMA Concats ==
  \A s, t \in Seq(Steps) :
    /\ s \o t \in Seq(Steps) /\ Len(s \o t) = Len(s) + Len(t)
    /\ \A i \in 1 .. Len(s) : (s \o t)[i] = s[i]
    /\ \A i \in 1 .. Len(t) : (s \o t)[Len(s) + i] = t[i]
BY SMTT(30)

\* The requests of the checks, before the data connection is made.
Checking(c, f) ==
  /\ f \in Seq(Steps) /\ Len(f) \in Nat \ {0} /\ f[1] = "checks"
  /\ \A i \in 2 .. Len(f) : f[i] \in {"active", "chown"}
  /\ \A i \in 1 .. Len(f) : f[i] = "chown" => c.chown
  /\ \A i \in 1 .. Len(f) - 1 : Follows(f[i], f[i + 1])

\* Those that make it.
Connecting(r, hasPort) ==
  /\ r \in Seq(Steps) /\ Len(r) \in Nat \ {0} /\ r[1] = "active"
  /\ \A i \in 1 .. Len(r) : r[i] = "active" \/ (i = Len(r) /\ r[i] = (IF hasPort THEN "sock" ELSE "accept"))

LEMMA OrderlyTransfer ==
  ASSUME NEW c, NEW f, NEW r, NEW hasPort \in BOOLEAN, Checking(c, f), Connecting(r, hasPort),
         NEW p \in Seq(Steps), Len(p) = Len(f) + Len(r) + 2,
         \A i \in 1 .. Len(f) : p[i] = f[i],
         \A i \in 1 .. Len(r) : p[Len(f) + i] = r[i],
         p[Len(f) + Len(r) + 1] = "noport", p[Len(f) + Len(r) + 2] = "cleanup"
  PROVE  Orderly(c, p, hasPort)
<1> DEFINE m == Len(f)
           n == Len(r)
<1>1. m \in Nat \ {0} /\ n \in Nat \ {0} /\ Len(p) = m + n + 2
  BY DEF Checking, Connecting
<1>2. /\ p[1] = "checks" /\ \A i \in 2 .. m : p[i] \in {"active", "chown"}
      /\ \A i \in 1 .. m : p[i] = "chown" => c.chown
      /\ p[m + 1] = "active"
      /\ \A i \in m + 1 .. m + n - 1 : p[i] = "active"
      /\ p[m + n] \in {"active", IF hasPort THEN "sock" ELSE "accept"}
      /\ p[m + n + 1] = "noport" /\ p[m + n + 2] = "cleanup"
  <2>1. ASSUME NEW i \in m + 1 .. m + n PROVE p[i] = r[i - m] /\ i - m \in 1 .. n /\ (i - m = n <=> i = m + n)
    <3>1. i - m \in 1 .. n /\ m + (i - m) = i /\ (i - m = n <=> i = m + n)
      BY SMT, <1>1
    <3>2. p[m + (i - m)] = r[i - m]
      BY <3>1
    <3>. QED
      BY <3>1, <3>2
  <2>2. /\ p[1] = "checks" /\ \A i \in 2 .. m : p[i] \in {"active", "chown"}
        /\ \A i \in 1 .. m : p[i] = "chown" => c.chown
    <3>1. p[1] = f[1] /\ \A i \in 2 .. m : i \in 1 .. m /\ p[i] = f[i]
      BY SMTT(30), <1>1
    <3>2. \A i \in 1 .. m : p[i] = "chown" => c.chown
      BY SMTT(30) DEF Checking
    <3>. QED
      BY <3>1, <3>2 DEF Checking
  <2>3. ASSUME NEW i \in m + 1 .. m + n - 1 PROVE p[i] = "active"
    <3>1. i \in m + 1 .. m + n /\ i # m + n
      BY SMTT(30), <1>1
    <3>2. p[i] = r[i - m] /\ i - m \in 1 .. n /\ i - m # n
      BY <2>1, <3>1
    <3>. QED
      BY <3>2 DEF Connecting
  <2>4. p[m + 1] = "active"
    <3>1. p[m + 1] = r[1]
      BY SMTT(30), <1>1
    <3>. QED
      BY <3>1 DEF Connecting
  <2>5. p[m + n] \in {"active", IF hasPort THEN "sock" ELSE "accept"}
    BY SMTT(30), <1>1, <2>1 DEF Connecting
  <2>. QED
    BY <2>2, <2>3, <2>4, <2>5
<1>3. ASSUME NEW i \in 1 .. m - 1 PROVE Follows(p[i], p[i + 1])
  <2>1. i \in 1 .. m /\ i + 1 \in 1 .. m
    BY SMT, <1>1
  <2>. QED
    BY <2>1 DEF Checking
<1> HIDE DEF m, n
<1>4. ASSUME NEW i \in 1 .. Len(p) - 1 PROVE Follows(p[i], p[i + 1])
  <2>1. CASE i \in 1 .. m - 1
    BY <1>3, <2>1
  <2>2. CASE i = m
    BY SMTT(30), <1>1, <1>2, <2>2 DEF Follows
  <2>3. CASE i \in m + 1 .. m + n - 1
    <3>1. p[i] = "active"
      BY <1>2, <2>3
    <3>a. i + 1 \in m + 1 .. m + n - 1 \/ i + 1 = m + n
      BY SMT, <1>1, <2>3
    <3>2. p[i + 1] \in {"active", "sock", "accept"}
      BY <1>2, <3>a
    <3>. QED
      BY <3>1, <3>2 DEF Follows
  <2>4. CASE i = m + n
    BY <1>1, <1>2, <2>4 DEF Follows
  <2>5. CASE i = m + n + 1
    BY SMTT(30), <1>1, <1>2, <2>5 DEF Follows
  <2>. QED
    BY SMT, <1>1, <2>1, <2>2, <2>3, <2>4, <2>5
<1>5. ASSUME NEW i \in 1 .. Len(p)
      PROVE  /\ p[i] = "noport" => i + 1 >= Len(p)
             /\ p[i] = "checks" => i = 1
             /\ p[i] = "chown" => c.chown
             /\ p[i] = "accept" => ~hasPort /\ i + 2 = Len(p)
             /\ p[i] = "sock" => hasPort /\ i + 2 = Len(p)
  <2>1. CASE i = 1
    BY <1>1, <1>2, <2>1
  <2>2. CASE i \in 2 .. m
    BY SMT, <1>1, <1>2, <2>2
  <2>3. CASE i \in m + 1 .. m + n - 1
    BY <1>1, <1>2, <2>3
  <2>4. CASE i = m + n
    <3>1. p[i] = "active" \/ p[i] = (IF hasPort THEN "sock" ELSE "accept")
      BY <1>2, <2>4
    <3>2. i + 2 = Len(p)
      BY <1>1, <2>4
    <3>. QED
      BY <3>1, <3>2
  <2>5. CASE i = m + n + 1
    BY SMT, <1>1, <1>2, <2>5
  <2>6. CASE i = m + n + 2
    BY <1>1, <1>2, <2>6
  <2>. QED
    BY SMTT(30), <1>1, <2>1, <2>2, <2>3, <2>4, <2>5, <2>6
<1>6. ASSUME NEW i \in 1 .. Len(p) - 1, p[i] \in {"active", "accept", "sock"}, p[i + 1] = "noport"
      PROVE  i + 2 = Len(p) /\ p[i + 2] = "cleanup"
  <2>1. i + 1 \in 1 .. Len(p) /\ i + 2 >= Len(p)
    BY SMTT(30), <1>1, <1>5, <1>6
  <2>2. i = m + n \/ i = m + n + 1
    BY SMT, <1>1, <2>1
  <2>. QED
    BY <1>1, <1>2, <1>6, <2>2
<1>. QED
  BY <1>4, <1>5, <1>6 DEF Orderly

LEMMA OrderlyPlans ==
  ASSUME port \in BOOLEAN
  PROVE  /\ Orderly(conf, PasvPlan, port)
         /\ \A legal \in BOOLEAN : Orderly(conf, PortPlan(legal), port)
         /\ Orderly(conf, ChecksPlan, port)
         /\ \A stor \in BOOLEAN : Orderly(conf, TransferPlan(stor), port)
         /\ PasvPlan # <<>> /\ Head(PasvPlan) = "cleanup"
         /\ \A legal \in BOOLEAN : PortPlan(legal) # <<>> /\ Head(PortPlan(legal)) = "cleanup"
         /\ ChecksPlan # <<>> /\ Head(ChecksPlan) = "checks"
         /\ \A stor \in BOOLEAN : TransferPlan(stor) # <<>> /\ Head(TransferPlan(stor)) = "checks"
<1>1. Orderly(conf, PasvPlan, port) /\ PasvPlan # <<>> /\ Head(PasvPlan) = "cleanup"
  BY SMT DEF Orderly, Follows, Steps, PasvPlan
<1>2. ASSUME NEW legal \in BOOLEAN
      PROVE  Orderly(conf, PortPlan(legal), port) /\ PortPlan(legal) # <<>> /\ Head(PortPlan(legal)) = "cleanup"
  <2>1. Orderly(conf, <<"cleanup", "noport", "port">>, port) /\ Orderly(conf, <<"cleanup", "noport">>, port)
    BY SMT DEF Orderly, Follows, Steps
  <2>. QED
    BY SMTT(30), <2>1 DEF PortPlan
<1>3. Orderly(conf, ChecksPlan, port) /\ ChecksPlan # <<>> /\ Head(ChecksPlan) = "checks"
  <2>1. Orderly(conf, <<"checks", "active">>, port) /\ Orderly(conf, <<"checks">>, port)
    BY SMT DEF Orderly, Follows, Steps
  <2>. QED
    BY SMTT(30), <2>1 DEF ChecksPlan
<1>4. ASSUME NEW stor \in BOOLEAN
      PROVE  /\ Orderly(conf, TransferPlan(stor), port)
             /\ TransferPlan(stor) # <<>> /\ Head(TransferPlan(stor)) = "checks"
  <2> DEFINE chown == IF stor /\ conf.chown THEN <<"chown">> ELSE <<>>
             f == ChecksPlan \o chown
             e == <<"noport", "cleanup">>
             p == (f \o RemotePlan) \o e
  <2>1. /\ ChecksPlan \in Seq(Steps) /\ Len(ChecksPlan) = (IF port THEN 2 ELSE 1) /\ ChecksPlan[1] = "checks"
        /\ port => ChecksPlan[2] = "active"
    <3>1. <<"checks", "active">> \in Seq(Steps) /\ <<"checks">> \in Seq(Steps)
      BY SMT DEF Steps
    <3>. QED
      BY <3>1 DEF ChecksPlan
  <2>2. /\ chown \in Seq(Steps) /\ Len(chown) \in {0, 1}
        /\ Len(chown) = 1 => chown[1] = "chown" /\ conf.chown
    <3>1. <<"chown">> \in Seq(Steps) /\ <<>> \in Seq(Steps)
      BY SMT DEF Steps
    <3>. QED
      BY SMT, <3>1
  <2>3. /\ f \in Seq(Steps) /\ Len(f) = Len(ChecksPlan) + Len(chown)
        /\ \A i \in 1 .. Len(ChecksPlan) : f[i] = ChecksPlan[i]
        /\ \A i \in 1 .. Len(chown) : f[Len(ChecksPlan) + i] = chown[i]
    BY <2>1, <2>2, Concats
  <2>4. /\ RemotePlan \in Seq(Steps) /\ Len(RemotePlan) \in {3, 4}
        /\ \A i \in 1 .. Len(RemotePlan) : RemotePlan[i] = "active" \/
              (i = Len(RemotePlan) /\ RemotePlan[i] = (IF port THEN "sock" ELSE "accept"))
        /\ RemotePlan[1] = "active"
    <3>1. CASE ~port
      <4>1. RemotePlan = <<"active", "active", "accept">>
        BY <3>1 DEF RemotePlan
      <4>. QED
        BY SMT, <3>1, <4>1 DEF Steps
    <3>2. CASE port /\ conf.promiscuous
      <4>1. RemotePlan = <<"active", "active", "active">>
        BY SMT, <3>2 DEF RemotePlan
      <4>. QED
        BY SMT, <4>1 DEF Steps
    <3>3. CASE port /\ ~conf.promiscuous
      <4> DEFINE a == <<"active", "active", "active">>
                 b == <<"sock">>
      <4>1. RemotePlan = a \o b
        BY <3>3 DEF RemotePlan
      <4>2. a \in Seq(Steps) /\ b \in Seq(Steps) /\ Len(a) = 3 /\ Len(b) = 1
            /\ a[1] = "active" /\ a[2] = "active" /\ a[3] = "active" /\ b[1] = "sock"
        BY SMT DEF Steps
      <4> HIDE DEF a, b
      <4>3. /\ RemotePlan \in Seq(Steps) /\ Len(RemotePlan) = Len(a) + Len(b)
            /\ \A i \in 1 .. Len(a) : RemotePlan[i] = a[i]
            /\ \A i \in 1 .. Len(b) : RemotePlan[Len(a) + i] = b[i]
        BY <4>1, <4>2, Concats
      <4>4. /\ RemotePlan \in Seq(Steps) /\ Len(RemotePlan) = 4 /\ RemotePlan[1] = "active"
            /\ RemotePlan[2] = "active" /\ RemotePlan[3] = "active" /\ RemotePlan[4] = "sock"
        BY SMT, <4>2, <4>3
      <4>. QED
        BY SMT, <3>3, <4>4
    <3>. QED
      BY <3>1, <3>2, <3>3
  <2>5. e \in Seq(Steps) /\ Len(e) = 2 /\ e[1] = "noport" /\ e[2] = "cleanup"
    BY SMTT(30) DEF Steps
  <2> HIDE DEF chown, e
  <2>6. Checking(conf, f)
    BY SMTT(30), <2>1, <2>2, <2>3 DEF Checking, Follows
  <2>7. Connecting(RemotePlan, port)
    BY SMT, <2>4 DEF Connecting
  <2> HIDE DEF f
  <2>a. f \in Seq(Steps) /\ RemotePlan \in Seq(Steps)
    BY <2>3, <2>4
  <2>8. /\ f \o RemotePlan \in Seq(Steps) /\ Len(f \o RemotePlan) = Len(f) + Len(RemotePlan)
        /\ \A i \in 1 .. Len(f) : (f \o RemotePlan)[i] = f[i]
        /\ \A i \in 1 .. Len(RemotePlan) : (f \o RemotePlan)[Len(f) + i] = RemotePlan[i]
    BY <2>a, Concats
  <2> DEFINE q == f \o RemotePlan
  <2>9. /\ q \in Seq(Steps) /\ Len(q) = Len(f) + Len(RemotePlan) /\ Len(f) \in Nat \ {0}
        /\ \A i \in 1 .. Len(f) : q[i] = f[i]
        /\ \A i \in 1 .. Len(RemotePlan) : q[Len(f) + i] = RemotePlan[i]
        /\ p = q \o e
    BY <2>6, <2>8 DEF Checking
  <2> HIDE DEF q, p
  <2>10. /\ p \in Seq(Steps) /\ Len(p) = Len(q) + Len(e)
         /\ \A i \in 1 .. Len(q) : p[i] = q[i]
         /\ \A i \in 1 .. Len(e) : p[Len(q) + i] = e[i]
    BY <2>5, <2>9, Concats
  <2>11. /\ Len(p) = Len(f) + Len(RemotePlan) + 2
         /\ \A i \in 1 .. Len(f) : p[i] = f[i]
         /\ \A i \in 1 .. Len(RemotePlan) : p[Len(f) + i] = RemotePlan[i]
         /\ p[Len(f) + Len(RemotePlan) + 1] = "noport" /\ p[Len(f) + Len(RemotePlan) + 2] = "cleanup"
    BY SMTT(30), <2>4, <2>5, <2>9, <2>10
  <2>12. Orderly(conf, p, port)
    BY SMTT(30), <2>6, <2>7, <2>10, <2>11, OrderlyTransfer
  <2>13. p # <<>> /\ Head(p) = "checks"
    <3>1. p[1] = "checks" /\ Len(p) # 0
      BY SMTT(30), <2>4, <2>6, <2>9, <2>11 DEF Checking
    <3>2. p # <<>>
      BY SMT, <3>1
    <3>. QED
      BY <2>10, <3>1, <3>2, Tails
  <2>14. TransferPlan(stor) = p
    BY DEF TransferPlan, p, f, e, chown
  <2>. QED
    BY <2>12, <2>13, <2>14
<1>. QED
  BY <1>1, <1>2, <1>3, <1>4

LEMMA OrderlyEmpty == \A c, h : Orderly(c, <<>>, h)
BY SMT DEF Orderly

LEMMA OrderlyTail ==
  ASSUME NEW c, NEW p, NEW hasPort, Orderly(c, p, hasPort), p # <<>>
  PROVE  Orderly(c, Tail(p), hasPort)
<1> DEFINE t == Tail(p)
<1>1. /\ p \in Seq(Steps) /\ Len(p) \in Nat \ {0} /\ t \in Seq(Steps) /\ Len(t) = Len(p) - 1
      /\ \A i \in 1 .. Len(p) - 1 : t[i] = p[i + 1]
  BY Tails DEF Orderly
<1> HIDE DEF t
<1>2. ASSUME NEW i \in 1 .. Len(t) - 1
      PROVE  /\ Follows(t[i], t[i + 1])
             /\ t[i] \in {"active", "accept", "sock"} /\ t[i + 1] = "noport" =>
                  i + 2 = Len(t) /\ t[i + 2] = "cleanup"
  <2>1. /\ i + 1 \in 1 .. Len(p) - 1 /\ t[i] = p[i + 1] /\ t[i + 1] = p[i + 1 + 1]
    BY SMTT(30), <1>1
  <2>2. i + 2 = Len(t) <=> (i + 1) + 2 = Len(p)
    BY SMTT(30), <1>1
  <2>3. i + 2 = Len(t) => t[i + 2] = p[(i + 1) + 2]
    BY SMT, <1>1
  <2>. QED
    BY <2>1, <2>2, <2>3 DEF Orderly
<1>3. ASSUME NEW i \in 1 .. Len(t)
      PROVE  /\ t[i] = "noport" => i + 1 >= Len(t)
             /\ t[i] = "checks" => i = 1
             /\ t[i] = "chown" => c.chown
             /\ t[i] = "accept" => ~hasPort /\ i + 2 = Len(t)
             /\ t[i] = "sock" => hasPort /\ i + 2 = Len(t)
  <2>1. i + 1 \in 1 .. Len(p) /\ t[i] = p[i + 1] /\ i + 1 # 1
    BY SMTT(30), <1>1
  <2>2. /\ (i + 1) + 1 >= Len(p) => i + 1 >= Len(t)
        /\ (i + 1) + 2 = Len(p) => i + 2 = Len(t)
    BY SMT, <1>1
  <2>. QED
    BY <2>1, <2>2 DEF Orderly
<1>4. Orderly(c, t, hasPort)
  BY <1>1, <1>2, <1>3 DEF Orderly
<1>. QED
  BY <1>4 DEF t

\* The next request of a command finds what it needs.
LEMMA ReadyTail ==
  ASSUME NEW c, NEW p, NEW hasPort \in BOOLEAN, NEW open \in BOOLEAN, Orderly(c, p, hasPort), p # <<>>,
         Head(p) \notin {"noport", "port"},
         Head(p) = "cleanup" => ~open,
         Head(p) = "listen" => ~hasPort /\ open,
         Head(p) \in {"checks", "active", "chown", "accept", "sock"} => (hasPort <=> ~open)
  PROVE  Ready(Tail(p), hasPort, open)
<1> DEFINE t == Tail(p)
<1>1. /\ p \in Seq(Steps) /\ Len(p) \in Nat \ {0} /\ t \in Seq(Steps) /\ Len(t) = Len(p) - 1
      /\ \A i \in 1 .. Len(p) - 1 : t[i] = p[i + 1]
      /\ Head(p) = p[1] /\ Head(p) \in Steps /\ (t = <<>> <=> Len(p) = 1)
  BY SMT, Tails DEF Orderly
<1>2. t # <<>> => Head(t) = t[1]
  BY <1>1, Tails
<1> HIDE DEF t
<1>3. CASE t = <<>>
  BY <1>1, <1>3 DEF Ready, Steps, t
<1>4. CASE t # <<>>
  <2>1. Head(t) = p[2] /\ Follows(p[1], p[2]) /\ Len(p) > 1
    BY SMTT(30), <1>1, <1>2, <1>4 DEF Orderly
  <2>2. p[1] \in {"active", "accept", "sock"} /\ p[2] = "noport" => Len(t) = 2 /\ t[2] = "cleanup"
    <3>1. ASSUME p[1] \in {"active", "accept", "sock"}, p[2] = "noport" PROVE Len(t) = 2 /\ t[2] = "cleanup"
      <4>1. 1 \in 1 .. Len(p) - 1 /\ 1 + 1 = 2 /\ 1 + 2 = 3
        BY SMT, <1>1, <2>1
      <4>2. 3 = Len(p) /\ p[3] = "cleanup"
        BY <3>1, <4>1 DEF Orderly
      <4>a. Len(t) = Len(p) - 1
        BY <1>1
      <4>b. Len(p) = 3
        BY <4>2
      <4>3. Len(t) = 2 /\ 2 \in 1 .. Len(p) - 1 /\ 2 + 1 = 3
        BY SMT, <4>a, <4>b
      <4>4. t[2] = p[2 + 1]
        BY <1>1, <4>3
      <4>. QED
        BY <4>2, <4>3, <4>4
    <3>. QED
      BY <3>1
  <2>3. Ready(t, hasPort, open)
    BY <1>1, <1>4, <2>1, <2>2 DEF Ready, Follows, Steps
  <2>. QED
    BY <2>3 DEF t
<1>. QED
  BY <1>3, <1>4

\* The data address of the command changes (the noport and port steps).
LEMMA AddressTail ==
  ASSUME NEW c, NEW p, NEW hasPort \in BOOLEAN, NEW open \in BOOLEAN, Orderly(c, p, hasPort), p # <<>>,
         Head(p) \in {"noport", "port"}, Ready(p, hasPort, open)
  PROVE  /\ Orderly(c, Tail(p), Head(p) = "port") /\ Ready(Tail(p), Head(p) = "port", open)
<1> DEFINE t == Tail(p)
<1>1. /\ p \in Seq(Steps) /\ Len(p) \in Nat \ {0} /\ t \in Seq(Steps) /\ Len(t) = Len(p) - 1
      /\ \A i \in 1 .. Len(p) - 1 : t[i] = p[i + 1]
      /\ Head(p) = p[1] /\ (t = <<>> <=> Len(p) = 1)
  BY Tails DEF Orderly
<1>2. t # <<>> => Head(t) = t[1]
  BY <1>1, Tails
<1> HIDE DEF t
<1>3. CASE Head(p) = "port"
  <2>1. Len(p) = 1
    BY SMTT(30), <1>1, <1>3 DEF Orderly, Follows
  <2>2. t = <<>> /\ Len(t) = 0 /\ ~open
    BY <1>1, <1>3, <2>1 DEF Ready
  <2>3. Orderly(c, t, TRUE) /\ Ready(t, TRUE, open)
    BY <2>2, OrderlyEmpty DEF Ready
  <2>. QED
    BY <1>3, <2>3 DEF t
<1>4. CASE Head(p) = "noport"
  <2>1. Len(p) \in {1, 2}
    BY SMT, <1>1, <1>4 DEF Orderly
  <2>2. CASE Len(p) = 1
    <3>1. t = <<>> /\ Len(t) = 0
      BY <1>1, <2>2
    <3>2. Orderly(c, t, FALSE) /\ Ready(t, FALSE, open)
      BY <3>1, OrderlyEmpty DEF Ready
    <3>. QED
      BY <1>4, <3>2 DEF t
  <2>3. CASE Len(p) = 2
    <3>1. t # <<>> /\ Len(t) = 1 /\ t[1] = p[2] /\ p[2] \in {"listen", "port", "cleanup"}
      BY SMT, <1>1, <1>4, <2>3 DEF Orderly, Follows
    <3>2. ~open \/ p[2] = "cleanup"
      BY <1>4 DEF Ready
    <3>3. Orderly(c, t, FALSE)
      <4>1. (\A i \in 1 .. Len(t) - 1 : FALSE) /\ (\A i \in 1 .. Len(t) : i = 1)
        BY SMTT(30), <3>1
      <4>. QED
        BY <1>1, <3>1, <4>1 DEF Orderly
    <3>4. Ready(t, FALSE, open)
      BY <1>2, <3>1, <3>2 DEF Ready
    <3>. QED
      BY <1>4, <3>3, <3>4 DEF t
  <2>. QED
    BY <2>1, <2>2, <2>3
<1>. QED
  BY <1>3, <1>4

\* No request that the session makes is one that the parent dies of.
LEMMA ServedWell ==
  ASSUME PInv, op # "none", answer = "none", post # "none", NEW r \in Outcome(op, listen)
  PROVE  /\ op \in Ops \ {"login"} /\ r.open \in BOOLEAN /\ r.dies \in {"no", "bind"}
         /\ r.dies # "no" => r.open = listen
         /\ r.dies = "no" => /\ r.ans \in AnswerOf(op)
                             /\ Left(op, r.ans, plan, port, r.open)
<1>1. op \in Ops \ {"login"} /\ listen \in BOOLEAN /\ port \in BOOLEAN
  BY DEF PInv, TypeOK, Callers, Course
<1>2. /\ plan # <<>> /\ op = (IF Head(plan) = "checks" THEN "active" ELSE Head(plan))
      /\ Ready(plan, port, listen) /\ Orderly(conf, plan, port)
  BY DEF PInv, Course
<1>3. Head(plan) = plan[1] /\ Len(plan) \in Nat \ {0}
  BY <1>2, Tails DEF Orderly
<1>4. (Head(plan) = "accept" => ~port) /\ (Head(plan) = "sock" => port)
  BY SMTT(30), <1>2, <1>3 DEF Orderly
<1>5. /\ op = "listen" => ~port /\ ~listen
      /\ op \in {"chown", "accept", "sock"} => (port <=> ~listen)
      /\ op = "accept" => ~port
      /\ op = "sock" => port
  BY <1>2, <1>4 DEF Ready
<1>6. /\ r.open \in BOOLEAN /\ r.dies \in {"no", "bind"}
      /\ r.dies # "no" => r.open = listen
  BY SMT, <1>1, <1>5, Outcomes
<1>7. ASSUME r.dies = "no" PROVE r.ans \in AnswerOf(op) /\ Left(op, r.ans, plan, port, r.open)
  <2>1. /\ r.ans \in AnswerOf(op)
        /\ op \in {"active", "chown"} => r.open = listen
        /\ op = "active" => r.ans = (IF listen THEN "yes" ELSE "no")
        /\ op = "listen" => r.open
        /\ op = "accept" => listen /\ r.open
        /\ op = "sock" => ~listen
        /\ op \in {"cleanup", "sock"} => ~r.open
    BY <1>1, <1>7, Outcomes
  <2>. QED
    BY <1>1, <1>2, <1>5, <1>6, <2>1 DEF Left
<1>. QED
  BY <1>1, <1>6, <1>7

\* What the session knows when its request returns: no bug() is reached, and
\* the rest of the command finds what it needs.
LEMMA ReturnedWell ==
  ASSUME PInv, CallReturns
  PROVE  /\ why' = why /\ post' = "next" /\ op' = "none" /\ answer' = "none"
         /\ UNCHANGED <<conf, port, listen, pre>>
         /\ Orderly(conf, plan', port) /\ Ready(plan', port, listen)
<1>1. post = "call" /\ want = "done" /\ op' = "none" /\ answer' = "none" /\ UNCHANGED <<conf, port, listen>>
  BY DEF CallReturns
<1>2. TypeOK /\ Wire /\ Protocol /\ Callers /\ Course
  BY DEF PInv
<1>3. op \in Ops \ {"login"} /\ val = answer /\ answer # "none"
  BY <1>1, <1>2, Returned DEF Callers, Child
<1>4. /\ Left(op, val, plan, port, listen) /\ Orderly(conf, plan, port) /\ plan # <<>>
      /\ op = (IF Head(plan) = "checks" THEN "active" ELSE Head(plan))
      /\ port \in BOOLEAN /\ listen \in BOOLEAN
  BY <1>1, <1>2, <1>3 DEF Course, Ops
<1>5. Head(plan) \in Steps
  BY <1>4, Tails DEF Orderly
<1>6. op = "active" => /\ val = (IF listen THEN "yes" ELSE "no")
                       /\ (val = "yes") = listen
                       /\ Head(plan) \in {"checks", "active"}
                       /\ Head(plan) = "checks" => ~(port /\ listen)
                       /\ Head(plan) = "active" => (port <=> ~listen)
  BY <1>4 DEF Left, Ready
<1>7. ~(op = "active" /\ (val = "yes") = port /\ (port \/ Head(plan) # "checks"))
  BY <1>4, <1>6
<1>8. CASE op = "active" /\ val = "no" /\ ~port /\ Head(plan) = "checks"
  <2>1. why' = why /\ post' = "next" /\ plan' = <<>> /\ pre' = pre
    BY <1>7, <1>8 DEF CallReturns
  <2>2. Ready(<<>>, port, listen)
    BY <1>8 DEF Ready
  <2>. QED
    BY <1>1, <2>1, <2>2, OrderlyEmpty
<1>9. CASE ~(op = "active" /\ val = "no" /\ ~port /\ Head(plan) = "checks")
  <2>1. why' = why /\ post' = "next" /\ plan' = Tail(plan) /\ pre' = pre
    BY <1>7, <1>9 DEF CallReturns
  <2>2. Orderly(conf, Tail(plan), port)
    BY <1>4, OrderlyTail
  <2>3. op = "active" => (port <=> ~listen)
    BY <1>4, <1>6, <1>7, <1>9
  <2>4. /\ Head(plan) \notin {"noport", "port"}
        /\ Head(plan) = "cleanup" => ~listen
        /\ Head(plan) = "listen" => ~port /\ listen
        /\ Head(plan) \in {"checks", "active", "chown", "accept", "sock"} => (port <=> ~listen)
    BY <1>3, <1>4, <2>3 DEF Left, Ops
  <2>5. Ready(Tail(plan), port, listen)
    BY <1>4, <2>4, ReadyTail
  <2>. QED
    BY <1>1, <2>1, <2>2, <2>5
<1>. QED
  BY <1>8, <1>9

\* A session's command keeps to its course.
LEMMA CourseNext == PInv /\ [Next]_vars => Course'
<1> SUFFICES ASSUME PInv, [Next]_vars PROVE Course'
  OBVIOUS
<1>t. TypeOK /\ Handover /\ Wire /\ Protocol /\ Callers /\ Course
  BY DEF PInv, AInv, HInv
<1> USE DEF call, boss, sig, sess
<1>1. ASSUME UNCHANGED <<conf, port, listen, plan, op, answer>>,
             post' = post \/ (post # "none" /\ post' = "dead") \/ (post = "start" /\ post' = "idle")
      PROVE  Course'
  BY <1>t, <1>1 DEF Course
<1>2. ASSUME Calm PROVE Course'
  BY <1>1, <1>2 DEF Calm
<1>3. ASSUME ParentGetCmd \/ ParentGetArg \/ ParentWrite \/ Wait \/ CallWrite \/ CallRead PROVE Course'
  <2>1. UNCHANGED <<conf, port, listen, plan, op, answer>> /\ (post' = post \/ (post # "none" /\ post' = "dead"))
    BY <1>3 DEF ParentGetCmd, ParentGetArg, ParentWrite, Wait, CallWrite, CallRead, CallerEnds, PreEnds, PostEnds
  <2>. QED
    BY <1>1, <2>1
<1>4. ASSUME DoLogin \/ DirectLogin PROVE Course'
  <2>1. UNCHANGED <<conf, port, listen, plan, op, post>>
    BY <1>4 DEF DoLogin, DirectLogin, PreEnds
  <2>2. post = "none" /\ op # "none"
    <3>1. CASE DoLogin
      BY <1>t, <3>1 DEF DoLogin, Handover, Protocol, NoCall
    <3>2. CASE DirectLogin
      BY <1>t, <3>2 DEF DirectLogin, Handover, Callers, Child
    <3>. QED
      BY <1>4, <3>1, <3>2
  <2>3. plan = <<>> /\ ~port /\ ~listen
    BY <1>t, <2>2 DEF Course
  <2>4. Ready(plan, port, listen)
    BY <2>3 DEF Ready
  <2>. QED
    BY <1>t, <2>1, <2>2, <2>4 DEF Course
<1>5. ASSUME Serve \/ Direct PROVE Course'
  <2>1. UNCHANGED <<conf, port, plan, op>> /\ post' \in {post, "dead"}
    BY <1>5 DEF Serve, Direct, PostEnds
  <2>2. op # "none" /\ answer = "none" /\ post # "none" /\ (Serve => req = op)
    <3>1. CASE Serve
      <4>1. op # "none" /\ answer = "none" /\ req = op /\ req # "login"
        BY <1>t, <3>1 DEF Serve, Protocol, NoCall, Asking, Answering
      <4>. QED
        BY <1>t, <4>1 DEF Callers
    <3>2. CASE Direct
      <4>1. conf.one /\ post = "call" /\ want # "done" /\ op # "none"
        BY <1>t, <3>2 DEF Direct, Callers, Child
      <4>2. answer = "none"
        BY SMTT(30), <1>t, <4>1 DEF Protocol, Answering, Awaited
      <4>. QED
        BY <4>1, <4>2, <3>2, <1>t DEF Handover, Serve
    <3>. QED
      BY <1>5, <3>1, <3>2
  <2>3. PICK r \in Outcome(op, listen) :
          listen' = r.open /\ IF r.dies = "no" THEN answer' = r.ans ELSE UNCHANGED answer
    BY <1>5, <2>2 DEF Serve, Direct
  <2>4. /\ r.open \in BOOLEAN /\ (r.dies # "no" => r.open = listen)
        /\ r.dies = "no" => r.ans \in AnswerOf(op) /\ Left(op, r.ans, plan, port, r.open)
    BY <2>2, ServedWell
  <2>5. CASE r.dies = "no"
    <3>1. answer' # "none"
      BY <2>3, <2>4, <2>5 DEF AnswerOf, Answers
    <3>. QED
      BY <1>t, <2>1, <2>2, <2>3, <2>4, <2>5, <3>1 DEF Course
  <2>6. CASE r.dies # "no"
    <3>1. UNCHANGED <<listen, answer>>
      BY <2>3, <2>4, <2>6
    <3>. QED
      BY <1>1, <2>1, <2>2, <3>1
  <2>. QED
    BY <2>5, <2>6
<1>6. ASSUME Fork PROVE Course'
  <2>1. UNCHANGED <<conf, port, listen, plan>> /\ op' = "none" /\ post' = "start" /\ parent = "fork"
    BY <1>6 DEF Fork
  <2>2. plan = <<>> /\ ~port /\ ~listen
    BY <1>t, <2>1 DEF Course, Handover
  <2>. QED
    BY <1>t, <2>1, <2>2 DEF Course, Ready
<1>7. ASSUME LoginReturns PROVE Course'
  <2>1. UNCHANGED <<conf, port, listen, plan>> /\ op' = "none" /\ post = "none"
    BY <1>7 DEF LoginReturns
  <2>2. post' \in {"none", "idle"}
    <3>1. CASE val = "ok"
      BY <1>7, <3>1 DEF LoginReturns, PreEnds
    <3>2. CASE val # "ok" /\ conf.http
      BY <1>7, <3>2 DEF LoginReturns, PreEnds
    <3>3. CASE val # "ok" /\ ~conf.http
      BY <1>7, <3>3 DEF LoginReturns, PreEnds, Fail
    <3>. QED
      BY <3>1, <3>2, <3>3
  <2>3. plan = <<>> /\ ~port /\ ~listen
    BY <1>t, <2>1 DEF Course
  <2>. QED
    BY <1>t, <2>1, <2>2, <2>3 DEF Course, Ready
<1>8. ASSUME CallReturns PROVE Course'
  <2>1. /\ post' = "next" /\ op' = "none" /\ UNCHANGED <<conf, port, listen>>
        /\ Orderly(conf, plan', port) /\ Ready(plan', port, listen)
    BY <1>8, ReturnedWell
  <2>. QED
    BY <1>t, <2>1 DEF Course
<1>9. ASSUME NextStep PROVE Course'
  <2>0. UNCHANGED <<conf, listen, answer>> /\ post = "next" /\ op = "none"
    BY <1>t, <1>9 DEF NextStep, Callers, Child, Alive
  <2>1. Ready(plan, port, listen) /\ Orderly(conf, plan, port) /\ port \in BOOLEAN /\ listen \in BOOLEAN
        /\ answer = "none"
    BY <1>t, <2>0 DEF Course, Protocol, NoCall
  <2>2. CASE plan = <<>>
    <3>1. UNCHANGED <<port, plan, op>> /\ post' = "idle"
      BY <1>9, <2>2 DEF NextStep
    <3>. QED
      BY <2>0, <2>1, <2>2, <3>1 DEF Course
  <2>3. CASE plan # <<>> /\ Head(plan) \in {"noport", "port"}
    <3>1. port' = (Head(plan) = "port") /\ plan' = Tail(plan) /\ UNCHANGED <<op, post>>
      BY <1>9, <2>3 DEF NextStep
    <3>2. Orderly(conf, Tail(plan), Head(plan) = "port") /\ Ready(Tail(plan), Head(plan) = "port", listen)
      BY <2>1, <2>3, AddressTail
    <3>3. Orderly(conf', plan', port') /\ Ready(plan', port', listen')
      BY <2>0, <3>1, <3>2
    <3>. QED
      BY <2>0, <2>1, <3>1, <3>3 DEF Course
  <2>4. CASE plan # <<>> /\ Head(plan) \notin {"noport", "port"}
    <3>1. UNCHANGED <<port, plan>> /\ post' = "call"
          /\ op' = (IF Head(plan) = "checks" THEN "active" ELSE Head(plan))
      BY <1>9, <2>4 DEF NextStep, Ask
    <3>. QED
      BY <2>0, <2>1, <2>4, <3>1 DEF Course
  <2>. QED
    BY <2>2, <2>3, <2>4
<1>10. ASSUME NEW u \in Users, User(u) PROVE Course'
  <2>1. UNCHANGED <<conf, port, listen, plan, answer, post>> /\ pre = "idle"
    BY <1>10, UserCases
  <2>2. post = "none" /\ op = "none" /\ answer = "none"
    BY <2>1, IdleLogin DEF NoCall
  <2>. QED
    BY <1>t, <2>1, <2>2 DEF Course
<1>11. ASSUME NEW p \in Passwords, Pass(p) \/ Get(p) PROVE Course'
  <2>1. UNCHANGED <<conf, port, listen, plan, answer, post>> /\ pre = "idle"
    BY <1>11 DEF Pass, Get, PreLine
  <2>2. post = "none" /\ op = "none" /\ answer = "none"
    BY <2>1, IdleLogin DEF NoCall
  <2>. QED
    BY <1>t, <2>1, <2>2 DEF Course
<1>12. ASSUME NEW steps, Command(steps), Orderly(conf, steps, port), steps # <<>>, Head(steps) \in {"cleanup", "checks"}
       PROVE  Course'
  <2>1. UNCHANGED <<conf, port, listen, op, answer>> /\ plan' = steps /\ post' = "next" /\ post = "idle"
    BY <1>12 DEF Command, PostLine
  <2>2. op = "none" /\ plan = <<>> /\ Ready(plan, port, listen)
    BY <1>t, <2>1 DEF Course, Callers, Child, Alive
  <2>3. Ready(steps, port, listen)
    BY <1>12, <2>2 DEF Ready
  <2>. QED
    BY <1>t, <1>12, <2>1, <2>2, <2>3 DEF Course
<1>p. port \in BOOLEAN
  BY <1>t DEF Course
<1>13. ASSUME Pasv PROVE Course'
  BY <1>12, <1>13, <1>p, OrderlyPlans DEF Pasv
<1>14. ASSUME NEW legal \in BOOLEAN, Port(legal) PROVE Course'
  BY <1>12, <1>14, <1>p, OrderlyPlans DEF Port
<1>15. ASSUME NEW stor \in BOOLEAN, NEW refused \in BOOLEAN, Transfer(stor, refused) PROVE Course'
  BY <1>12, <1>15, <1>p, OrderlyPlans DEF Transfer
<1>. QED
  BY CalmOrStirring, <1>2, <1>3, <1>4, <1>5, <1>6, <1>7, <1>8, <1>9, <1>10, <1>11, <1>13, <1>14, <1>15
     DEF Stirring

\* A login that reaches handle_login is refused or accepted, in both models.
LEMMA LoginResults ==
  ASSUME TypeOK, who \in Named(conf)
  PROVE  /\ LoginResult(conf, who, pw) \in {"fail", "anon", "real"}
         /\ conf.one => LoginResult(conf, who, pw) \in {"fail", "anon"}
<1>1. (conf.one => ~conf.local) /\ (conf.local \/ conf.anonymous)
  BY PrivsepAssumption DEF TypeOK, Sane
<1>. QED
  BY <1>1 DEF LoginResult, Named

LEMMA NoBadNext == PInv /\ [Next]_vars => NoBadRequest'
<1> SUFFICES ASSUME PInv, [Next]_vars PROVE NoBadRequest'
  OBVIOUS
<1>t. TypeOK /\ Names /\ Handover /\ Protocol /\ Callers /\ NoBadRequest
  BY DEF PInv, AInv, HInv
<1> USE DEF NoBadRequest
<1>1. ASSUME Calm PROVE NoBadRequest'
  BY <1>t, <1>1 DEF Calm
<1>2. ASSUME ParentGetCmd PROVE NoBadRequest'
  <2>1. Head(up).k = "cmd" /\ Allowed(Head(up).v)
    BY <1>2, CommandsAllowed DEF ParentGetCmd
  <2>. QED
    BY <1>t, <1>2, <2>1 DEF ParentGetCmd
<1>3. ASSUME ParentGetArg \/ ParentWrite \/ Wait \/ Fork \/ CallWrite \/ CallRead \/ LoginReturns \/ NextStep PROVE NoBadRequest'
  <2>1. why' = why \/ why' = "eof"
    BY <1>3 DEF ParentGetArg, ParentWrite, Wait, Fork, CallWrite, CallRead, LoginReturns, NextStep, ParentEnds
  <2>. QED
    BY <1>t, <2>1
<1>4. ASSUME DoLogin PROVE NoBadRequest'
  <2>1. who \in Named(conf)
    BY <1>t, <1>4 DEF DoLogin, Names
  <2>2. LoginResult(conf, who, pw) # "die"
    BY <1>t, <2>1, LoginResults
  <2>. QED
    BY <1>t, <1>4, <2>2 DEF DoLogin
<1>5. ASSUME DirectLogin PROVE NoBadRequest'
  <2>1. who \in Named(conf) /\ conf.one
    BY <1>t, <1>5 DEF DirectLogin, Names
  <2>2. LoginResult(conf, who, pw) \in {"fail", "anon"}
    BY <1>t, <2>1, LoginResults
  <2>. QED
    BY <1>t, <1>5, <2>2 DEF DirectLogin
<1>6. ASSUME Serve PROVE NoBadRequest'
  <2>1. op # "none" /\ answer = "none" /\ req = op /\ req # "login"
    BY <1>t, <1>6 DEF Serve, Protocol, NoCall, Asking, Answering
  <2>2. post # "none"
    BY <1>t, <2>1 DEF Callers
  <2>3. PICK r \in Outcome(op, listen) : why' = why \/ why' = r.dies
    BY <1>6, <2>1 DEF Serve, ParentEnds
  <2>. QED
    BY <1>t, <2>1, <2>2, <2>3, ServedWell
<1>7. ASSUME Direct PROVE NoBadRequest'
  <2>1. conf.one /\ post = "call" /\ want # "done" /\ op # "none"
    BY <1>t, <1>7 DEF Direct, Callers, Child
  <2>2. answer = "none"
    BY SMT, <1>t, <2>1 DEF Protocol, Answering, Awaited
  <2>3. PICK r \in Outcome(op, listen) : why' = why \/ why' = r.dies
    BY <1>7 DEF Direct
  <2>. QED
    BY <1>t, <2>1, <2>2, <2>3, ServedWell
<1>8. ASSUME CallReturns PROVE NoBadRequest'
  BY <1>t, <1>8, ReturnedWell
<1>9. ASSUME NEW u \in Users, User(u) PROVE NoBadRequest'
  BY <1>t, <1>9, UserCases
<1>10. ASSUME NEW p \in Passwords, Pass(p) \/ Get(p) PROVE NoBadRequest'
  BY <1>t, <1>10 DEF Pass, Get
<1>11. ASSUME NEW steps, Command(steps) PROVE NoBadRequest'
  BY <1>t, <1>11 DEF Command
<1>. QED
  BY CalmOrStirring, <1>1, <1>2, <1>3, <1>4, <1>5, <1>6, <1>7, <1>8, <1>9, <1>10, <1>11
     DEF Stirring, Pasv, Port, Transfer

\* The control connection and the client.
Outside == armed \in BOOLEAN /\ ctl \in {"open", "readshut", "shut"} /\ lines \in 0 .. MaxLines

LEMMA OutsideNext == Outside /\ [Next]_vars => Outside'
<1> SUFFICES ASSUME Outside, [Next]_vars PROVE Outside'
  OBVIOUS
<1>m. MaxLines \in Nat
  BY PrivsepAssumption
<1>1. ASSUME ParentStep PROVE Outside'
  BY <1>1 DEF ParentStep, ParentGetCmd, ParentGetArg, DoLogin, Serve, ParentWrite, Wait, ForkFails, Fork, ParentEof,
              ParentChld, Outside
<1>2. ASSUME CallStep PROVE Outside'
  BY <1>2 DEF CallStep, CallWrite, CallRead, CallEof, DirectLogin, Direct, Outside
<1>3. ASSUME LoginReturns PROVE Outside'
  <2>1. UNCHANGED <<armed, lines>> /\ (ctl' = ctl \/ ctl' = "shut")
    <3>1. CASE val = "ok"
      BY <1>3, <3>1 DEF LoginReturns, PreEnds
    <3>2. CASE val # "ok" /\ conf.http
      BY <1>3, <3>2 DEF LoginReturns, PreEnds
    <3>3. CASE val # "ok" /\ ~conf.http
      BY <1>3, <3>3 DEF LoginReturns, PreEnds, Fail
    <3>. QED
      BY <3>1, <3>2, <3>3
  <2>. QED
    BY <2>1 DEF Outside
<1>4. ASSUME Http \/ NextStep \/ CallReturns \/ ChildEof \/ HangUp \/ Expire \/ ChildKilled \/ ParentDeathSignal \/ Over
             \/ UNCHANGED vars PROVE Outside'
  BY <1>4 DEF Http, NextStep, CallReturns, ChildEof, HangUp, Expire, ChildKilled, ParentDeathSignal, Over, vars, Outside
<1>5. ASSUME NEW b \in BOOLEAN, PreStart(b) \/ PostStart(b) \/ ParentTerm(b) PROVE Outside'
  BY <1>5 DEF PreStart, PostStart, ParentTerm, ParentUp, Outside
<1>6. ASSUME NEW b \in BOOLEAN, PreOther(b) \/ PostOther(b) PROVE Outside'
  BY SMTT(30), <1>m, <1>6 DEF PreOther, PostOther, PreLine, PostLine, Outside
<1>7. ASSUME NEW u \in Users, User(u) PROVE Outside'
  <2>1. armed' = armed /\ lines > 0 /\ lines' = lines - 1 /\ (ctl' = ctl \/ ctl' = "shut")
    BY <1>7 DEF User, PreLine, Fail
  <2>. QED
    BY SMT, <1>m, <2>1 DEF Outside
<1>8. ASSUME NEW p \in Passwords, Pass(p) \/ Get(p) PROVE Outside'
  BY SMTT(30), <1>m, <1>8 DEF Pass, Get, PreLine, Outside
<1>9. ASSUME NEW steps, Command(steps) PROVE Outside'
  BY SMTT(30), <1>m, <1>9 DEF Command, PostLine, Outside
<1>. QED
  BY <1>1, <1>2, <1>3, <1>4, <1>5, <1>6, <1>7, <1>8, <1>9
     DEF Next, ChildStep, Client, Fault, Pasv, Port, Transfer

\* The rest of the state that has a type of its own.
Inside ==
  /\ conf \in Confs
  /\ parent \in {"absent", "cmd", "args", "do", "reply", "wait", "fork", "dead"}
  /\ req \in Ops \cup {"none"} /\ need \in Seq(Kinds)
  /\ who \in Users \cup {"none"} /\ pw \in Passwords \cup {"none"}
  /\ pout \in Seq([k : Kinds, v : Answers]) /\ answer \in Answers \cup {"none"}
  /\ why \in {"none", "request", "bug", "bind", "eof", "child", "config", "term", "killed"}
  /\ pre \in {"start", "idle", "call", "dead"}
  /\ post \in {"none", "start", "idle", "next", "call", "dead"}
  /\ op \in Ops \cup {"none"} /\ want \in {"res", "int", "fd", "done"}
  /\ val \in Answers \cup {"none"}

LEMMA AskTypes ==
  ASSUME Inside, NEW o \in Ops, NEW u, NEW p, o = "login" => u \in Users /\ p \in Passwords, Ask(o, u, p),
         UNCHANGED <<conf, parent, req, need, pout, answer, why>>,
         pre' \in {pre, "call"}, post' \in {post, "call"}
  PROVE  Inside'
BY SMT DEF Ask, First, Inside

LEMMA InsideNext == PInv /\ [Next]_vars => Inside'
<1> SUFFICES ASSUME PInv, [Next]_vars PROVE Inside'
  OBVIOUS
<1>t. TypeOK /\ Inside /\ Names /\ Handover /\ Wire /\ Protocol /\ Callers
  BY DEF PInv, AInv, HInv, TypeOK, Inside
<1>n. Named(conf) \subseteq Users
  BY AnonNamed
<1> USE DEF call, boss, sig
<1>1. ASSUME Calm PROVE Inside'
  BY SMTT(30), <1>t, <1>1 DEF Calm, Inside
<1>2. ASSUME ParentGetCmd PROVE Inside'
  <2>1. Head(up).k = "cmd" /\ Head(up).v = op /\ op \in Ops /\ Allowed(op)
    BY <1>2, CommandsAllowed DEF ParentGetCmd
  <2>2. req' = op /\ need' = Args(op) /\ parent' \in {"do", "args"} /\ UNCHANGED why
    BY <1>2, <2>1 DEF ParentGetCmd
  <2>3. Args(op) \in Seq(Kinds)
    BY <2>1, ArgItems
  <2>. QED
    BY SMTT(30), <1>t, <1>2, <2>1, <2>2, <2>3 DEF ParentGetCmd, Inside
<1>3. ASSUME ParentGetArg PROVE Inside'
  <2>0. /\ UNCHANGED <<conf, req, pout, answer, why, pre, post, op, want, val>> /\ parent = "args" /\ up # <<>>
        /\ need' = Tail(need) /\ parent' \in {"do", "args"}
        /\ who' = (IF req = "login" /\ Len(need) = 4 THEN Head(up).v ELSE who)
        /\ pw' = (IF req = "login" /\ Len(need) = 3 THEN Head(up).v ELSE pw)
    BY <1>3 DEF ParentGetArg
  <2>1. op \in Ops /\ Asking
    BY <1>t, <2>0 DEF TypeOK, Protocol, NoCall, Answering
  <2>2. /\ up \in Seq(Token) /\ cout \in Seq(Token) /\ Len(need) = Len(up) + Len(cout) /\ Len(cout) \in Nat
        /\ need \in Seq(Kinds) /\ Len(need) \in Nat \ {0} /\ req = op
    BY SMTT(30), <1>t, <2>0, <2>1 DEF Wire, Asking, TypeOK
  <2>3. Head(up) = up[1] /\ Len(up) \in Nat \ {0}
    BY <2>0, <2>2, Tails
  <2>4. need # <<>>
    BY SMT, <2>2
  <2>5. Tail(need) \in Seq(Kinds)
    BY <2>2, <2>4, Tails
  <2>6. IsItem(conf, up[1], op, Len(need) - 1)
    <3>1. Len(cout) + Len(up) - 1 = Len(need) - 1 /\ 1 \in 1 .. Len(up)
      BY SMTT(30), <2>2, <2>3
    <3>2. IsItem(conf, up[1], op, Len(cout) + Len(up) - 1)
      BY <1>t, <3>1 DEF Wire
    <3>. QED
      BY <3>1, <3>2
  <2>7. ASSUME req = "login", Len(need) = 4 PROVE Head(up).v \in Users
    <3>1. IsItem(conf, Head(up), "login", 3)
      <4>1. Len(need) - 1 = 3
        BY SMT, <2>7
      <4>. QED
        BY <2>2, <2>3, <2>6, <2>7, <4>1
    <3>2. Head(up).v \in Named(conf)
      BY <3>1 DEF IsItem
    <3>. QED
      BY <1>n, <3>2
  <2>8. ASSUME req = "login", Len(need) = 3 PROVE Head(up).v \in Passwords
    <3>1. IsItem(conf, Head(up), "login", 2)
      <4>1. Len(need) - 1 = 2
        BY SMTT(30), <2>8
      <4>. QED
        BY <2>2, <2>3, <2>6, <2>8, <4>1
    <3>. QED
      BY <3>1 DEF IsItem
  <2>. QED
    BY SMTT(30), <1>t, <2>0, <2>5, <2>7, <2>8 DEF Inside
<1>4. ASSUME DoLogin PROVE Inside'
  <2>1. /\ UNCHANGED <<conf, req, need, who, pw, pre, post, op, want, val>>
        /\ \/ parent' = "dead" /\ why' = "request" /\ UNCHANGED <<pout, answer>>
           \/ /\ answer' \in {"ok", "bad"} /\ pout' = Reply("login", answer') /\ parent' = "reply" /\ UNCHANGED why
    BY <1>4 DEF DoLogin, ParentEnds
  <2>2. \A a \in {"ok", "bad"} : a \in AnswerOf("login") /\ a \in Answers /\ "login" \in Ops
    BY DEF AnswerOf, Answers, Ops
  <2>3. \A a \in {"ok", "bad"} : Reply("login", a) \in Seq([k : Kinds, v : Answers])
    BY <2>2, ReplyItems
  <2>. QED
    BY SMTT(30), <1>t, <2>1, <2>2, <2>3 DEF Inside
<1>5. ASSUME Serve PROVE Inside'
  <2>1. op # "none" /\ answer = "none" /\ req = op /\ req # "login"
    BY <1>t, <1>5 DEF Serve, Protocol, NoCall, Asking, Answering
  <2>2. post # "none"
    BY <1>t, <2>1 DEF Callers
  <2>3. /\ UNCHANGED <<conf, req, need, who, pw, pre, post, op, want, val>>
        /\ \E r \in Outcome(op, listen) :
             \/ r.dies = "no" /\ answer' = r.ans /\ pout' = Reply(op, r.ans) /\ parent' = "reply" /\ UNCHANGED why
             \/ r.dies # "no" /\ parent' = "dead" /\ why' = r.dies /\ UNCHANGED <<pout, answer>>
    BY <1>5, <2>1 DEF Serve, ParentEnds
  <2>4. PICK r \in Outcome(op, listen) :
             \/ r.dies = "no" /\ answer' = r.ans /\ pout' = Reply(op, r.ans) /\ parent' = "reply" /\ UNCHANGED why
             \/ r.dies # "no" /\ parent' = "dead" /\ why' = r.dies /\ UNCHANGED <<pout, answer>>
    BY <2>3
  <2>5. op \in Ops /\ r.dies \in {"no", "bind"} /\ (r.dies = "no" => r.ans \in AnswerOf(op))
    BY <2>1, <2>2, ServedWell
  <2>6. CASE r.dies = "no" /\ answer' = r.ans /\ pout' = Reply(op, r.ans) /\ parent' = "reply" /\ UNCHANGED why
    <3>1. Reply(op, r.ans) \in Seq([k : Kinds, v : Answers])
      BY <2>5, <2>6, ReplyItems
    <3>2. r.ans \in Answers
      BY <2>5, <2>6 DEF AnswerOf, Answers
    <3>. QED
      BY SMTT(30), <1>t, <2>3, <2>6, <3>1, <3>2 DEF Inside
  <2>7. CASE r.dies # "no" /\ parent' = "dead" /\ why' = r.dies /\ UNCHANGED <<pout, answer>>
    <3>1. why' \in {"none", "request", "bug", "bind", "eof", "child", "config", "term", "killed"}
      BY <2>5, <2>7
    <3>. QED
      BY SMTT(30), <1>t, <2>3, <2>7, <3>1 DEF Inside
  <2>. QED
    BY <2>4, <2>6, <2>7
<1>6. ASSUME ParentWrite \/ Wait \/ Fork \/ CallWrite PROVE Inside'
  <2>1. ASSUME ParentWrite PROVE Inside'
    <3>1. /\ UNCHANGED <<conf, req, need, who, pw, answer, pre, post, op, want, val>>
          /\ \/ pout' = Tail(pout) /\ parent' \in {"reply", "wait", "cmd"} /\ UNCHANGED why
             \/ parent' = "dead" /\ why' = "eof" /\ UNCHANGED pout
      BY <2>1 DEF ParentWrite, ParentEnds
    <3>2. op # "none" /\ answer # "none" /\ pout # <<>>
      BY <1>t, <2>1 DEF ParentWrite, Protocol, NoCall, Asking, Answering
    <3>3. Tail(pout) \in Seq([k : Kinds, v : Answers])
      BY <1>t, <3>2, Tails DEF Inside
    <3>4. /\ pout' \in Seq([k : Kinds, v : Answers])
          /\ parent' \in {"absent", "cmd", "args", "do", "reply", "wait", "fork", "dead"}
          /\ why' \in {"none", "request", "bug", "bind", "eof", "child", "config", "term", "killed"}
      BY <1>t, <3>1, <3>3 DEF Inside
    <3>5. UNCHANGED <<conf, req, need, who, pw, answer, pre, post, op, want, val>>
      BY <3>1
    <3>. QED
      BY SMTT(30), <1>t, <3>4, <3>5 DEF Inside
  <2>2. ASSUME Wait PROVE Inside'
    BY SMT, <1>t, <2>2 DEF Wait, Inside
  <2>3. ASSUME Fork PROVE Inside'
    BY <1>t, <2>3 DEF Fork, Inside
  <2>4. ASSUME CallWrite PROVE Inside'
    BY SMTT(30), <1>t, <2>4 DEF CallWrite, CallerEnds, PreEnds, PostEnds, Inside
  <2>. QED
    BY <1>6, <2>1, <2>2, <2>3, <2>4
<1>7. ASSUME CallRead PROVE Inside'
  <2>1. /\ UNCHANGED <<conf, parent, req, need, who, pw, pout, answer, why, pre, post, op>> /\ down # <<>>
        /\ want' = (IF want = "res" THEN After(op, Head(down).v) ELSE "done") /\ val' = Head(down).v
    BY <1>7 DEF CallRead
  <2>2. Head(down) \in [k : Kinds, v : Answers]
    BY <1>t, <2>1, Tails DEF Wire
  <2>3. \A x : After(op, x) \in {"fd", "int", "done"}
    BY DEF After
  <2>. QED
    BY SMT, <1>t, <2>1, <2>2, <2>3 DEF Inside
<1>8. ASSUME DirectLogin PROVE Inside'
  <2>1. /\ UNCHANGED <<conf, parent, req, need, who, pw, pout, op>>
        /\ \/ /\ val' \in {"ok", "bad"} /\ answer' = val' /\ want' = "done" /\ UNCHANGED <<why, pre, post>>
           \/ why' = "bug" /\ pre' = "dead" /\ UNCHANGED <<post, val, answer, want>>
    BY <1>8 DEF DirectLogin, PreEnds
  <2>. QED
    BY <1>t, <2>1 DEF Inside, Answers
<1>9. ASSUME Direct PROVE Inside'
  <2>1. op # "none" /\ answer = "none"
    <3>1. op # "none"
      BY <1>t, <1>9 DEF Direct, Callers, Child
    <3>2. answer # "none" => Answering
      BY <1>t, <3>1 DEF Protocol
    <3>3. Answering => want = "done"
      BY SMT, <1>9 DEF Direct, Answering, Awaited
    <3>. QED
      BY <1>9, <3>1, <3>2, <3>3 DEF Direct
  <2>2. /\ UNCHANGED <<conf, parent, req, need, who, pw, pout, op>> /\ post # "none"
        /\ \E r \in Outcome(op, listen) :
             \/ r.dies = "no" /\ val' = r.ans /\ answer' = r.ans /\ want' = "done" /\ UNCHANGED <<why, pre, post>>
             \/ r.dies # "no" /\ why' = r.dies /\ post' = "dead" /\ UNCHANGED <<pre, val, answer, want>>
    BY <1>9 DEF Direct, PostEnds
  <2>3. PICK r \in Outcome(op, listen) :
             \/ r.dies = "no" /\ val' = r.ans /\ answer' = r.ans /\ want' = "done" /\ UNCHANGED <<why, pre, post>>
             \/ r.dies # "no" /\ why' = r.dies /\ post' = "dead" /\ UNCHANGED <<pre, val, answer, want>>
    BY <2>2
  <2>4. op \in Ops /\ r.dies \in {"no", "bind"} /\ (r.dies = "no" => r.ans \in AnswerOf(op))
    BY <2>1, <2>2, ServedWell
  <2>5. r.dies = "no" => r.ans \in Answers
    BY <2>4 DEF AnswerOf, Answers
  <2>. QED
    BY <1>t, <2>2, <2>3, <2>4, <2>5 DEF Inside
<1>10. ASSUME LoginReturns PROVE Inside'
  <2>1. pre' \in {"dead", "idle"} /\ post' \in {post, "idle"}
    <3>1. CASE val = "ok" /\ ~conf.one
      BY <1>10, <3>1 DEF LoginReturns, PreEnds
    <3>2. CASE val = "ok" /\ conf.one
      BY <1>10, <3>2 DEF LoginReturns
    <3>3. CASE val # "ok" /\ conf.http
      BY <1>10, <3>3 DEF LoginReturns, PreEnds
    <3>4. CASE val # "ok" /\ ~conf.http
      BY <1>10, <3>4 DEF LoginReturns, PreEnds, Fail
    <3>. QED
      BY <3>1, <3>2, <3>3, <3>4
  <2>2. op' = "none" /\ answer' = "none" /\ UNCHANGED <<conf, parent, req, need, who, pw, pout, why, want, val>>
    BY <1>10 DEF LoginReturns
  <2>. QED
    BY SMT, <1>t, <2>1, <2>2 DEF Inside
<1>11. ASSUME CallReturns PROVE Inside'
  <2>1. why' = why /\ post' = "next" /\ pre' = pre /\ op' = "none" /\ answer' = "none"
    BY <1>11, ReturnedWell
  <2>2. UNCHANGED <<conf, parent, req, need, who, pw, pout, want, val>>
    BY <1>11 DEF CallReturns
  <2>. QED
    BY SMT, <1>t, <2>1, <2>2 DEF Inside
<1>12. ASSUME NextStep PROVE Inside'
  <2>0. UNCHANGED <<conf, parent, req, need, pout, answer, why, pre>> /\ post = "next"
    BY <1>12 DEF NextStep
  <2>1. CASE plan = <<>>
    <3>1. UNCHANGED <<op, want, val, who, pw>> /\ post' = "idle"
      BY <1>12, <2>1 DEF NextStep
    <3>. QED
      BY SMT, <1>t, <2>0, <3>1 DEF Inside
  <2>2. CASE plan # <<>> /\ Head(plan) \in {"noport", "port"}
    <3>1. UNCHANGED <<op, want, val, who, pw, post>>
      BY <1>12, <2>2 DEF NextStep
    <3>. QED
      BY SMT, <1>t, <2>0, <3>1 DEF Inside
  <2>3. CASE plan # <<>> /\ Head(plan) \notin {"noport", "port"}
    <3> DEFINE o == IF Head(plan) = "checks" THEN "active" ELSE Head(plan)
    <3>1. post' = "call" /\ Ask(o, "none", "none")
      BY <1>12, <2>3 DEF NextStep
    <3>2. Head(plan) \in Steps
      BY <2>3, Tails DEF PInv, Course, Orderly
    <3>3. o \in Ops \ {"login"}
      BY <2>3, <3>2 DEF Steps, Ops
    <3> HIDE DEF o
    <3>. QED
      BY <1>t, <2>0, <3>1, <3>3, AskTypes
  <2>. QED
    BY <2>1, <2>2, <2>3
<1>13. ASSUME NEW u \in Users, User(u) PROVE Inside'
  <2>1. /\ UNCHANGED <<conf, parent, req, need, pout, answer, why, post>>
        /\ \/ UNCHANGED <<op, want, val, who, pw>> /\ pre' \in {pre, "idle", "dead"}
           \/ pre' = "call" /\ Ask("login", u, "right")
    BY <1>13, UserCases DEF Fail, PreEnds
  <2>2. "login" \in Ops /\ "right" \in Passwords
    BY DEF Ops, Passwords
  <2>3. CASE UNCHANGED <<op, want, val, who, pw>> /\ pre' \in {pre, "idle", "dead"}
    BY SMT, <1>t, <2>1, <2>3 DEF Inside
  <2>4. CASE pre' = "call" /\ Ask("login", u, "right")
    BY <1>t, <2>1, <2>2, <2>4, AskTypes
  <2>. QED
    BY <2>1, <2>3, <2>4
<1>14. ASSUME NEW p \in Passwords, Pass(p) \/ Get(p) PROVE Inside'
  <2>1. /\ UNCHANGED <<conf, parent, req, need, pout, answer, why, post>>
        /\ \/ UNCHANGED <<op, want, val, who, pw, pre>>
           \/ user # "none" /\ pre' = "call" /\ Ask("login", user, p)
           \/ pre' = "call" /\ Ask("login", "anon", p)
    BY <1>14 DEF Pass, Get
  <2>2. "login" \in Ops /\ "anon" \in Users /\ (user # "none" => user \in Users)
    BY <1>t DEF Ops, Users, TypeOK
  <2>3. CASE UNCHANGED <<op, want, val, who, pw, pre>>
    BY SMT, <1>t, <2>1, <2>3 DEF Inside
  <2>4. CASE user # "none" /\ pre' = "call" /\ Ask("login", user, p)
    BY <1>t, <2>1, <2>2, <2>4, AskTypes
  <2>5. CASE pre' = "call" /\ Ask("login", "anon", p)
    BY <1>t, <2>1, <2>2, <2>5, AskTypes
  <2>. QED
    BY <2>1, <2>3, <2>4, <2>5
<1>15. ASSUME NEW steps, Command(steps) PROVE Inside'
  BY SMT, <1>t, <1>15 DEF Command, Inside
<1>. QED
  BY CalmOrStirring, <1>1, <1>2, <1>3, <1>4, <1>5, <1>6, <1>7, <1>8, <1>9, <1>10, <1>11, <1>12, <1>13, <1>14, <1>15
     DEF Stirring, Pasv, Port, Transfer

LEMMA TypeNext == PInv /\ [Next]_vars => TypeOK'
<1> SUFFICES ASSUME PInv, [Next]_vars PROVE TypeOK'
  OBVIOUS
<1>1. Inside' /\ Names' /\ Limits' /\ Course' /\ AInv'
  BY InsideNext, NamesNext, LimitsNext, CourseNext, AcceptanceNext DEF PInv
<1>2. Outside'
  BY OutsideNext DEF PInv, TypeOK, Outside
<1>3. user' \in Users \cup {"none"}
  BY <1>1 DEF Names, Named, Users
<1>. QED
  BY <1>1, <1>2, <1>3 DEF TypeOK, Inside, Outside, Limits, Course, AInv, HInv, Handover

LEMMA PInvInit == Init => PInv
<1> SUFFICES ASSUME Init PROVE PInv
  OBVIOUS
<1>m. MaxFails \in Nat \ {0} /\ MaxLines \in Nat
  BY PrivsepAssumption
<1>1. AInv
  BY AcceptanceInit
<1>2. TypeOK
  <2>1. Inside
    BY SMT DEF Init, Inside
  <2>2. Outside /\ fails \in 0 .. MaxFails
    <3>1. lines = MaxLines /\ fails = 0 /\ armed \in BOOLEAN /\ ctl = "open"
      BY DEF Init
    <3>2. MaxLines \in 0 .. MaxLines /\ 0 \in 0 .. MaxFails
      BY SMT, <1>m
    <3>. QED
      BY <3>1, <3>2 DEF Outside
  <2>3. user = "none" /\ port = FALSE /\ listen = FALSE
    BY DEF Init
  <2>. QED
    BY <1>1, <2>1, <2>2, <2>3 DEF TypeOK, Inside, Outside, AInv, HInv, Handover
<1>3. Wire /\ Protocol /\ Callers
  BY SMTT(30) DEF Init, Wire, Protocol, NoCall, Callers, Child, Alive
<1>4. Names /\ Limits /\ NoBadRequest
  BY SMT, <1>m DEF Init, Names, Limits, NoBadRequest
<1>5. Course
  BY OrderlyEmpty DEF Init, Course, Ready
<1>. QED
  BY <1>1, <1>2, <1>3, <1>4, <1>5 DEF PInv

LEMMA PInvNext == PInv /\ [Next]_vars => PInv'
<1> SUFFICES ASSUME PInv, [Next]_vars PROVE PInv'
  OBVIOUS
<1>1. TypeOK' /\ AInv'
  BY TypeNext, AcceptanceNext DEF PInv
<1>2. Wire' /\ Protocol' /\ Callers'
  BY WireNext, CallersNext
<1>3. Names' /\ Limits' /\ Course' /\ NoBadRequest'
  BY NamesNext, LimitsNext, CourseNext, NoBadNext
<1>. QED
  BY <1>1, <1>2, <1>3 DEF PInv

\* What lies on the socket pair, who asked for it and how far the command has
\* come fit together in every reachable state.
THEOREM ProtocolInvariant == Spec => []PInv
BY PInvInit, PInvNext, PTL DEF Spec

\* Over any sequence of commands, and however either process ends, parent and
\* child agree on every item between them and on what may be asked for: the
\* request, its arguments and the answer are read as they were written, and
\* neither die() nor bug() is reached for a request of the session.
THEOREM AgreedAlways == Spec => []Agreed
<1>1. PInv => Agreed
  <2> SUFFICES ASSUME PInv PROVE InStep
    BY DEF PInv, Agreed
  <2>t. TypeOK /\ Wire /\ Protocol /\ Callers
    BY DEF PInv
  <2>1. ASSUME parent = "cmd", up # <<>> PROVE Head(up).k = "cmd"
    BY <2>1, CommandsAllowed
  <2>2. ASSUME parent = "args", up # <<>> PROVE Head(up).k = Head(need)
    <3>1. op \in Ops /\ Asking
      BY <2>t, <2>2 DEF TypeOK, Protocol, NoCall, Answering
    <3>2. /\ up \in Seq(Token) /\ cout \in Seq(Token) /\ Len(need) = Len(up) + Len(cout) /\ Len(cout) \in Nat
          /\ need \in Seq(Kinds) /\ Len(need) \in Nat \ {0} /\ 1 \in 1 .. Len(need)
      BY SMTT(30), <2>t, <2>2, <3>1 DEF Wire, Asking, TypeOK
    <3>3. need # <<>>
      BY SMT, <3>2
    <3>4. Head(up) = up[1] /\ Len(up) \in Nat \ {0} /\ Head(need) = need[1]
      BY <2>2, <3>2, <3>3, Tails
    <3>5. need[1] = ItemKind(op, Len(need) - 1)
      BY <2>2, <3>1, <3>2 DEF Asking
    <3>6. Len(cout) + Len(up) - 1 = Len(need) - 1 /\ 1 \in 1 .. Len(up)
      BY SMT, <3>2, <3>4
    <3>7. IsItem(conf, up[1], op, Len(cout) + Len(up) - 1)
      BY <2>t, <3>6 DEF Wire
    <3>8. up[1].k = ItemKind(op, Len(need) - 1)
      BY <3>6, <3>7 DEF IsItem
    <3>. QED
      BY <3>4, <3>5, <3>8
  <2>3. ASSUME Child = "call", down # <<>> PROVE Head(down).k = want
    <3>1. op # "none" /\ answer # "none" /\ Answering
      BY <2>t, <2>3 DEF Callers, Protocol, Asking
    <3>2. Head(down) = down[1] /\ Len(down) \in Nat \ {0} /\ Len(pout) \in Nat
      BY SMT, <2>t, <2>3, Tails DEF Wire, TypeOK
    <3>3. 1 \in 1 .. Len(down) /\ Len(pout) + Len(down) - 1 = (Len(down) + Len(pout)) - 1 /\ Len(down) + Len(pout) # 0
      BY SMT, <3>2
    <3>4. down[1] = AnswerItem(op, answer, Len(pout) + Len(down) - 1)
      BY <2>t, <3>3 DEF Wire
    <3>5. want = AnswerItem(op, answer, (Len(down) + Len(pout)) - 1).k
      BY <3>1, <3>3 DEF Answering, Awaited
    <3>. QED
      BY <3>2, <3>3, <3>4, <3>5
  <2>4. ASSUME Alive(Child), Child # "call" PROVE up = <<>> /\ down = <<>>
    BY <2>t, <2>4 DEF Callers, Protocol, NoCall
  <2>. QED
    BY <2>t, <2>1, <2>2, <2>3, <2>4 DEF InStep, TypeOK
<1>. QED
  BY <1>1, ProtocolInvariant, PTL

\* Nobody goes on after max_login_fails refusals.
THEOREM GuessesAlwaysLimited == Spec => []GuessesLimited
<1>1. PInv => GuessesLimited
  <2>1. MaxFails \in Nat
    BY PrivsepAssumption
  <2>. QED
    BY SMT, <2>1 DEF PInv, Limits, GuessesLimited, Alive
<1>. QED
  BY <1>1, ProtocolInvariant, PTL

-----------------------------------------------------------------------------
(***************************************************************************)
(* What the child is promised (Broker).                                    *)
(***************************************************************************)

LEMMA BrokerStutter ==
  ASSUME UNCHANGED <<listen, op, answer>>, op # "none" \/ val' = val
  PROVE  [Promise!Next]_(Promise!vars)
BY DEF Promise!vars

LEMMA BrokerAsks ==
  ASSUME op = "none", answer = "none", NEW o \in Ops, NEW u, NEW p, Ask(o, u, p), UNCHANGED <<listen, answer>>
  PROVE  [Promise!Next]_(Promise!vars)
BY DEF Ask, Ops, Promise!vars, Promise!Next, Promise!Ask, Promise!Requests

LEMMA BrokerActs ==
  ASSUME op \in Ops, answer = "none", op' = op, answer' \in AnswerOf(op), listen' \in BOOLEAN,
         Promise!Effect(op, answer')
  PROVE  [Promise!Next]_(Promise!vars)
<1>1. op # "none"
  BY DEF Ops
<1>2. answer' \in Answers
  BY DEF AnswerOf, Answers
<1>3. Promise!Act
  BY <1>1, <1>2 DEF Promise!Act, Answers
<1>. QED
  BY <1>3 DEF Promise!Next

LEMMA BrokerTakes ==
  ASSUME TypeOK, Wire, Protocol, op # "none", want = "done",
         op' = "none", answer' = "none", UNCHANGED <<val, listen>>
  PROVE  [Promise!Next]_(Promise!vars)
<1>1. val = answer /\ answer # "none"
  BY Returned
<1>. QED
  BY <1>1 DEF Promise!Next, Promise!Take

\* An operation of privops.c, in the parent or in the one process.
LEMMA BrokerOutcome ==
  ASSUME PInv, op # "none", answer = "none", post # "none", op' = op, NEW r \in Outcome(op, listen),
         listen' = r.open, IF r.dies = "no" THEN answer' = r.ans ELSE UNCHANGED answer
  PROVE  [Promise!Next]_(Promise!vars)
<1>1. op \in Ops \ {"login"} /\ listen \in BOOLEAN
  BY DEF PInv, TypeOK, Callers
<1>2. CASE r.dies = "no"
  <2>1. answer' = r.ans
    BY <1>2
  <2>2. /\ r.open \in BOOLEAN /\ r.ans \in AnswerOf(op)
        /\ op \in {"active", "chown"} => r.open = listen
        /\ op \in {"cleanup", "chown"} => r.ans = "ok"
        /\ op = "active" => r.ans = (IF listen THEN "yes" ELSE "no")
        /\ op = "listen" => ~listen /\ r.open /\ r.ans = "port"
        /\ op = "accept" => listen /\ r.open
        /\ op = "sock" => ~listen
        /\ op \in {"cleanup", "sock"} => ~r.open
    BY <1>1, <1>2, Outcomes
  <2>3. (op = "accept" => r.ans \in {"fd", "fail", "badip"}) /\ (op = "sock" => r.ans \in {"fd", "bad"})
    BY <2>2 DEF AnswerOf
  <2>4. Promise!Effect(op, answer')
    BY <1>1, <2>1, <2>2, <2>3 DEF Promise!Effect, Ops
  <2>. QED
    BY <1>1, <2>1, <2>2, <2>4, BrokerActs
<1>3. CASE r.dies # "no"
  <2>1. r.open = listen /\ UNCHANGED answer
    BY SMTT(30), <1>1, <1>3, Outcomes
  <2>. QED
    BY <2>1, BrokerStutter
<1>. QED
  BY <1>2, <1>3

LEMMA BrokerNext == PInv /\ [Next]_vars => [Promise!Next]_(Promise!vars)
<1> SUFFICES ASSUME PInv, [Next]_vars PROVE [Promise!Next]_(Promise!vars)
  OBVIOUS
<1>t. TypeOK /\ Wire /\ Protocol /\ Callers /\ Handover
  BY DEF PInv, AInv, HInv
<1>n. op = "none" => answer = "none"
  BY <1>t DEF Protocol, NoCall
<1> USE DEF call, boss, sig
<1>1. ASSUME Calm PROVE [Promise!Next]_(Promise!vars)
  BY <1>1, BrokerStutter DEF Calm
<1>2. ASSUME ParentGetCmd \/ ParentGetArg \/ ParentWrite \/ Wait \/ CallWrite
      PROVE  [Promise!Next]_(Promise!vars)
  <2>1. UNCHANGED <<listen, op, answer, val>>
    BY <1>2 DEF ParentGetCmd, ParentGetArg, ParentWrite, Wait, CallWrite
  <2>. QED
    BY <2>1, BrokerStutter
<1>3. ASSUME CallRead PROVE [Promise!Next]_(Promise!vars)
  <2>1. UNCHANGED <<listen, op, answer>> /\ op # "none"
    BY <1>t, <1>3 DEF CallRead, Callers
  <2>. QED
    BY <2>1, BrokerStutter
<1>4. ASSUME DoLogin \/ DirectLogin PROVE [Promise!Next]_(Promise!vars)
  <2>1. op = "login" /\ answer = "none"
    <3>1. CASE DoLogin
      BY <1>t, <3>1 DEF DoLogin, Protocol, NoCall, Asking, Answering
    <3>2. CASE DirectLogin
      <4>1. conf.one /\ post = "none" /\ want # "done" /\ op # "none"
        BY <1>t, <3>2 DEF DirectLogin, Handover, Callers, Child
      <4>. QED
        BY SMT, <1>t, <4>1 DEF Callers, Protocol, Answering, Awaited
    <3>. QED
      BY <1>4, <3>1, <3>2
  <2>2. UNCHANGED <<listen, op>> /\ (answer' \in {"ok", "bad"} \/ UNCHANGED answer)
    BY <1>4 DEF DoLogin, DirectLogin
  <2>3. CASE answer' \in {"ok", "bad"}
    <3>1. Promise!Effect(op, answer') /\ answer' \in AnswerOf(op) /\ op \in Ops /\ listen \in BOOLEAN
      BY <1>t, <2>1, <2>2, <2>3 DEF Promise!Effect, AnswerOf, Ops, TypeOK
    <3>. QED
      BY <2>1, <2>2, <3>1, BrokerActs
  <2>4. CASE UNCHANGED answer
    BY <2>1, <2>2, <2>4, BrokerStutter
  <2>. QED
    BY <2>2, <2>3, <2>4
<1>5. ASSUME Serve \/ Direct PROVE [Promise!Next]_(Promise!vars)
  <2>1. op # "none" /\ answer = "none" /\ post # "none" /\ op' = op /\ (Serve => req = op)
    <3>1. CASE Serve
      <4>1. op # "none" /\ answer = "none" /\ req = op /\ req # "login" /\ op' = op
        BY <1>t, <3>1 DEF Serve, Protocol, NoCall, Asking, Answering
      <4>. QED
        BY <1>t, <4>1 DEF Callers
    <3>2. CASE Direct
      <4>1. conf.one /\ post = "call" /\ want # "done" /\ op # "none" /\ op' = op
        BY <1>t, <3>2 DEF Direct, Callers, Child
      <4>2. answer = "none"
        BY SMT, <1>t, <4>1 DEF Protocol, Answering, Awaited
      <4>. QED
        BY <4>1, <4>2, <3>2, <1>t DEF Handover, Serve
    <3>. QED
      BY <1>5, <3>1, <3>2
  <2>2. PICK r \in Outcome(op, listen) :
          listen' = r.open /\ IF r.dies = "no" THEN answer' = r.ans ELSE UNCHANGED answer
    BY <1>5, <2>1 DEF Serve, Direct
  <2>. QED
    BY <2>1, <2>2, BrokerOutcome
<1>6. ASSUME Fork PROVE [Promise!Next]_(Promise!vars)
  BY <1>6 DEF Fork, Promise!Next, Promise!Replaced
<1>7. ASSUME LoginReturns \/ CallReturns PROVE [Promise!Next]_(Promise!vars)
  <2>1. want = "done" /\ op' = "none" /\ answer' = "none" /\ UNCHANGED <<val, listen>> /\ Child = "call"
    BY <1>7 DEF LoginReturns, CallReturns, Child
  <2>. QED
    BY <1>t, <2>1, BrokerTakes DEF Callers
<1>8. ASSUME NextStep PROVE [Promise!Next]_(Promise!vars)
  <2>0. UNCHANGED <<listen, answer>> /\ op = "none"
    BY <1>t, <1>8 DEF NextStep, Callers, Child, Alive
  <2>1. CASE plan = <<>> \/ Head(plan) \in {"noport", "port"}
    <3>1. UNCHANGED <<op, val>>
      BY <1>8, <2>1 DEF NextStep
    <3>. QED
      BY <2>0, <3>1, BrokerStutter
  <2>2. CASE plan # <<>> /\ Head(plan) \notin {"noport", "port"}
    <3> DEFINE o == IF Head(plan) = "checks" THEN "active" ELSE Head(plan)
    <3>1. Ask(o, "none", "none")
      BY <1>8, <2>2 DEF NextStep
    <3>2. Head(plan) \in Steps
      BY <2>2, Tails DEF PInv, Course, Orderly
    <3>3. o \in Ops
      BY <2>2, <3>2 DEF Steps, Ops
    <3> HIDE DEF o
    <3>. QED
      BY <1>n, <2>0, <3>1, <3>3, BrokerAsks
  <2>. QED
    BY <2>1, <2>2
<1>9. ASSUME NEW u \in Users, User(u) PROVE [Promise!Next]_(Promise!vars)
  <2>1. /\ UNCHANGED <<listen, answer>> /\ pre = "idle"
        /\ UNCHANGED <<op, val>> \/ Ask("login", u, "right")
    BY <1>9, UserCases
  <2>2. op = "none" /\ "login" \in Ops
    BY <2>1, IdleLogin DEF Ops
  <2>. QED
    BY <1>n, <2>1, <2>2, BrokerAsks, BrokerStutter
<1>10. ASSUME NEW p \in Passwords, Pass(p) \/ Get(p) PROVE [Promise!Next]_(Promise!vars)
  <2>1. /\ UNCHANGED <<listen, answer>> /\ pre = "idle"
        /\ UNCHANGED <<op, val>> \/ Ask("login", user, p) \/ Ask("login", "anon", p)
    BY <1>10 DEF Pass, Get, PreLine
  <2>2. op = "none" /\ "login" \in Ops
    BY <2>1, IdleLogin DEF Ops
  <2>. QED
    BY <1>n, <2>1, <2>2, BrokerAsks, BrokerStutter
<1>11. ASSUME NEW steps, Command(steps) PROVE [Promise!Next]_(Promise!vars)
  <2>1. UNCHANGED <<listen, op, answer, val>>
    BY <1>11 DEF Command
  <2>. QED
    BY <2>1, BrokerStutter
<1>. QED
  BY CalmOrStirring, <1>1, <1>2, <1>3, <1>4, <1>5, <1>6, <1>7, <1>8, <1>9, <1>10, <1>11
     DEF Stirring, Pasv, Port, Transfer

\* Whether they are calls or requests to another process, the privileged
\* operations happen one at a time, each once, after it was asked for and before
\* it returns, and what a child is given is the answer of its own request.
THEOREM Refinement == Spec => ImplementsBroker
<1>1. Init => Promise!Init
  BY DEF Init, Promise!Init
<1>. QED
  BY <1>1, BrokerNext, ProtocolInvariant, PTL DEF Spec, ImplementsBroker, Promise!Spec
=============================================================================
