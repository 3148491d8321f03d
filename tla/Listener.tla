------------------------------ MODULE Listener ------------------------------
(***************************************************************************)
(* vsf_standalone_main: the process that accepts clients, counts them in   *)
(* total and per address, forks a process for each and reaps it on SIGCHLD;*)
(* and check_limits of prelogin.c, by which the new process refuses itself.*)
(*                                                                         *)
(* SIGCHLD and SIGHUP are recorded when they come and handled after        *)
(* accept() (module Signals).  A child may exit at any time, also before   *)
(* the listener has entered it in its table.                               *)
(***************************************************************************)
EXTENDS Naturals, FiniteSets

CONSTANTS
  Ip,        \* client addresses
  Pid,       \* process ids the system can give to children
  None,      \* "no address", "no process"
  Limits,    \* [clients, perIp] settings a configuration file can have
  Default    \* the ones of tunables_load_defaults

ASSUME ListenerAssumption ==
  /\ None \notin Ip \cup Pid
  /\ IsFiniteSet(Pid)
  /\ Limits \subseteq [clients : Nat, perIp : Nat]
  /\ Default \in Limits

VARIABLES
  pc,        \* the listener's next step
  addr,      \* p_accept_addr of the client being handled
  newChild,  \* new_child
  sChildren, \* s_children
  ipCount,   \* s_p_ip_count_hash; an entry that reaches 0 is freed
  pidIp,     \* s_p_pid_ip_hash
  tunable,   \* max_clients and max_per_ip in force
  sigchld,   \* SIGCHLD recorded
  sighup,    \* SIGHUP recorded
  state,     \* of each process: "free", "new", "served", "refused", "zombie"
  info       \* of each process: its address, child_info and tunables

listenerVars == <<addr, newChild, sChildren, ipCount, pidIp, tunable>>
vars == <<pc, listenerVars, sigchld, sighup, state, info>>

Child == {p \in Pid : state[p] # "free"}
Served == {p \in Pid : state[p] = "served"}
ChildOf(ip) == {p \in Child : info[p].ip = ip}
Info == [ip : Ip \cup {None}, num_children : Nat, num_this_ip : Nat,
         limit : Limits]

(***************************************************************************)
(* The type invariant of the listener and its children.                    *)
(***************************************************************************)
TypeOK ==
  /\ pc \in {"accept", "hup", "reload", "chld", "reap", "checked", "fork", "add",
             "dead"}
  /\ addr \in Ip \cup {None}
  /\ newChild \in Pid \cup {None}
  /\ sChildren \in Nat
  /\ ipCount \in [Ip -> Nat]
  /\ pidIp \in [Pid -> Ip \cup {None}]
  /\ tunable \in Limits
  /\ sigchld \in BOOLEAN
  /\ sighup \in BOOLEAN
  /\ state \in [Pid -> {"free", "new", "served", "refused", "zombie"}]
  /\ info \in [Pid -> Info]

NoInfo == [ip |-> None, num_children |-> 0, num_this_ip |-> 0,
           limit |-> Default]

Init ==
  /\ pc = "accept"
  /\ addr = None
  /\ newChild = None
  /\ sChildren = 0
  /\ ipCount = [i \in Ip |-> 0]
  /\ pidIp = [p \in Pid |-> None]
  /\ tunable \in Limits
  /\ sigchld = FALSE
  /\ sighup = FALSE
  /\ state = [p \in Pid |-> "free"]
  /\ info = [p \in Pid |-> NoInfo]

-----------------------------------------------------------------------------
Goto(from, to) == pc = from /\ pc' = to

\* accept() returns a client, or fails or is interrupted (None).
Accept ==
  /\ Goto("accept", "hup")
  /\ addr' \in Ip \cup {None}
  /\ UNCHANGED <<newChild, sChildren, ipCount, pidIp, tunable>>
  /\ UNCHANGED <<sigchld, sighup, state, info>>

\* The pending actions, once each and in the order of the signal numbers.
CheckHup ==
  /\ IF sighup THEN Goto("hup", "reload") ELSE Goto("hup", "chld")
  /\ sighup' = FALSE
  /\ UNCHANGED <<listenerVars, sigchld, state, info>>

CheckChld ==
  /\ IF sigchld THEN Goto("chld", "reap") ELSE Goto("chld", "checked")
  /\ sigchld' = FALSE
  /\ UNCHANGED <<listenerVars, sighup, state, info>>

\* handle_sighup: the defaults, then the settings of the file.
Reload ==
  /\ Goto("reload", "chld")
  /\ tunable' \in Limits
  /\ UNCHANGED <<addr, newChild, sChildren, ipCount, pidIp>>
  /\ UNCHANGED <<sigchld, sighup, state, info>>

\* A file that cannot be read leaves the defaults in force ...
ReloadUnreadable ==
  /\ Goto("reload", "chld")
  /\ tunable' = Default
  /\ UNCHANGED <<addr, newChild, sChildren, ipCount, pidIp>>
  /\ UNCHANGED <<sigchld, sighup, state, info>>

\* ... and one that is not owned by the listener's user ends it.
ReloadDies ==
  /\ Goto("reload", "dead")
  /\ UNCHANGED <<listenerVars, sigchld, sighup, state, info>>

\* handle_sigchld: waitpid returns an exited child; drop_ip_count.
Reap(p) ==
  /\ Goto("reap", "reap")
  /\ state[p] = "zombie"
  /\ pidIp[p] # None
  /\ ipCount[pidIp[p]] > 0
  /\ sChildren' = sChildren - 1
  /\ ipCount' = [ipCount EXCEPT ![pidIp[p]] = @ - 1]
  /\ pidIp' = [pidIp EXCEPT ![p] = None]
  /\ state' = [state EXCEPT ![p] = "free"]
  /\ info' = [info EXCEPT ![p] = NoInfo]
  /\ UNCHANGED <<addr, newChild, tunable, sigchld, sighup>>

\* Mutant: the handler may end with children left to reap.
ReapOne ==
  /\ Goto("reap", "checked")
  /\ UNCHANGED <<listenerVars, sigchld, sighup, state, info>>

\* "No more children"
Reaped ==
  /\ Goto("reap", "checked")
  /\ \A p \in Pid : state[p] # "zombie"
  /\ UNCHANGED <<listenerVars, sigchld, sighup, state, info>>

\* ++s_children and handle_ip_count
Count ==
  /\ addr # None
  /\ Goto("checked", "fork")
  /\ sChildren' = sChildren + 1
  /\ ipCount' = [ipCount EXCEPT ![addr] = @ + 1]
  /\ UNCHANGED <<addr, newChild, pidIp, tunable, sigchld, sighup, state, info>>

\* No client: accept() again.
Again ==
  /\ addr = None
  /\ Goto("checked", "accept")
  /\ UNCHANGED <<listenerVars, sigchld, sighup, state, info>>

\* The child gets child_info and the listener's tunables.
Fork(p) ==
  /\ Goto("fork", "add")
  /\ state[p] = "free"
  /\ newChild' = p
  /\ state' = [state EXCEPT ![p] = "new"]
  /\ info' = [info EXCEPT ![p] = [ip |-> addr, num_children |-> sChildren,
                                  num_this_ip |-> ipCount[addr],
                                  limit |-> tunable]]
  /\ UNCHANGED <<addr, sChildren, ipCount, pidIp, tunable, sigchld, sighup>>

\* Mutant: a failed fork leaves the total as it is.
ForkFailsCounted ==
  /\ Goto("fork", "accept")
  /\ ipCount' = [ipCount EXCEPT ![addr] = @ - 1]
  /\ addr' = None
  /\ UNCHANGED <<newChild, sChildren, pidIp, tunable>>
  /\ UNCHANGED <<sigchld, sighup, state, info>>

\* "fork() failed, clear up!"
ForkFails ==
  /\ Goto("fork", "accept")
  /\ ipCount[addr] > 0
  /\ sChildren' = sChildren - 1
  /\ ipCount' = [ipCount EXCEPT ![addr] = @ - 1]
  /\ addr' = None
  /\ UNCHANGED <<newChild, pidIp, tunable, sigchld, sighup, state, info>>

\* hash_add_entry of the pid, which must be new.
Add ==
  /\ Goto("add", "accept")
  /\ pidIp[newChild] = None
  /\ pidIp' = [pidIp EXCEPT ![newChild] = addr]
  /\ addr' = None
  /\ newChild' = None
  /\ UNCHANGED <<sChildren, ipCount, tunable, sigchld, sighup, state, info>>

-----------------------------------------------------------------------------
\* Mutant: one client more than the limit is let in.
TooManyOff(p) ==
  LET c == info[p] IN
  \/ c.limit.clients > 0 /\ c.num_children > c.limit.clients + 1
  \/ c.limit.perIp > 0 /\ c.num_this_ip > c.limit.perIp + 1

TooMany(p) ==
  LET c == info[p] IN
  \/ c.limit.clients > 0 /\ c.num_children > c.limit.clients
  \/ c.limit.perIp > 0 /\ c.num_this_ip > c.limit.perIp

\* The child: check_limits, then the session.
CheckLimits(p) ==
  /\ state[p] = "new"
  /\ state' = [state EXCEPT ![p] = IF TooMany(p) THEN "refused" ELSE "served"]
  /\ UNCHANGED <<pc, listenerVars, sigchld, sighup, info>>

\* A child ends, for whatever reason, and the listener gets a SIGCHLD.
Exit(p) ==
  /\ state[p] \in {"new", "served", "refused"}
  /\ state' = [state EXCEPT ![p] = "zombie"]
  /\ sigchld' = TRUE
  /\ UNCHANGED <<pc, listenerVars, sighup, info>>

Hup ==
  /\ sighup' = TRUE
  /\ UNCHANGED <<pc, listenerVars, sigchld, state, info>>

Handlers ==
  \/ CheckHup \/ CheckChld
  \/ Reload \/ ReloadUnreadable \/ ReloadDies
  \/ Reaped \/ \E p \in Pid : Reap(p)

Loop ==
  \/ Accept \/ Count \/ Again \/ ForkFails \/ Add
  \/ \E p \in Pid : Fork(p)

Next ==
  \/ Handlers \/ Loop \/ Hup
  \/ \E p \in Pid : CheckLimits(p) \/ Exit(p)

Spec == Init /\ [][Next]_vars

\* The listener keeps running: a recorded SIGCHLD interrupts accept().
FairSpec == Spec /\ WF_vars(Handlers \/ Loop)

-----------------------------------------------------------------------------
\* A client that is counted and has no process yet.
Counted(ip) == IF pc = "fork" /\ addr = ip THEN 1 ELSE 0
InFork == IF pc = "fork" THEN 1 ELSE 0

(***************************************************************************)
(* The accounting is exact: s_children is the number of children that have *)
(* not been reaped, and the count of an address is the number of those that*)
(* came from it, whatever children exit, forks fail and signals come in    *)
(* between; only a client between its counting and its fork is ahead.      *)
(***************************************************************************)
CountsExact ==
  /\ sChildren = Cardinality(Child) + InFork
  /\ \A ip \in Ip : ipCount[ip] = Cardinality(ChildOf(ip)) + Counted(ip)

(***************************************************************************)
(* The listener never meets a bug() of its tables: a child is in           *)
(* s_p_pid_ip_hash with its own address and a positive count when the      *)
(* SIGCHLD handler reaps it, even one that exited at once; a new child's   *)
(* id is not in it; and a failed fork finds the count it takes back.       *)
(***************************************************************************)
NoBug ==
  /\ pc = "reap" => \A p \in Child : /\ pidIp[p] = info[p].ip
                                     /\ pidIp[p] # None
                                     /\ ipCount[pidIp[p]] > 0
  /\ pc = "add" => newChild # None /\ pidIp[newChild] = None
  /\ pc = "fork" => addr # None /\ ipCount[addr] > 0

(***************************************************************************)
(* max_clients: of the clients being served at the same time, the last one *)
(* that was let in saw a limit that they all fit in (limits may change by  *)
(* a reload).  Likewise max_per_ip for the clients of one address.         *)
(***************************************************************************)
WithinLimits ==
  /\ Served # {} =>
       \E p \in Served : \/ info[p].limit.clients = 0
                         \/ Cardinality(Served) <= info[p].limit.clients
  /\ \A ip \in Ip :
       LET here == Served \cap ChildOf(ip) IN
       here # {} => \E p \in here : \/ info[p].limit.perIp = 0
                                    \/ Cardinality(here) <= info[p].limit.perIp

(***************************************************************************)
(* The slot of a client that has gone is given back, unless the listener   *)
(* itself is gone.                                                         *)
(***************************************************************************)
SlotsReturn ==
  \A p \in Pid : state[p] = "zombie" ~> (state[p] # "zombie" \/ pc = "dead")

=============================================================================
