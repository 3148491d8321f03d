------------------------------ MODULE Sandbox ------------------------------
(***************************************************************************)
(* The ptrace sandbox of a one-process session (32-bit builds with         *)
(* ptrace_sandbox=YES).  A supervisor traces the session: every system     *)
(* call stops it twice, on entry and on exit, and signals stop it too.  On *)
(* an entry the supervisor looks the call up in a policy made from the     *)
(* configuration; a call that is refused is replaced by exit_group, for a  *)
(* call that has begun cannot be taken back otherwise.                     *)
(*                                                                         *)
(* The kernel's side of ptrace, and a SIGKILL or the death of the          *)
(* supervisor at any moment, are modelled as the comments of               *)
(* ptracesandbox.c describe them: a call the session is stopped in may     *)
(* still run when the session is killed from outside.                      *)
(***************************************************************************)
EXTENDS Naturals

CONSTANT Confs   \* the configurations considered

Configuration ==
  [is_anonymous : BOOLEAN, write_enable : BOOLEAN, anon_upload_enable : BOOLEAN,
   anon_mkdir_write_enable : BOOLEAN, anon_other_write_enable : BOOLEAN,
   chmod_enable : BOOLEAN, chown_uploads : BOOLEAN, mdtm_write : BOOLEAN,
   port_enable : BOOLEAN, pasv_enable : BOOLEAN, timeouts : BOOLEAN,
   async_abor_enable : BOOLEAN, text_userdb_names : BOOLEAN]

ASSUME SandboxAssumption == Confs \subseteq Configuration

When(b, S) == IF b THEN S ELSE {}

-----------------------------------------------------------------------------
(* System calls: a name, and of the arguments what a validator looks at.   *)

Call(n, a) == [name |-> n, arg |-> a]
None == Call("none", "any")
Signals == {Call("signal", "stop_or_cont"), Call("signal", "other")}
Plain(names) == {Call(n, "any") : n \in names}
With(n, args) == {Call(n, a) : a \in args}

permit_basic ==
  {"exit", "exit_group", "mprotect", "brk", "read", "write", "gettimeofday", "time",
   "close", "stat", "lstat", "readlink", "getcwd", "chdir", "getdents", "fstat", "umask"}
permit_waits == {"sendfile", "lseek", "select", "sigreturn", "nanosleep"}
permit_always == permit_basic \cup permit_waits
permit_files == {"mkdir", "unlink", "rmdir", "rename", "ftruncate", "utime", "chmod", "fchmod", "fchown"}
permit_other == {"mremap", "sigaction", "alarm"}
Unknown == {"fork", "kill", "out_of_bounds", "wrong_segment"}

OpenArgs == {"read", "write", "read_async"}        \* O_ASYNC, O_DIRECT or O_SYNC
MmapArgs == {"private", "shared"}
FcntlArgs == {"getfl", "setlk", "setfd", "setfl", "setfl_async", "setown_self", "setown_other", "dupfd"}
\* Socket calls go through socketcall(2); these have no validator of their own.
socketcalls == {"recv", "listen", "accept", "shutdown", "sendto"}
AddressArgs == {"client", "other", "wrong_family", "wrong_length", "unreadable"}
OptionArgs == {"known", "unknown"}
FamilyArgs == {"stream", "other"}

Calls ==
  Plain(permit_always \cup permit_files \cup permit_other \cup Unknown)
    \cup With("open", OpenArgs) \cup With("mmap2", MmapArgs) \cup With("fcntl", FcntlArgs)
    \cup With("socket", FamilyArgs) \cup With("bind", AddressArgs) \cup With("connect", AddressArgs)
    \cup With("setsockopt", OptionArgs) \cup With("getsockopt", OptionArgs)
    \cup Plain(socketcalls)

validate_mmap2 == {"private"}
validate_open_default == {"read", "write"}
validate_open_readonly == {"read"}
validate_fcntl == FcntlArgs \ {"dupfd", "setfl_async", "setown_other"}
socket_validator == {"stream"}
\* Used for bind as well ("reuse of the connect validator is intentional").
connect_validator == {"client"}

\* Mutant: mkdir and the like are granted to everyone who may write.
WritesAny(c) == When(c.write_enable, With("open", validate_open_default) \cup Plain(permit_files))
\* policy_setup, what write_enable adds.
Writes(c) ==
  LET local(b) == ~c.is_anonymous \/ b IN
  When(c.write_enable,
    When(local(c.anon_upload_enable), With("open", validate_open_default))
      \cup When(local(c.anon_mkdir_write_enable), Plain({"mkdir"}))
      \cup When(local(c.anon_other_write_enable),
                Plain({"unlink", "rmdir", "rename", "ftruncate"}) \cup When(c.mdtm_write, Plain({"utime"})))
      \cup When(~c.is_anonymous /\ c.chmod_enable, Plain({"chmod"}))
      \cup When(c.is_anonymous /\ c.chown_uploads, Plain({"fchmod", "fchown"})))

\* policy_setup, the network.
Network(c) ==
  With("socket", socket_validator) \cup With("bind", connect_validator)
    \cup When(c.port_enable, With("connect", connect_validator) \cup With("getsockopt", {"known"}))
    \cup When(c.pasv_enable, Plain({"listen", "accept"}))

\* policy_setup.
Policy(c) ==
  Plain(permit_always) \cup Plain({"recv", "shutdown"})
    \cup With("mmap2", validate_mmap2) \cup With("open", validate_open_readonly)
    \cup With("fcntl", validate_fcntl) \cup With("setsockopt", {"known"})
    \cup When(c.text_userdb_names, Plain({"mremap"}))
    \cup When(c.async_abor_enable \/ c.timeouts, Plain({"sigaction"}))
    \cup When(c.timeouts, Plain({"alarm"}))
    \cup Network(c) \cup Writes(c)

-----------------------------------------------------------------------------
VARIABLES
  conf,
  child,    \* the session: start, attached, user, entry, call, exit, signal, zombie, reaped
  call,     \* the system call it is in
  sup,      \* the supervisor: launch, wait, handle, kill, rewrite, free, gone
  status,   \* what waitpid reported
  pid,      \* p_sandbox->pid is set
  is_exit,
  ran,      \* the call that ran, until the next one begins
  raced     \* it was stopped on entry when a kill from outside came

sandboxVars == <<conf, child, call, sup, status, pid, is_exit, ran, raced>>

SandboxInit ==
  /\ conf \in Confs
  /\ child = "start" /\ call = None /\ sup = "launch" /\ status = "none"
  /\ pid = TRUE /\ is_exit = FALSE /\ ran = None /\ raced = FALSE

Alive == child \notin {"zombie", "reaped"}
Stopped == child \in {"attached", "entry", "exit", "signal"}

-----------------------------------------------------------------------------
(* The session and the kernel.                                             *)

\* ptrace_sandbox_attach_point: traced and stopped, or gone.
Attach ==
  /\ child = "start"
  /\ child' \in {"attached", "zombie"}
  /\ UNCHANGED <<conf, call, sup, status, pid, is_exit, ran, raced>>

EnterCall ==
  /\ child = "user"
  /\ child' = "entry" /\ call' \in Calls
  /\ ran' = None /\ raced' = FALSE
  /\ UNCHANGED <<conf, sup, status, pid, is_exit>>

LeaveCall ==
  /\ child = "call"
  /\ child' = "exit"
  /\ UNCHANGED <<conf, call, sup, status, pid, is_exit, ran, raced>>

Signal ==
  /\ child = "user"
  /\ child' = "signal" /\ call' \in Signals
  /\ UNCHANGED <<conf, sup, status, pid, is_exit, ran, raced>>

\* A SIGKILL that is not the supervisor's.  A call it is stopped in may run.
KillOutside ==
  /\ Alive
  /\ child' = "zombie" /\ call' = None
  /\ \/ child = "entry" /\ ran' = call /\ raced' = TRUE
     \/ UNCHANGED <<ran, raced>>
  /\ UNCHANGED <<conf, sup, status, pid, is_exit>>

\* The supervisor dies, and PR_SET_PDEATHSIG takes the session with it.
SupervisorDies ==
  /\ sup # "gone"
  /\ sup' = "gone"
  /\ UNCHANGED <<conf, child, call, status, pid, is_exit, ran, raced>>

\* Mutant: the session has not asked for the parent's death signal.
sanitize_child_not == sup = "gone" /\ child = "start"
\* sanitize_child.
sanitize_child == sup = "gone"

DeathSignal == sanitize_child /\ KillOutside

-----------------------------------------------------------------------------
(* The supervisor.                                                         *)

\* ptrace_sandbox_continue_process: the call runs, or the session goes on.
Resume ==
  /\ child' = CASE child = "entry" -> IF call.name \in {"exit", "exit_group"} THEN "zombie" ELSE "call"
                [] OTHER -> "user"
  /\ IF child = "entry" THEN ran' = call /\ raced' = FALSE ELSE UNCHANGED <<ran, raced>>
  /\ call' = IF child' = "call" THEN call ELSE None

\* ptrace_sandbox_launch_process, and the first continue; die() when there
\* is nothing to trace.
Launch ==
  /\ sup = "launch" /\ child \in {"attached", "zombie"}
  /\ IF child = "attached"
       THEN sup' = "wait" /\ Resume /\ UNCHANGED pid
       ELSE sup' = "gone" /\ pid' = FALSE /\ child' = "reaped" /\ UNCHANGED <<call, ran, raced>>
  /\ UNCHANGED <<conf, status, is_exit>>

\* ptrace_sandbox_get_event.
Wait ==
  /\ sup = "wait" /\ (Stopped \/ child = "zombie")
  /\ status' = child /\ sup' = "handle"
  /\ child' = IF child = "zombie" THEN "reaped" ELSE child
  /\ UNCHANGED <<conf, call, pid, is_exit, ran, raced>>

Forget == pid' = FALSE

\* ptrace_sandbox_handle_event: the session has ended.
HandleEnd ==
  /\ sup = "handle" /\ status = "zombie"
  /\ Forget /\ sup' = "free"
  /\ UNCHANGED <<conf, child, call, status, is_exit, ran, raced>>

\* ptrace fails with ESRCH: the session has been killed in the meantime.
HandleDead ==
  /\ sup = "handle" /\ status # "zombie" /\ ~Alive
  /\ is_exit' = CASE status = "entry" -> TRUE [] status = "exit" -> FALSE [] OTHER -> is_exit
  /\ sup' = "kill"
  /\ UNCHANGED <<conf, child, call, status, pid, ran, raced>>

\* Mutant: a signal stop is taken for a system call.
AfterSignalToggled == ~is_exit
AfterSignal == is_exit

\* A signal is passed on, SIGSTOP and SIGCONT as SIGKILL.
HandleSignal ==
  /\ sup = "handle" /\ status = "signal" /\ Alive
  /\ sup' = "wait"
  /\ child' \in IF call.arg = "other" THEN {"user", "zombie"} ELSE {"zombie"}
  /\ call' = None /\ is_exit' = AfterSignal
  /\ UNCHANGED <<conf, status, pid, ran, raced>>

\* get_action: the call is in the table, allowed, and its arguments pass.
get_action(c) == c \in Policy(conf)

Refuse == sup' = "kill"

\* A system call trap: an entry is judged, an exit is passed.
HandleCall ==
  /\ sup = "handle" /\ status \in {"entry", "exit"} /\ Alive
  /\ is_exit' = ~is_exit
  /\ IF is_exit \/ get_action(call)
       THEN sup' = "wait" /\ Resume
       ELSE Refuse /\ UNCHANGED <<child, call, ran, raced>>
  /\ UNCHANGED <<conf, status, pid>>

\* ptrace_sandbox_kill_processes: the registers can be read only while the
\* session is stopped; otherwise it is killed and left.
KillProcesses ==
  /\ sup = "kill"
  /\ pid' = FALSE
  /\ sup' = IF Alive THEN "rewrite" ELSE "free"
  /\ UNCHANGED <<conf, child, call, status, is_exit, ran, raced>>

\* The call becomes exit_group before the kill.
Rewrite == UNCHANGED <<ran, raced>>

KillRewrite ==
  /\ sup = "rewrite"
  /\ sup' = "free"
  /\ IF Alive THEN Rewrite ELSE UNCHANGED <<ran, raced>>
  /\ child' = "reaped" /\ call' = None
  /\ UNCHANGED <<conf, status, pid, is_exit>>

\* ptrace_sandbox_free, and exit.
Free ==
  /\ sup = "free"
  /\ sup' = "gone"
  /\ UNCHANGED <<conf, child, call, status, pid, is_exit, ran, raced>>

-----------------------------------------------------------------------------
Supervise ==
  Launch \/ Wait \/ HandleEnd \/ HandleDead \/ HandleSignal \/ HandleCall
    \/ KillProcesses \/ KillRewrite \/ Free

SandboxNext ==
  Attach \/ EnterCall \/ LeaveCall \/ Signal \/ KillOutside \/ SupervisorDies \/ DeathSignal \/ Supervise

SandboxSpec == SandboxInit /\ [][SandboxNext]_sandboxVars

\* The supervisor runs while it lives and the kernel keeps its word; nothing
\* is assumed of the session.
FairSandboxSpec ==
  SandboxSpec /\ WF_sandboxVars(Supervise) /\ WF_sandboxVars(Attach) /\ WF_sandboxVars(DeathSignal)

-----------------------------------------------------------------------------
\* Every variable keeps to its values.
SandboxTypeOK ==
  /\ conf \in Confs
  /\ child \in {"start", "attached", "user", "entry", "call", "exit", "signal", "zombie", "reaped"}
  /\ call \in Calls \cup {None} \cup Signals
  /\ sup \in {"launch", "wait", "handle", "kill", "rewrite", "free", "gone"}
  /\ status \in {"none", "entry", "exit", "signal", "zombie"}
  /\ {pid, is_exit, raced} \subseteq BOOLEAN
  /\ ran \in Calls \cup {None}

\* is_exit, which the supervisor only toggles, tells entries from exits for
\* ever: signal stops between the two, and calls that never return, do not
\* put it out of phase with the kernel.
InPhase ==
  sup \in {"wait", "handle"} =>
    /\ child \in {"user", "entry", "signal"} => ~is_exit
    /\ child \in {"call", "exit"} => is_exit

\* A call runs only if the policy of this configuration lets it, whatever
\* the order of stops, signals and kills; the exception is the one the
\* comments name: the session was stopped on entry when it was killed from
\* outside.
OnlyAllowed == ran = None \/ raced \/ ran \in Policy(conf)

FileWrites == Plain(permit_files) \cup {Call("open", "write")}

\* The policy grants no more than the command handlers do: a session that
\* may not write changes no file, and an anonymous one only as its own
\* settings say (postlogin.c, where each write command is guarded by the
\* same settings).
WritesAsConfigured ==
  ran \in FileWrites /\ ~raced =>
    /\ conf.write_enable
    /\ conf.is_anonymous =>
         CASE ran.name = "open" -> conf.anon_upload_enable
           [] ran.name = "mkdir" -> conf.anon_mkdir_write_enable
           [] ran.name \in {"fchmod", "fchown"} -> conf.chown_uploads
           [] OTHER -> conf.anon_other_write_enable /\ ran.name # "chmod"

\* ptrace_sandbox_free never finds a process ("bug: pid active").
FreeClean == sup = "free" => ~pid /\ ~Alive

\* A refused call is the end of the session.
RefusedEnds == child = "entry" /\ call \notin Policy(conf) ~> ~Alive

\* The session does not outlive its supervisor, however that ends.
NoOrphan == sup = "gone" ~> ~Alive

\* The supervisor judges every call of the session, at its entry, and is done
\* only when the session is.
Judged == SandboxTypeOK /\ InPhase /\ OnlyAllowed /\ FreeClean

\* The session ends when a call is refused, and when nobody is left to judge.
SessionEnds == RefusedEnds /\ NoOrphan
=============================================================================
