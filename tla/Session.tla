------------------------------ MODULE Session ------------------------------
(***************************************************************************)
(* A logged-in session: the command loop of process_post_login, PORT and   *)
(* PASV, the data connection from get_remote_transfer_fd to                *)
(* vsf_ftpdataio_dispose_transfer_fd, the idle and the data timeout (which *)
(* share SIGALRM) and the asynchronous ABOR (SIGURG).  The listening socket*)
(* of PASV is in the privileged parent; a request to it is one step of the *)
(* session, which waits for the answer.                                    *)
(*                                                                         *)
(* Signals are only recorded when they arrive.  Every read and write ends  *)
(* with a scan of what was recorded (module Signals), and only there the   *)
(* handlers run: SIGALRM first, then SIGURG, whose handler blocks in       *)
(* reading the client's line.  A line is "abor" when it asks for ABOR; what*)
(* any other line asks for is chosen when the session acts on it.  Both     *)
(* timeouts are configured, TLS and the bandwidth limit are not, as in the *)
(* shipped configuration.                                                  *)
(***************************************************************************)
EXTENDS Integers, Sequences

CONSTANTS
  MaxInput,   \* bound: lines the client has sent and the server not yet read
  MaxChunks   \* bound: pieces of data of one transfer

ASSUME SessionAssumption == MaxInput \in Nat /\ MaxChunks \in Nat

VARIABLES
  pc,          \* where the session process is
  cmd,         \* the transfer command being handled
  input,       \* lines in the control connection
  owed,        \* lines taken from it and not yet answered
  port,        \* p_port_sockaddr is set
  listen,      \* pasv_listen_fd of the privileged parent is open
  epsvAll,     \* epsv_all
  used,        \* the address was used for a data connection
  dataFd,      \* data_fd is open
  io,          \* handle_io is installed
  shut,        \* the data socket has been shut down
  readShut,    \* the control connection has been shut down for reading
  chunk,       \* pieces transferred
  ret,         \* trans_ret.retval
  linger,      \* the close of the data socket waits for the client
  cut,         \* ... and was interrupted
  abor,        \* abor_received
  progress,    \* data_progress
  dataTimeout, \* data_timeout
  idleTimeout, \* idle_timeout
  alarm,       \* the process' one alarm timer runs
  handler,     \* the handler installed for SIGALRM
  sigalrm,     \* SIGALRM recorded
  sigurg,      \* SIGURG recorded
  scan,        \* vsf_sysutil_check_pending_actions: next signal to look at
  urg          \* handle_sigurg waits for the client's line

conn == <<port, listen, epsvAll, used>>
data == <<dataFd, io, chunk, ret, linger, cut>>
timer == <<progress, dataTimeout, idleTimeout, alarm, handler, sigalrm>>
chan == <<input, readShut>>
vars == <<pc, cmd, chan, owed, conn, data, shut, abor, timer, sigurg, scan, urg>>

Transfer == {"RETR", "LIST", "STOR"}
Where == {"idle", "getline", "dispatch", "checks", "accept", "init", "mark",
          "early", "xfer", "dispose", "close", "answer", "cos", "abor",
          "cleanup", "end", "exit"}

Init ==
  /\ pc = "idle" /\ cmd = "LIST" /\ input = <<>> /\ owed = 0
  /\ port = FALSE /\ listen = FALSE /\ epsvAll = FALSE /\ used = FALSE
  /\ dataFd = FALSE /\ io = FALSE /\ shut = FALSE /\ readShut = FALSE
  /\ chunk = 0 /\ ret = 0 /\ linger = FALSE /\ cut = FALSE /\ abor = FALSE
  /\ progress = FALSE /\ dataTimeout = FALSE /\ idleTimeout = FALSE
  /\ alarm = FALSE /\ handler = "idle" /\ sigalrm = FALSE /\ sigurg = FALSE
  /\ scan = "no" /\ urg = FALSE

-----------------------------------------------------------------------------
(* The client and the clock.                                               *)

SendLine ==
  /\ pc # "exit" /\ Len(input) < MaxInput
  /\ input' = Append(input, "line")
  /\ UNCHANGED <<pc, cmd, readShut, owed, conn, data, shut, abor, timer, sigurg, scan, urg>>

\* The client waits for the answer to an ABOR before it sends another one.
SendAbor ==
  /\ pc # "exit" /\ Len(input) < MaxInput
  /\ ~abor /\ \A k \in DOMAIN input : input[k] # "abor"
  /\ input' = Append(input, "abor")
  /\ UNCHANGED <<pc, cmd, readShut, owed, conn, data, shut, abor, timer, sigurg, scan, urg>>

\* Urgent data arrives before the line it announces, after it, or alone.
Urgent ==
  /\ pc # "exit" /\ ~sigurg
  /\ sigurg' = TRUE
  /\ UNCHANGED <<pc, cmd, chan, owed, conn, data, shut, abor, timer, scan, urg>>

\* The common handler sets the alarm again until the signal is handled.
AlarmFires ==
  /\ pc # "exit" /\ alarm /\ ~sigalrm
  /\ sigalrm' = TRUE
  /\ UNCHANGED <<pc, cmd, chan, owed, conn, data, shut, abor, progress, dataTimeout,
                 idleTimeout, alarm, handler, sigurg, scan, urg>>

-----------------------------------------------------------------------------
(* The scan of recorded signals.                                           *)

HandleIdle ==
  /\ idleTimeout' = TRUE /\ readShut' = TRUE /\ alarm' = FALSE
  /\ UNCHANGED <<shut, progress, dataTimeout, handler>>

\* Mutant: the alarm is not set again after progress.
HandleDataOnce ==
  /\ IF progress
       THEN progress' = FALSE /\ alarm' = FALSE /\ UNCHANGED <<shut, dataTimeout, readShut>>
       ELSE /\ dataTimeout' = TRUE /\ alarm' = FALSE
            /\ shut' = (shut \/ dataFd) /\ readShut' = TRUE
            /\ UNCHANGED progress
  /\ UNCHANGED <<idleTimeout, handler>>
\* Mutant: the control connection is not shut down.
HandleDataOnly ==
  /\ IF progress
       THEN progress' = FALSE /\ alarm' = TRUE /\ UNCHANGED <<shut, dataTimeout>>
       ELSE /\ dataTimeout' = TRUE /\ alarm' = FALSE
            /\ shut' = (shut \/ dataFd)
            /\ UNCHANGED progress
  /\ UNCHANGED <<idleTimeout, handler, readShut>>
HandleData ==
  /\ IF progress
       THEN /\ progress' = FALSE /\ alarm' = TRUE
            /\ UNCHANGED <<shut, dataTimeout, readShut>>
       ELSE /\ dataTimeout' = TRUE /\ alarm' = FALSE
            /\ shut' = (shut \/ dataFd) /\ readShut' = TRUE
            /\ UNCHANGED progress
  /\ UNCHANGED <<idleTimeout, handler>>

ScanAlarm ==
  /\ scan = "alrm"
  /\ IF sigalrm
       THEN /\ sigalrm' = FALSE
            /\ IF handler = "idle" THEN HandleIdle ELSE HandleData
       ELSE UNCHANGED <<timer, shut, readShut>>
  /\ scan' = "urg"
  /\ UNCHANGED <<pc, cmd, input, owed, conn, data, abor, sigurg, urg>>

\* A handler that is running is not run again; without a data connection the
\* line is left to the command loop.
ScanUrg ==
  /\ scan = "urg"
  /\ IF sigurg /\ ~urg
       THEN sigurg' = FALSE /\ urg' = dataFd
       ELSE UNCHANGED <<sigurg, urg>>
  /\ scan' = "no"
  /\ UNCHANGED <<pc, cmd, chan, owed, conn, data, shut, abor, timer>>

\* handle_sigurg has its line.
UrgLine ==
  /\ urg /\ scan = "no" /\ ~sigalrm /\ input # <<>>
  /\ input' = Tail(input)
  /\ urg' = FALSE
  /\ \/ /\ idleTimeout
        /\ pc' = "exit"
        /\ UNCHANGED <<abor, shut, owed>>
     \/ /\ ~idleTimeout /\ Head(input) = "abor"
        /\ abor' = TRUE /\ shut' = TRUE /\ owed' = owed + 1
        /\ UNCHANGED pc
     \/ /\ ~idleTimeout /\ Head(input) # "abor"     \* 500, at once
        /\ UNCHANGED <<pc, abor, shut, owed>>
  /\ UNCHANGED <<cmd, readShut, conn, data, timer, sigurg, scan>>

\* The read of handle_sigurg is interrupted, or finds a line and a signal.
UrgInterrupted ==
  /\ urg /\ scan = "no" /\ sigalrm
  /\ scan' = "alrm"
  /\ UNCHANGED <<pc, cmd, chan, owed, conn, data, shut, abor, timer, sigurg, urg>>

UrgEof ==
  /\ urg /\ scan = "no" /\ ~sigalrm /\ input = <<>> /\ readShut
  /\ pc' = "exit" /\ urg' = FALSE
  /\ UNCHANGED <<cmd, chan, owed, conn, data, shut, abor, timer, sigurg, scan>>

-----------------------------------------------------------------------------
(* The command loop.                                                       *)

At(p) == pc = p /\ scan = "no" /\ ~urg
\* A step that ends with a read or a write, hence with a scan.
IO == scan' = "alrm" /\ UNCHANGED <<sigurg, urg>>
NoIO == UNCHANGED <<scan, sigurg, urg>>
Goto(p) == pc' = p
Quiet == UNCHANGED <<chan, shut, abor, timer>>
\* One final reply on the control connection.
Reply == owed' = owed - 1

SetAlarm ==
  /\ At("idle") /\ Goto("getline")
  /\ handler' = "idle" /\ alarm' = TRUE
  /\ UNCHANGED <<cmd, chan, owed, conn, data, shut, abor, progress, dataTimeout,
                 idleTimeout, sigalrm>>
  /\ NoIO

ReadLine ==
  /\ At("getline") /\ input # <<>>
  /\ input' = Tail(input)
  /\ owed' = owed + 1
  /\ Goto("dispatch")
  /\ UNCHANGED <<cmd, readShut, conn, data, shut, abor, timer>>
  /\ IO

\* A blocking read or write that a signal interrupts is begun again.
Interrupted ==
  /\ \/ At("getline") /\ input = <<>> /\ ~readShut
     \/ At("accept")
     \/ At("xfer") /\ ~shut
  /\ sigalrm \/ sigurg
  /\ UNCHANGED <<pc, cmd, owed, conn, data>>
  /\ Quiet /\ IO

Eof ==
  /\ At("getline") /\ input = <<>> /\ readShut
  /\ Goto("exit")
  /\ UNCHANGED <<cmd, owed, conn, data>>
  /\ Quiet /\ NoIO

\* The client is gone (a read finds the end, a write fails and die() is called)
\* or the process is killed.
HangUp ==
  /\ pc # "exit" /\ scan = "no"
  /\ Goto("exit") /\ urg' = FALSE
  /\ UNCHANGED <<cmd, chan, owed, conn, data, shut, abor, timer, sigurg, scan>>

Timeout ==
  /\ At("dispatch") /\ idleTimeout
  /\ Goto("exit") /\ Reply
  /\ UNCHANGED <<cmd, conn, data>>
  /\ Quiet /\ NoIO

Dispatch == At("dispatch") /\ ~idleTimeout

\* One reply and nothing else: most commands, the ones not known or not
\* allowed, ABOR without a transfer; and the empty line, which has no reply.
Simple ==
  /\ Dispatch /\ Goto("end") /\ Reply
  /\ UNCHANGED <<cmd, conn, data>>
  /\ Quiet /\ IO

Quit ==
  /\ Dispatch /\ Goto("exit") /\ Reply
  /\ UNCHANGED <<cmd, conn, data>>
  /\ Quiet /\ NoIO

\* STAT of a directory writes to the control connection, then check_abor.
StatFile ==
  /\ Dispatch /\ Goto("end")
  /\ owed' = owed - IF abor THEN 2 ELSE 1
  /\ abor' = FALSE
  /\ UNCHANGED <<cmd, conn, data, chan, shut, timer>>
  /\ IO

EpsvAll ==
  /\ Dispatch /\ Goto("end") /\ Reply
  /\ epsvAll' = TRUE
  /\ UNCHANGED <<cmd, port, listen, used, data>>
  /\ Quiet /\ IO

\* Mutant: the address of an earlier PORT stays.
PasvKeepingPort(extended) ==
  /\ Dispatch /\ (extended \/ ~epsvAll) /\ Goto("end") /\ Reply
  /\ listen' = TRUE /\ used' = FALSE
  /\ UNCHANGED <<cmd, port, epsvAll, data>>
  /\ Quiet /\ IO
\* PASV (refused after EPSV ALL) and EPSV.
Pasv(extended) ==
  /\ Dispatch /\ (extended \/ ~epsvAll) /\ Goto("end") /\ Reply
  /\ port' = FALSE /\ listen' = TRUE /\ used' = FALSE
  /\ UNCHANGED <<cmd, epsvAll, data>>
  /\ Quiet /\ IO

\* No port could be bound: the privileged parent dies, and the session with it.
PasvDies(extended) ==
  /\ Dispatch /\ (extended \/ ~epsvAll) /\ Goto("exit")
  /\ port' = FALSE /\ listen' = FALSE
  /\ UNCHANGED <<cmd, owed, epsvAll, used, data>>
  /\ Quiet /\ NoIO

\* PORT (refused after EPSV ALL) and EPRT; the address may be illegal.
Port(extended, legal) ==
  /\ Dispatch /\ (extended \/ ~epsvAll) /\ Goto("end") /\ Reply
  /\ port' = legal /\ listen' = FALSE /\ used' = FALSE
  /\ UNCHANGED <<cmd, epsvAll, data>>
  /\ Quiet /\ IO

-----------------------------------------------------------------------------
(* RETR, LIST, NLST and STOR.                                              *)

Begin(c) ==
  /\ Dispatch /\ Goto("checks")
  /\ cmd' = c
  /\ UNCHANGED <<owed, conn, data>>
  /\ Quiet /\ IO

\* No PORT or PASV before; or the path, the mode or the file is refused, which
\* leaves the address for the next command.
Refused ==
  /\ At("checks") /\ Goto("end") /\ Reply
  /\ UNCHANGED <<cmd, conn, data>>
  /\ Quiet /\ IO

\* STOR: the file is locked by another session, or shorter than REST says.
StorRefused ==
  /\ At("checks") /\ (port \/ listen) /\ cmd = "STOR"
  /\ Goto("cleanup") /\ Reply
  /\ UNCHANGED <<cmd, conn, data>>
  /\ Quiet /\ IO

GetRemote ==
  /\ At("checks") /\ (port \/ listen)
  /\ Goto("accept")
  /\ abor' = FALSE /\ used' = TRUE
  /\ UNCHANGED <<cmd, owed, port, listen, epsvAll, data, chan, shut, timer>>
  /\ IO

\* accept or connect failed, timed out, or the peer has another address.
NotConnected ==
  /\ At("accept") /\ Goto("cleanup") /\ Reply
  /\ UNCHANGED <<cmd, conn, data>>
  /\ Quiet /\ IO

Connected ==
  /\ At("accept") /\ Goto("init")
  /\ UNCHANGED <<cmd, owed, conn, data>>
  /\ Quiet /\ IO

InitData ==
  /\ At("init") /\ Goto("mark")
  /\ dataFd' = TRUE /\ io' = TRUE
  /\ progress' = FALSE /\ handler' = "data" /\ alarm' = TRUE
  /\ UNCHANGED <<cmd, owed, conn, chunk, ret, linger, cut, chan, shut, abor,
                 dataTimeout, idleTimeout, sigalrm>>
  /\ NoIO

\* The 150 reply.
Mark ==
  /\ At("mark") /\ Goto(IF cmd = "STOR" THEN "early" ELSE "xfer")
  /\ UNCHANGED <<cmd, owed, conn, data>>
  /\ Quiet /\ IO

\* STOR stops listening before it reads.
EarlyCleanup ==
  /\ At("early") /\ Goto("xfer")
  /\ listen' = FALSE
  /\ UNCHANGED <<cmd, owed, port, epsvAll, used, data>>
  /\ Quiet /\ IO

\* A piece goes through; the scan runs handle_io.
Chunk ==
  /\ At("xfer") /\ ~shut /\ chunk < MaxChunks
  /\ chunk' = chunk + 1 /\ progress' = TRUE
  /\ UNCHANGED <<pc, cmd, owed, conn, dataFd, io, ret, linger, cut, chan, shut, abor,
                 dataTimeout, idleTimeout, alarm, handler, sigalrm>>
  /\ IO

\* The transfer loop ends: nothing is left to send, or STOR reads the end of
\* the data (a socket that was shut down reads as ended too); COS or the local
\* disk fails; the network fails, as every write to a socket shut down does.
XferEnds(r) ==
  /\ At("xfer") /\ Goto("dispose")
  /\ ret' = r /\ chunk' = 0
  /\ UNCHANGED <<cmd, owed, conn, dataFd, io, linger, cut>>
  /\ Quiet /\ IO
Shut == XferEnds(IF cmd = "STOR" THEN 0 ELSE -2) /\ shut

Dispose ==
  /\ At("dispose") /\ Goto("close")
  /\ io' = FALSE
  /\ linger' = (~abor /\ ~dataTimeout)
  /\ IF linger' THEN handler' = "data" /\ alarm' = TRUE
                ELSE UNCHANGED <<handler, alarm>>
  /\ UNCHANGED <<cmd, owed, conn, dataFd, chunk, ret, cut, chan, shut, abor, progress,
                 dataTimeout, idleTimeout, sigalrm>>
  /\ NoIO

\* close() itself does not scan.
Closing(interrupted) ==
  /\ At("close") /\ Goto("answer")
  /\ cut' = interrupted
  /\ dataFd' = FALSE /\ shut' = FALSE /\ linger' = FALSE /\ alarm' = FALSE
  /\ ret' = IF (abor \/ dataTimeout) /\ ret = 0 THEN -2 ELSE ret
  /\ UNCHANGED <<cmd, owed, conn, io, chunk, chan, abor, progress, dataTimeout,
                 idleTimeout, handler, sigalrm>>
  /\ NoIO
Closed == Closing(FALSE)
CloseInterrupted == linger /\ (sigalrm \/ sigurg) /\ Closing(TRUE)

Answer ==
  /\ At("answer") /\ ~(ret = 0 /\ cmd = "STOR") /\ Goto("abor")
  /\ IF ret = -2 /\ dataTimeout THEN UNCHANGED owed /\ NoIO
                                ELSE Reply /\ IO
  /\ UNCHANGED <<cmd, conn, data>>
  /\ Quiet

\* cos_upload_file does not scan either.
ToCos ==
  /\ At("answer") /\ ret = 0 /\ cmd = "STOR" /\ Goto("cos")
  /\ port' = FALSE
  /\ UNCHANGED <<cmd, owed, listen, epsvAll, used, data>>
  /\ Quiet /\ NoIO

AnswerStor ==
  /\ At("cos") /\ Goto("abor") /\ Reply
  /\ UNCHANGED <<cmd, conn, data>>
  /\ Quiet /\ IO

CheckAbor ==
  /\ At("abor") /\ Goto("cleanup")
  /\ abor' = FALSE
  /\ IF abor THEN Reply /\ IO ELSE UNCHANGED owed /\ NoIO
  /\ UNCHANGED <<cmd, conn, data, chan, shut, timer>>

Cleanup ==
  /\ At("cleanup") /\ Goto("end")
  /\ port' = FALSE /\ listen' = FALSE
  /\ ret' = 0 /\ cut' = FALSE          \* locals of the handler
  /\ UNCHANGED <<cmd, owed, epsvAll, used, dataFd, io, chunk, linger>>
  /\ Quiet /\ IO

\* Mutant: the session goes on after a data timeout.
EndIgnoring ==
  /\ At("end")
  /\ Goto("idle")
  /\ UNCHANGED <<cmd, owed, conn, data>>
  /\ Quiet /\ NoIO
End ==
  /\ At("end")
  /\ Goto(IF dataTimeout THEN "exit" ELSE "idle")
  /\ UNCHANGED <<cmd, owed, conn, data>>
  /\ Quiet /\ NoIO

-----------------------------------------------------------------------------
\* What waits for nobody, or for the client only as long as a timeout.
Server ==
  \/ ScanAlarm \/ ScanUrg \/ UrgLine \/ UrgInterrupted \/ UrgEof
  \/ SetAlarm \/ ReadLine \/ Interrupted \/ Eof
  \/ Timeout \/ Simple \/ Quit \/ StatFile \/ EpsvAll
  \/ \E e \in BOOLEAN : \/ Pasv(e) \/ PasvDies(e)
                        \/ \E l \in BOOLEAN : Port(e, l)
  \/ \E c \in Transfer : Begin(c)
  \/ Refused \/ StorRefused \/ GetRemote \/ NotConnected \/ Connected
  \/ InitData \/ Mark \/ EarlyCleanup \/ Shut \/ Dispose
  \/ ~linger /\ Closed
  \/ CloseInterrupted
  \/ Answer \/ ToCos \/ AnswerStor \/ CheckAbor \/ Cleanup \/ End

\* What the client, the network or COS decides.
Peer ==
  \/ Chunk \/ \E r \in {0, -1, -2} : XferEnds(r)
  \/ linger /\ Closed
  \/ HangUp

Next == SendLine \/ SendAbor \/ Urgent \/ AlarmFires \/ Server \/ Peer

Spec == Init /\ [][Next]_vars
\* The parent's wait for the connection has a timeout, which the signals that
\* the session gets do not extend.
FairSpec ==
  /\ Spec /\ WF_vars(Server) /\ WF_vars(AlarmFires)
  /\ SF_vars(Connected \/ NotConnected)

-----------------------------------------------------------------------------
(* Properties.                                                             *)

TypeOK ==
  /\ pc \in Where /\ cmd \in Transfer
  /\ input \in Seq({"line", "abor"}) /\ Len(input) <= MaxInput
  /\ owed \in 0 .. 2 /\ chunk \in 0 .. MaxChunks /\ ret \in {0, -1, -2}
  /\ port \in BOOLEAN /\ listen \in BOOLEAN /\ epsvAll \in BOOLEAN /\ used \in BOOLEAN
  /\ dataFd \in BOOLEAN /\ io \in BOOLEAN /\ shut \in BOOLEAN /\ readShut \in BOOLEAN
  /\ linger \in BOOLEAN /\ cut \in BOOLEAN /\ abor \in BOOLEAN
  /\ progress \in BOOLEAN /\ dataTimeout \in BOOLEAN /\ idleTimeout \in BOOLEAN
  /\ alarm \in BOOLEAN /\ handler \in {"idle", "data"}
  /\ sigalrm \in BOOLEAN /\ sigurg \in BOOLEAN
  /\ scan \in {"no", "alrm", "urg"} /\ urg \in BOOLEAN

(***************************************************************************)
(* No bug() or die() of the data connection is reachable: PORT and PASV are*)
(* never both active; one of them is when a connection is asked for; the   *)
(* privileged parent is asked to accept only while it listens; the         *)
(* descriptor and the i/o handler are there when they are disposed of and  *)
(* not there when they are set up.                                         *)
(***************************************************************************)
NoBug ==
  /\ ~(port /\ listen)
  /\ pc = "accept" => port \/ listen
  /\ pc = "init" => ~dataFd /\ ~io
  /\ pc = "dispose" => dataFd /\ io

(***************************************************************************)
(* An ABOR belongs to the transfer during which it came: abor_received is  *)
(* only set while the data connection is open or its command not answered, *)
(* so that it never ends, or is answered by, a later transfer.             *)
(***************************************************************************)
AborInTransfer == abor => dataFd \/ pc \in {"answer", "cos", "abor", "exit"}

(***************************************************************************)
(* The address of a PORT, and the socket of a PASV, serve one connection   *)
(* attempt: whatever came of it, the next transfer needs a new one.        *)
(***************************************************************************)
AddressOnce ==
  pc \in {"idle", "getline", "dispatch", "checks"} /\ (port \/ listen) => ~used

(***************************************************************************)
(* Wherever the session waits for the client, in the command loop, in the  *)
(* transfer, in the lingering close, in handle_sigurg, its alarm runs, or  *)
(* has been recorded, or what it waits on has been shut down.              *)
(***************************************************************************)
Watched ==
  /\ pc = "getline" => alarm \/ sigalrm \/ readShut
  /\ pc = "xfer" => alarm \/ sigalrm \/ shut
  /\ pc = "close" /\ linger => alarm \/ sigalrm
  /\ urg => alarm \/ sigalrm \/ readShut

(***************************************************************************)
(* A client that stalls, in the data connection or in the middle of an     *)
(* ABOR, does not hold the session for ever.                               *)
(***************************************************************************)
TransferEnds ==
  pc \in {"accept", "init", "mark", "early", "xfer", "dispose", "close"}
    ~> pc \in {"idle", "exit"}

Promise == INSTANCE Dialogue WITH alive <- pc # "exit", connected <- dataFd

(***************************************************************************)
(* The session keeps its promise to the client: replies, ABOR and the data *)
(* connection come in the order of module Dialogue.  The command loop, the *)
(* scan of signals and handle_sigurg all take lines or reply.              *)
(***************************************************************************)
ImplementsDialogue == Promise!Spec
=============================================================================
