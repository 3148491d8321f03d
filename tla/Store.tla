------------------------------- MODULE Store -------------------------------
(***************************************************************************)
(* The commands of several sessions on one bucket: CWD, MKD, RMD, DELE,    *)
(* SIZE, REST, TYPE, RETR, LIST, NLST, STAT and STOR of postlogin.c, with  *)
(* the calls of cosswitch.cpp they are made of.  A request to COS, a system*)
(* call on the local tree and a write to the client are steps of their own,*)
(* and commands of other sessions run in between.                          *)
(*                                                                         *)
(* All sessions share the bucket and the local tree under the user root.   *)
(* The local tree holds no files but the spool files of uploads; its       *)
(* directories exist so that the current directory of a session process    *)
(* can say where relative names are.  Directories lie under the root.      *)
(*                                                                         *)
(* An object is its version and its number of blocks.  How an upload spools*)
(* its file and sends it is module Upload, the data connection is module   *)
(* Session; here an upload replaces the object in one request, and writing *)
(* to the client works or fails.                                           *)
(***************************************************************************)
EXTENDS Naturals, Sequences, FiniteSets

CONSTANTS
  Session,    \* session processes
  Name,       \* file names
  Dir,        \* directories under the root
  Root,       \* the root directory
  Here,       \* no directory in the argument: the name is relative
  None,       \* no name, no object
  Plans,      \* bound: the commands the clients send, one after the other
  Stocks,     \* bound: the folders, objects and local directories at the start
  Conf,       \* configuration: what dispatch and the listing read of it
  Rights,     \* p_sess->permissions of each session
  Anonymous,  \* sessions with is_anonymous
  Order,      \* the order in which COS lists names
  PageSize,   \* entries COS returns in one page of a listing
  MaxSize,    \* bound: blocks of an object
  MaxFaults   \* bound: requests to COS that go wrong

Place == Dir \cup {Root}
File == Place \X Name
Entry == Name \cup Dir
Object == [ver : Nat, size : 0 .. MaxSize]
Stocked == [ver : {0}, size : 0 .. MaxSize]
Ops == {"CWD", "MKD", "RMD", "DELE", "SIZE", "REST", "TYPE", "RETR", "LIST", "STAT", "STOR", "NOOP"}
\* MKD and RMD name a directory under the root, the commands on a file a file.
Command ==
  {c \in [op : Ops, dir : Place \cup {Here}, name : Name \cup {None}, pos : Nat] :
     /\ c.op \in {"MKD", "RMD"} => c.dir \in Dir
     /\ c.op \in {"DELE", "SIZE", "RETR", "STOR"} => c.name \in Name}

ASSUME StoreAssumption ==
  /\ Root \notin Dir /\ Here \notin Place /\ None \notin Name \cup Place \cup Object
  /\ Name \cap Dir = {}
  /\ Plans \subseteq [Session -> Seq(Command)]
  /\ Stocks \subseteq [folder : SUBSET Dir, object : [File -> {None} \cup Stocked], disk : SUBSET Dir]
  /\ Rights \in [Session -> SUBSET {"read", "write"}]
  /\ Anonymous \subseteq Session
  /\ Order \in Seq(Entry) /\ \A e \in Entry : \E i \in 1 .. Len(Order) : Order[i] = e
  /\ PageSize \in Nat \ {0} /\ MaxSize \in Nat
  /\ MaxFaults \in Nat

VARIABLES
  folder,   \* folder objects in the bucket
  object,   \* file objects in the bucket
  stores,   \* uploads so far: the next version
  disk,     \* directories of the local tree
  cwd,      \* current directory of each session process
  gone,     \* sessions whose current directory has been removed
  pc,       \* the next step of the handler
  cmd,      \* the command: ftp_cmd_str and ftp_arg_str
  rest,     \* restart_pos
  ascii,    \* is_ascii
  spool,    \* directory part of the local path of an upload
  size,     \* info.file_size that RETR learned
  from,     \* the offset RETR started from
  sent,     \* blocks RETR sent to the client
  tries,    \* try_times of cos_get_list
  context,  \* context of the next page
  list,     \* the entries collected
  reply,    \* the last reply
  log,      \* a log entry is pending: log_type
  line,     \* what the log line of the last command says
  faults,   \* requests that went wrong
  script,   \* commands the client has still to send
  at,       \* directory of the argument when the command arrived (history)
  touched,  \* the object or its directory changed since (history)
  always,   \* entries of the directory at every moment since (history)
  ever,     \* entries of the directory at some moment since (history)
  cut,      \* the listing ended early (history)
  did       \* what the command has done to the bucket (history)

bucket == <<folder, object, stores>>
where == <<disk, cwd, gone>>
mode == <<rest, ascii>>
work == <<spool, size, from, sent, tries, context, list, cut>>
logs == <<log, line>>
history == <<at, touched, always, ever, did>>
vars == <<bucket, where, pc, cmd, mode, work, reply, logs, faults, script, history>>

Nothing == [op |-> "TYPE", dir |-> Here, name |-> None, pos |-> 0]

\* A folder without a folder object shows up while there are files in it.
HasFiles(o, d) == \E n \in Name : o[<<d, n>>] # None
Entries(o, f, d) ==
  {n \in Name : o[<<d, n>>] # None}
    \cup (IF d = Root THEN {e \in Dir : e \in f \/ HasFiles(o, e)} ELSE {})

\* What the requests of the SDK do to the bucket and learn from it.
FolderStat(d) == d \in folder \cup {Root}
FolderList(d) == Entries(object, folder, d)
FolderCreate(d) == folder' = folder \cup {d}
FolderDelete(d) == folder' = folder \ {d}
FileStat(f) == object[f] # None
FileDelete(f) == object' = [object EXCEPT ![f] = None]

Rank(e) == CHOOSE i \in 1 .. Len(Order) : Order[i] = e
Lowest(S, k) == {e \in S : Cardinality({x \in S : Rank(x) < Rank(e)}) < k}

Init ==
  /\ \E k \in Stocks : folder = k.folder /\ object = k.object /\ disk = k.disk
  /\ stores = 1
  /\ cwd = [s \in Session |-> Root] /\ gone = {}
  /\ pc = [s \in Session |-> "idle"] /\ cmd = [s \in Session |-> Nothing]
  /\ rest = [s \in Session |-> 0] /\ ascii = [s \in Session |-> FALSE]
  /\ spool = [s \in Session |-> Root]
  /\ size = [s \in Session |-> 0] /\ from = [s \in Session |-> 0]
  /\ sent = [s \in Session |-> <<>>]
  /\ tries = [s \in Session |-> 0] /\ context = [s \in Session |-> 0]
  /\ list = [s \in Session |-> {}] /\ cut = [s \in Session |-> FALSE]
  /\ reply = [s \in Session |-> "none"]
  /\ log = [s \in Session |-> FALSE] /\ line = [s \in Session |-> "none"]
  /\ faults = 0 /\ script \in Plans
  /\ at = [s \in Session |-> Root] /\ touched = [s \in Session |-> FALSE]
  /\ always = [s \in Session |-> {}] /\ ever = [s \in Session |-> {}]
  /\ did = [s \in Session |-> "nothing"]

-----------------------------------------------------------------------------
(* Where a name is, and whether it may be used.                            *)

\* getcwd() fails in a directory that has been removed, and what is put
\* before the name is then "/".
Resolve(s, d) == IF d # Here THEN d ELSE IF s \in gone THEN Root ELSE cwd[s]
Target(s) == <<Resolve(s, cmd[s].dir), cmd[s].name>>

\* Mutant: a name in a directory that is gone is not refused.
AdmittedAnywhere(s, c) == TRUE

\* vsf_access_session_check_file: the path must lie under the user root.
\* STOR hands over a path that is already complete, which always does.
Admitted(s, c) ==
  \/ c.op = "STOR"
  \/ c.op = "LIST" /\ c.dir = Here /\ c.name = None
  \/ c.dir # Here \/ s \notin gone

\* cmds_allowed and cmds_denied.
Listed(c) == c.op \notin Conf.denied

\* The tests before each handler in process_post_login.
May(s, c) ==
  /\ Listed(c)
  /\ c.op \in {"RETR", "LIST", "STAT", "SIZE"} => "read" \in Rights[s]
  /\ c.op = "RETR" => Conf.download
  /\ c.op \in {"LIST", "STAT"} => Conf.dirlist
  /\ c.op \in {"STOR", "MKD", "RMD", "DELE"} => Conf.write /\ "write" \in Rights[s]
  /\ s \in Anonymous =>
       /\ c.op = "STOR" => Conf.anonUpload
       /\ c.op = "MKD" => Conf.anonMkdir
       /\ c.op \in {"RMD", "DELE"} => Conf.anonOther

-----------------------------------------------------------------------------
(* The steps of a handler.                                                 *)

Go(s, l) == pc' = [pc EXCEPT ![s] = l] /\ UNCHANGED <<reply, logs>>
Fail(s) ==
  /\ pc' = [pc EXCEPT ![s] = "done"] /\ reply' = [reply EXCEPT ![s] = "fail"]
  /\ UNCHANGED logs
\* A reply of success; vsf_log_do_log(1) comes before it when an entry is pending.
Succeed(s) ==
  /\ pc' = [pc EXCEPT ![s] = "done"] /\ reply' = [reply EXCEPT ![s] = "ok"]
  /\ log' = [log EXCEPT ![s] = FALSE]
  /\ line' = IF log[s] THEN [line EXCEPT ![s] = "ok"] ELSE line

Answered == UNCHANGED faults
Fault == faults < MaxFaults /\ faults' = faults + 1

FirstStep(c) ==
  CASE c.op = "CWD" -> "cwd_stat" [] c.op = "MKD" -> "mkd" [] c.op = "RMD" -> "rmd_list"
    [] c.op = "DELE" -> "dele" [] c.op = "SIZE" -> "size" [] c.op = "RETR" -> "retr_stat"
    [] c.op = "LIST" -> (IF c.dir = Here /\ c.name = None THEN "page" ELSE "list_stat")
    [] c.op = "STAT" -> "stat_file" [] c.op = "STOR" -> "stor_open"

AnswerAt(s, answer) ==
  /\ pc' = [pc EXCEPT ![s] = "done"] /\ reply' = [reply EXCEPT ![s] = answer]
  /\ UNCHANGED log
Refused(s) == AnswerAt(s, "fail") /\ UNCHANGED mode
\* Commands that only get a reply: NOOP, STRU, MODE, FEAT, ...
Plain(s) == \E answer \in {"ok", "fail"} : AnswerAt(s, answer) /\ UNCHANGED mode
Type(s, c) == AnswerAt(s, "ok") /\ ascii' = [ascii EXCEPT ![s] = c.pos = 1] /\ UNCHANGED rest
Rest(s, c) == AnswerAt(s, "ok") /\ rest' = [rest EXCEPT ![s] = c.pos] /\ UNCHANGED ascii

\* The start of a handler: restart_pos is taken over, RETR refuses to resume in
\* ASCII mode, a log entry is begun (bug() when one is pending), and the name
\* is checked.
Logged == {"RETR", "STOR", "MKD", "RMD", "DELE"}
StartEntry(s) == log' = [log EXCEPT ![s] = TRUE]
Handle(s, c) ==
  /\ rest' = IF c.op \in {"RETR", "STOR"} THEN [rest EXCEPT ![s] = 0] ELSE rest
  /\ UNCHANGED ascii
  /\ LET resume == c.op = "RETR" /\ ascii[s] /\ rest[s] # 0
         entry == c.op \in Logged /\ ~resume
         ok == ~resume /\ Admitted(s, c)
     IN /\ IF entry THEN StartEntry(s) ELSE UNCHANGED log
        /\ pc' = [pc EXCEPT ![s] =
             IF entry /\ log[s] THEN "bug" ELSE IF ok THEN FirstStep(c) ELSE "done"]
        /\ reply' = [reply EXCEPT ![s] = IF ok THEN "none" ELSE "fail"]

\* The next command is read and its handler called, or it is answered at once.
Receive(s) ==
  LET c == Head(script[s]) IN
  /\ pc[s] = "idle" /\ script[s] # <<>>
  /\ script' = [script EXCEPT ![s] = Tail(@)]
  /\ cmd' = [cmd EXCEPT ![s] = c]
  /\ line' = [line EXCEPT ![s] = "none"]
  /\ from' = [from EXCEPT ![s] = rest[s]]
  /\ spool' = [spool EXCEPT ![s] = IF c.dir = Here /\ s \in gone THEN None ELSE Resolve(s, c.dir)]
  /\ tries' = [tries EXCEPT ![s] = 2]
  /\ UNCHANGED <<bucket, where, faults, size, sent, context, list, cut>>
  /\ \/ ~May(s, c) /\ Refused(s)
     \/ May(s, c) /\ c.op = "NOOP" /\ Plain(s)
     \/ May(s, c) /\ c.op = "TYPE" /\ Type(s, c)
     \/ May(s, c) /\ c.op = "REST" /\ Rest(s, c)
     \/ May(s, c) /\ c.op \notin {"NOOP", "TYPE", "REST"} /\ Handle(s, c)

\* Mutant: the pending entry is left for the next command.
EndOfCommandPending(s) ==
  /\ pc[s] = "done"
  /\ pc' = [pc EXCEPT ![s] = "idle"]
  /\ cmd' = [cmd EXCEPT ![s] = Nothing]
  /\ spool' = [spool EXCEPT ![s] = Root]
  /\ size' = [size EXCEPT ![s] = 0] /\ from' = [from EXCEPT ![s] = 0]
  /\ sent' = [sent EXCEPT ![s] = <<>>]
  /\ tries' = [tries EXCEPT ![s] = 0] /\ context' = [context EXCEPT ![s] = 0]
  /\ list' = [list EXCEPT ![s] = {}] /\ cut' = [cut EXCEPT ![s] = FALSE]
  /\ UNCHANGED <<bucket, where, mode, reply, logs, faults, script>>

\* The end of the command loop: a log entry that is still pending is a failure.
EndOfCommand(s) ==
  /\ pc[s] = "done"
  /\ pc' = [pc EXCEPT ![s] = "idle"]
  /\ cmd' = [cmd EXCEPT ![s] = Nothing]
  /\ log' = [log EXCEPT ![s] = FALSE]
  /\ line' = IF log[s] THEN [line EXCEPT ![s] = "fail"] ELSE line
  /\ spool' = [spool EXCEPT ![s] = Root]
  /\ size' = [size EXCEPT ![s] = 0] /\ from' = [from EXCEPT ![s] = 0]
  /\ sent' = [sent EXCEPT ![s] = <<>>]
  /\ tries' = [tries EXCEPT ![s] = 0] /\ context' = [context EXCEPT ![s] = 0]
  /\ list' = [list EXCEPT ![s] = {}] /\ cut' = [cut EXCEPT ![s] = FALSE]
  /\ UNCHANGED <<bucket, where, mode, reply, faults, script>>

\* The folder that the argument names, for COS.
IsFolder(s) == cmd[s].name = None /\ FolderStat(Resolve(s, cmd[s].dir))
Inside(s) == IF cmd[s].name = None THEN FolderList(Resolve(s, cmd[s].dir)) ELSE {}

\* cos_stat_dir: answered 0 or not.
StatDir(s, yes, no) ==
  /\ UNCHANGED <<bucket, where, cmd, mode, work, script>>
  /\ \/ Answered /\ IsFolder(s) /\ Go(s, yes)
     \/ Answered /\ ~IsFolder(s) /\ Go(s, no)
     \/ Fault /\ Go(s, no)

\* cos_isdir, second half: a folder that does not exist, but has files in it.
ListToTest(s, yes, no) ==
  /\ UNCHANGED <<bucket, where, cmd, mode, work, script>>
  /\ \/ Answered /\ Inside(s) # {} /\ Go(s, yes)
     \/ /\ (Answered /\ Inside(s) = {}) \/ Fault
        /\ IF no = "done" THEN Fail(s) ELSE Go(s, no)

(* CWD *)
CwdStat(s) == pc[s] = "cwd_stat" /\ StatDir(s, "chdir", "cwd_list")
CwdList(s) == pc[s] = "cwd_list" /\ ListToTest(s, "chdir", "done")

\* chdir() to the local directory.
Enter(s, d) == cwd' = [cwd EXCEPT ![s] = d] /\ gone' = gone \ {s} /\ UNCHANGED disk
Chdir(s) ==
  /\ pc[s] \in {"chdir", "chdir_again"}
  /\ UNCHANGED <<bucket, cmd, mode, work, faults, script>>
  /\ LET d == Resolve(s, cmd[s].dir)
     IN \/ d \in disk \cup {Root} /\ Enter(s, d) /\ Succeed(s)
        \/ /\ d \notin disk \cup {Root} /\ UNCHANGED where
           /\ IF pc[s] = "chdir" THEN Go(s, "mkdirs") ELSE Fail(s)

\* str_mkdirs: mkdir() fails when the directory is there by now.
Mkdirs(s) ==
  /\ pc[s] = "mkdirs"
  /\ UNCHANGED <<bucket, cwd, gone, cmd, mode, work, faults, script>>
  /\ LET d == Resolve(s, cmd[s].dir)
     IN \/ d \notin disk /\ disk' = disk \cup {d} /\ Go(s, "chdir_again")
        \/ d \in disk /\ UNCHANGED disk /\ Fail(s)

(* MKD *)
CosMkdir(s) ==
  LET d == cmd[s].dir IN
  \/ Answered /\ d \notin folder /\ FolderCreate(d) /\ Go(s, "mkd_disk")
  \/ Answered /\ d \in folder /\ UNCHANGED folder /\ Fail(s)
  \/ Fault /\ (UNCHANGED folder \/ FolderCreate(d)) /\ Fail(s)
Mkd(s) ==
  /\ pc[s] = "mkd" /\ CosMkdir(s)
  /\ UNCHANGED <<object, stores, where, cmd, mode, work, script>>
\* The result of the local mkdir() is not looked at.
MkdDisk(s) ==
  /\ pc[s] = "mkd_disk"
  /\ disk' = disk \cup {cmd[s].dir}
  /\ Succeed(s)
  /\ UNCHANGED <<bucket, cwd, gone, cmd, mode, work, faults, script>>

(* RMD *)
\* Mutant: only a folder that COS cannot list is refused.
RmdListAny(s) ==
  /\ pc[s] = "rmd_list"
  /\ UNCHANGED <<bucket, where, cmd, mode, work, script>>
  /\ (Answered /\ Go(s, "rmd")) \/ (Fault /\ Fail(s))

RmdList(s) ==
  /\ pc[s] = "rmd_list"
  /\ UNCHANGED <<bucket, where, cmd, mode, work, script>>
  /\ \/ Answered /\ FolderList(cmd[s].dir) = {} /\ Go(s, "rmd")
     \/ Answered /\ FolderList(cmd[s].dir) # {} /\ Fail(s)
     \/ Fault /\ Fail(s)
\* COS may refuse a folder that has files, or delete just the folder object.
CosRmdir(s) ==
  LET d == cmd[s].dir IN
  \/ Answered /\ d \in folder /\ FolderDelete(d) /\ Go(s, "rmd_disk")
  \/ Answered /\ d \in folder /\ HasFiles(object, d) /\ UNCHANGED folder /\ Fail(s)
  \/ Answered /\ d \notin folder /\ UNCHANGED folder /\ Fail(s)
  \/ Fault /\ (UNCHANGED folder \/ FolderDelete(d)) /\ Fail(s)
Rmd(s) ==
  /\ pc[s] = "rmd" /\ CosRmdir(s)
  /\ UNCHANGED <<object, stores, where, cmd, mode, work, script>>
\* rmdir() fails on a directory with a spool file in it; the result is not
\* looked at.  Sessions whose current directory it is keep the removed one.
Spooling(d) == \E t \in Session : pc[t] = "stor_send" /\ spool[t] = d
RmdDisk(s) ==
  /\ pc[s] = "rmd_disk"
  /\ LET d == cmd[s].dir
     IN \/ /\ ~Spooling(d)
           /\ disk' = disk \ {d}
           /\ gone' = gone \cup {t \in Session : d \in disk /\ cwd[t] = d}
        \/ Spooling(d) /\ UNCHANGED <<disk, gone>>
  /\ Succeed(s)
  /\ UNCHANGED <<bucket, cwd, cmd, mode, work, faults, script>>

(* DELE, SIZE *)
\* Mutant: an object that does not exist counts as deleted.
CosUnlinkLax(s) ==
  LET f == Target(s) IN
  \/ Answered /\ FileDelete(f) /\ Succeed(s)
  \/ Fault /\ (UNCHANGED object \/ FileDelete(f)) /\ Fail(s)

CosUnlink(s) ==
  LET f == Target(s) IN
  \/ Answered /\ object[f] # None /\ FileDelete(f) /\ Succeed(s)
  \/ Answered /\ object[f] = None /\ UNCHANGED object /\ Fail(s)
  \/ Fault /\ (UNCHANGED object \/ FileDelete(f)) /\ Fail(s)
Dele(s) ==
  /\ pc[s] = "dele" /\ CosUnlink(s)
  /\ UNCHANGED <<folder, stores, where, cmd, mode, work, script>>

Size(s) ==
  /\ pc[s] = "size"
  /\ UNCHANGED <<bucket, where, cmd, mode, work, script>>
  /\ \/ Answered /\ FileStat(Target(s)) /\ Succeed(s)
     \/ Answered /\ ~FileStat(Target(s)) /\ Fail(s)
     \/ Fault /\ Fail(s)

(* RETR *)
RetrStat(s) ==
  /\ pc[s] = "retr_stat"
  /\ UNCHANGED <<bucket, where, cmd, mode, spool, from, sent, tries, context, list, cut, script>>
  /\ LET o == object[Target(s)]
     IN \/ Answered /\ FileStat(Target(s)) /\ size' = [size EXCEPT ![s] = o.size] /\ Go(s, "retr")
        \/ Answered /\ ~FileStat(Target(s)) /\ UNCHANGED size /\ Fail(s)
        \/ Fault /\ UNCHANGED size /\ Fail(s)

\* Mutant: a range that cannot be read ends the file.
RetrShort(s) ==
  /\ pc[s] = "retr"
  /\ UNCHANGED <<bucket, where, cmd, mode, spool, size, from, tries, context, list, cut, script>>
  /\ LET o == object[Target(s)]
         next == from[s] + Len(sent[s])
     IN \/ /\ next < size[s] /\ o # None /\ Answered /\ next < o.size
           /\ sent' = [sent EXCEPT ![s] = Append(@, <<o.ver, next>>)] /\ Go(s, "retr")
        \/ Fault /\ UNCHANGED sent /\ Succeed(s)
        \/ next >= size[s] /\ Answered /\ UNCHANGED sent /\ Succeed(s)
\* Mutant: nothing read means that it has to be asked for again.
RetrAgain(s) ==
  /\ pc[s] = "retr"
  /\ UNCHANGED <<bucket, where, cmd, mode, spool, size, from, tries, context, list, cut, script>>
  /\ LET o == object[Target(s)]
         next == from[s] + Len(sent[s])
     IN \/ next >= size[s] /\ Answered /\ UNCHANGED sent /\ Succeed(s)
        \/ /\ next < size[s] /\ o # None /\ Answered
           /\ \/ /\ next < o.size
                 /\ sent' = [sent EXCEPT ![s] = Append(@, <<o.ver, next>>)]
                 /\ Go(s, "retr")
              \/ next >= o.size /\ UNCHANGED sent /\ Go(s, "retr")
        \/ next < size[s] /\ Fault /\ UNCHANGED sent /\ Fail(s)

\* One turn of do_file_send_rwloop: the next range of the object as it is now,
\* asked for twice at most, and its write to the client.  A range past the end
\* of the object is an error, except for an empty object, which COS may send
\* whole.
Retr(s) ==
  /\ pc[s] = "retr"
  /\ UNCHANGED <<bucket, where, cmd, mode, spool, size, from, tries, context, list, cut, script>>
  /\ LET o == object[Target(s)]
         next == from[s] + Len(sent[s])
     IN \/ next >= size[s] /\ Answered /\ UNCHANGED sent /\ Succeed(s)
        \/ /\ next < size[s] /\ o # None /\ Answered
           /\ \/ /\ next < o.size
                 /\ sent' = [sent EXCEPT ![s] = Append(@, <<o.ver, next>>)]
                 /\ Go(s, "retr")
              \/ next < o.size /\ UNCHANGED sent /\ Fail(s)    \* the client is gone
              \/ o.size = 0 /\ UNCHANGED sent /\ Succeed(s)
              \/ next >= o.size /\ UNCHANGED sent /\ Fail(s)
        \/ next < size[s] /\ o = None /\ Answered /\ UNCHANGED sent /\ Fail(s)
        \/ next < size[s] /\ Fault /\ UNCHANGED sent /\ Fail(s)

(* LIST, NLST, STAT *)
ListStat(s) == pc[s] = "list_stat" /\ StatDir(s, "page", "list_test")
ListTest(s) == pc[s] = "list_test" /\ ListToTest(s, "page", "list_file")

\* The argument is no directory: it is a file, or the listing is empty.
Single(s) ==
  /\ pc[s] \in {"list_file", "stat_file"}
  /\ UNCHANGED <<bucket, where, cmd, mode, spool, size, from, sent, tries, context, cut, script>>
  /\ LET hit == cmd[s].name # None /\ FileStat(Target(s))
     IN \/ /\ Answered /\ hit
           /\ list' = [list EXCEPT ![s] = {cmd[s].name}] /\ Go(s, "send")
        \/ /\ (Answered /\ ~hit) \/ Fault
           /\ UNCHANGED list /\ Go(s, IF pc[s] = "stat_file" THEN "stat_dir" ELSE "send")
StatFolder(s) ==
  /\ pc[s] = "stat_dir"
  /\ UNCHANGED <<bucket, where, cmd, mode, spool, size, from, sent, tries, context, cut, script>>
  /\ \/ Answered /\ IsFolder(s) /\ list' = [list EXCEPT ![s] = {Resolve(s, cmd[s].dir)}]
     \/ ((Answered /\ ~IsFolder(s)) \/ Fault) /\ UNCHANGED list
  /\ Go(s, "send")

\* cos_get_list: one page.  try_times counts the failures of all pages, and
\* what has been collected when it is used up is the listing.
Page(s) ==
  /\ pc[s] = "page"
  /\ UNCHANGED <<bucket, where, cmd, mode, spool, size, from, sent, script>>
  /\ LET later == {e \in Inside(s) : Rank(e) > context[s]}
         infos == Lowest(later, PageSize)
         room == Conf.listMax - Cardinality(list[s])
         full == Conf.listMax > 0 /\ Cardinality(infos) >= room
         over == infos = later
     IN \/ /\ Answered
           /\ list' = [list EXCEPT ![s] = @ \cup (IF full THEN Lowest(infos, room) ELSE infos)]
           /\ cut' = [cut EXCEPT ![s] = full]
           /\ context' = [context EXCEPT ![s] =
                IF infos = {} THEN @ ELSE CHOOSE i \in {Rank(e) : e \in infos} : \A e \in infos : Rank(e) <= i]
           /\ UNCHANGED tries
           /\ Go(s, IF full \/ over THEN "send" ELSE "page")
        \/ /\ Fault
           /\ tries' = [tries EXCEPT ![s] = @ - 1]
           /\ cut' = [cut EXCEPT ![s] = tries[s] = 1]
           /\ UNCHANGED <<list, context>>
           /\ Go(s, IF tries[s] = 1 THEN "send" ELSE "page")

\* write_dir_list, over the data connection or, for STAT, the control one.
Send(s) ==
  /\ pc[s] = "send"
  /\ UNCHANGED <<bucket, where, cmd, mode, work, faults, script>>
  /\ Succeed(s) \/ (cmd[s].op = "LIST" /\ Fail(s))

(* STOR *)
\* open() of the spool file; outside the user root (None) it may be possible.
StorOpen(s) ==
  /\ pc[s] = "stor_open"
  /\ UNCHANGED <<bucket, where, cmd, mode, work, faults, script>>
  /\ \/ spool[s] \in disk \cup {Root, None} /\ Go(s, "stor_send")
     \/ spool[s] \notin disk \cup {Root} /\ Fail(s)

\* The upload to COS, which a failure may leave as it was, new or deleted; a
\* client that goes away in the middle ends it before COS is asked.
StorSend(s) ==
  /\ pc[s] = "stor_send"
  /\ UNCHANGED <<folder, where, cmd, mode, work, script>>
  /\ LET f == Target(s)
     IN \/ /\ Answered /\ stores' = stores + 1
           /\ \E z \in 0 .. MaxSize : object' = [object EXCEPT ![f] = [ver |-> stores, size |-> z]]
           /\ Succeed(s)
        \/ /\ Fault /\ stores' = stores + 1
           /\ object' \in {object, [object EXCEPT ![f] = None]}
                 \cup {[object EXCEPT ![f] = [ver |-> stores, size |-> z]] : z \in 0 .. MaxSize}
           /\ Fail(s)
        \/ Answered /\ UNCHANGED <<object, stores>> /\ Fail(s)

-----------------------------------------------------------------------------
(* What is remembered of a command while it runs, for the properties.      *)

Watch ==
  /\ at' = [s \in Session |->
       IF pc'[s] = "idle" THEN Root
       ELSE IF pc[s] # "idle" THEN at[s]
       ELSE IF cmd'[s].dir # Here THEN cmd'[s].dir ELSE IF s \in gone THEN None ELSE cwd[s]]
  /\ touched' = [s \in Session |->
       /\ pc'[s] # "idle" /\ pc[s] # "idle"
       /\ \/ touched[s]
          \/ cmd[s].dir = Here /\ s \in gone'
          \/ at[s] # None /\ cmd[s].name # None
               /\ object'[<<at[s], cmd[s].name>>] # object[<<at[s], cmd[s].name>>]]
  /\ LET now(s) == IF at'[s] = None THEN {} ELSE Entries(object', folder', at'[s])
     IN /\ always' = [s \in Session |->
             IF cmd'[s].op \notin {"LIST", "RMD"} THEN {}
             ELSE IF pc[s] = "idle" THEN now(s) ELSE always[s] \cap now(s)]
        /\ ever' = [s \in Session |->
             IF cmd'[s].op \notin {"LIST", "RMD"} THEN {}
             ELSE IF pc[s] = "idle" THEN now(s) ELSE ever[s] \cup now(s)]
  /\ did' = [s \in Session |->
       IF pc'[s] = "idle" THEN "nothing"
       ELSE IF pc'[s] = pc[s] \/ <<folder', object'>> = <<folder, object>> THEN did[s]
       ELSE IF cmd[s].op = "STOR" /\ \E f \in File : object[f] # None /\ object'[f] = None
            THEN "spoilt" ELSE "done"]

Step(s) ==
  \/ EndOfCommand(s)
  \/ CwdStat(s) \/ CwdList(s) \/ Chdir(s) \/ Mkdirs(s)
  \/ Mkd(s) \/ MkdDisk(s)
  \/ RmdList(s) \/ Rmd(s) \/ RmdDisk(s)
  \/ Dele(s) \/ Size(s)
  \/ RetrStat(s) \/ Retr(s)
  \/ ListStat(s) \/ ListTest(s) \/ Single(s) \/ StatFolder(s) \/ Page(s) \/ Send(s)
  \/ StorOpen(s) \/ StorSend(s)

Next ==
  /\ \E s \in Session : Step(s) \/ Receive(s)
  /\ Watch

Spec == Init /\ [][Next]_vars
FairSpec == Spec /\ \A s \in Session : WF_vars(Step(s) /\ Watch)

-----------------------------------------------------------------------------
(* The values of the variables.                                            *)
Labels == {"idle", "done", "bug", "cwd_stat", "cwd_list", "chdir", "mkdirs", "chdir_again",
           "mkd", "mkd_disk", "rmd_list", "rmd", "rmd_disk", "dele", "size", "retr_stat",
           "retr", "list_stat", "list_test", "list_file", "page", "send", "stat_file",
           "stat_dir", "stor_open", "stor_send"}
Values ==
  /\ folder \subseteq Dir /\ object \in [File -> {None} \cup Object] /\ stores \in Nat
  /\ disk \subseteq Dir /\ cwd \in [Session -> Place] /\ gone \subseteq Session
  /\ pc \in [Session -> Labels] /\ cmd \in [Session -> Command]
  /\ rest \in [Session -> Nat] /\ ascii \in [Session -> BOOLEAN]
  /\ spool \in [Session -> Place \cup {None}]
  /\ size \in [Session -> 0 .. MaxSize] /\ from \in [Session -> Nat]
  /\ sent \in [Session -> Seq(Nat \X Nat)]
  /\ tries \in [Session -> 0 .. 2] /\ context \in [Session -> 0 .. Len(Order)]
  /\ list \in [Session -> SUBSET (Entry \cup Place)] /\ cut \in [Session -> BOOLEAN]
  /\ reply \in [Session -> {"none", "ok", "fail"}]
  /\ log \in [Session -> BOOLEAN] /\ line \in [Session -> {"none", "ok", "fail"}]
  /\ faults \in 0 .. MaxFaults /\ script \in [Session -> Seq(Command)]
Memories ==
  /\ at \in [Session -> Place \cup {None}] /\ touched \in [Session -> BOOLEAN]
  /\ always \in [Session -> SUBSET Entry] /\ ever \in [Session -> SUBSET Entry]
  /\ did \in [Session -> {"nothing", "done", "spoilt"}]
TypeOK == Values /\ Memories

(* Every log entry that is begun is ended by the command that began it, so *)
(* that bug("non null log_type") is never reached, and the line says what  *)
(* the client was told.                                                    *)
LogTells ==
  \A s \in Session :
    /\ pc[s] # "bug"
    /\ pc[s] = "idle" => ~log[s] /\ line[s] \in {"none", reply[s]}

(* The books of a session are in order: its state is well formed, and what *)
(* was logged is what was told.                                            *)
Accounted == TypeOK /\ LogTells

(* The blocks a download sends are in order and without a gap from the     *)
(* restart position, each from the object as it was when its range was     *)
(* asked for.  A download that is reported complete, of an object that     *)
(* nobody replaced or removed meanwhile, has sent all of that one object.  *)
Delivered ==
  \A s \in Session : pc[s] \in {"retr", "done"} /\ cmd[s].op = "RETR" =>
    /\ \A i \in 1 .. Len(sent[s]) : sent[s][i][2] = from[s] + i - 1
    /\ pc[s] = "done" /\ reply[s] = "ok" /\ ~touched[s] =>
         /\ \A i \in 1 .. Len(sent[s]) : sent[s][i][1] = object[<<at[s], cmd[s].name>>].ver
         /\ from[s] + Len(sent[s]) >= object[<<at[s], cmd[s].name>>].size
         /\ Len(sent[s]) <= object[<<at[s], cmd[s].name>>].size

(* A listing of a directory names nothing that was not in it while the     *)
(* listing was made; one that was neither cut at list_max_count nor by two *)
(* failed requests names everything that was in it all the time, over all  *)
(* pages, whatever other sessions do between them.                         *)
ListingTells ==
  \A s \in Session :
    pc[s] = "send" /\ cmd[s].op = "LIST" /\ cmd[s].name = None /\ at[s] # None /\ ~touched[s] =>
      /\ list[s] \subseteq ever[s]
      /\ context[s] > 0 /\ ~cut[s] => always[s] \subseteq list[s]

(* What a session reads of the bucket is what is there, although it takes  *)
(* several requests and other sessions change the bucket between them:     *)
(* the object of a RETR, and the entries of a LIST.                        *)
ReadsTell == Delivered /\ ListingTells

(* RMD asks COS whether the directory is empty and removes it in a second  *)
(* request.  One that succeeds has not removed a directory that had the    *)
(* same entry from its arrival to its end.                                 *)
RemovedWasEmpty ==
  \A s \in Session : pc[s] = "done" /\ cmd[s].op = "RMD" /\ reply[s] = "ok" => always[s] = {}

(* DELE removes the object that its argument names in the current          *)
(* directory.  It acts in the root instead only when another session       *)
(* removes that directory after DELE has passed the access check.          *)
DeletesWhereTold(s) ==
  pc[s] = "dele" /\ pc'[s] # "dele" /\ object' # object =>
    /\ at[s] # None
    /\ s \notin gone => object' = [object EXCEPT ![<<at[s], cmd[s].name>>] = None]

(* The bucket is changed only in steps of sessions that are logged in with *)
(* the write permission, and by anonymous ones only where the options      *)
(* allow that command.                                                     *)
WritersOnly(s) ==
  pc'[s] # pc[s] /\ <<folder', object'>> # <<folder, object>> =>
    /\ Conf.write /\ "write" \in Rights[s]
    /\ s \in Anonymous => Conf.anonOther \/ cmd[s].op \in {"STOR", "MKD"}

(* A change of the bucket is one that the client may make and, for DELE,   *)
(* where the client said.                                                  *)
ChangesAsTold == [][\A s \in Session : DeletesWhereTold(s) /\ WritersOnly(s)]_vars

(* Every command is answered.                                              *)
CommandEnds == \A s \in Session : pc[s] # "idle" ~> pc[s] = "idle"

(* The bucket as a whole keeps the promise of Catalogue: one change per    *)
(* command, of its kind, and behind every reply of success.                *)
Promise == INSTANCE Catalogue WITH
  Version <- Object,
  folders <- folder, objects <- object,
  doing <- [s \in Session |->
             IF pc[s] = "idle" THEN "none"
             ELSE IF cmd[s].op \in {"MKD", "RMD", "DELE", "STOR"} THEN cmd[s].op ELSE "other"],
  told <- [s \in Session |-> IF pc[s] = "idle" THEN reply[s] ELSE "none"]
ImplementsCatalogue == Promise!Spec
=============================================================================
