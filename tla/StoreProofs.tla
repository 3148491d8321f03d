---------------------------- MODULE StoreProofs ----------------------------
(***************************************************************************)
(* The commands of module Store, for every number of sessions, names and   *)
(* directories, and every sequence of commands that they send.             *)
(***************************************************************************)
EXTENDS Store, TLAPS

\* The steps are about sets and functions, save where arithmetic is named SMT.
USE ZenonT(60)

\* The steps that a handler has.
Runs(op, l) ==
  \/ op = "CWD" /\ l \in {"cwd_stat", "cwd_list", "chdir", "mkdirs", "chdir_again"}
  \/ op = "MKD" /\ l \in {"mkd", "mkd_disk"}
  \/ op = "RMD" /\ l \in {"rmd_list", "rmd", "rmd_disk"}
  \/ op = "DELE" /\ l = "dele"
  \/ op = "SIZE" /\ l = "size"
  \/ op = "RETR" /\ l \in {"retr_stat", "retr"}
  \/ op = "LIST" /\ l \in {"list_stat", "list_test", "list_file", "page", "send"}
  \/ op = "STAT" /\ l \in {"stat_file", "stat_dir", "send"}
  \/ op = "STOR" /\ l \in {"stor_open", "stor_send"}

\* The command of a session: how far it is, and its log entry.
Course(s) ==
  /\ pc[s] = "idle" => /\ ~log[s] /\ line[s] \in {"none", reply[s]} /\ did[s] = "nothing"
                       /\ list[s] = {} /\ ~cut[s] /\ sent[s] = <<>> /\ context[s] = 0
  /\ pc[s] = "done" => /\ reply[s] \in {"ok", "fail"} /\ line[s] \in {"none", reply[s]}
                       /\ log[s] => reply[s] = "fail"
  /\ pc[s] \notin {"idle", "done"} => /\ Runs(cmd[s].op, pc[s]) /\ May(s, cmd[s])
                                      /\ reply[s] = "none" /\ line[s] = "none"
  /\ pc[s] = "mkdirs" => cmd[s].dir \in Dir
  /\ pc[s] \in {"list_stat", "list_test", "page"} => tries[s] \in 1 .. 2

Succeeding(s) == pc[s] \notin {"idle", "done"} \/ (pc[s] = "done" /\ reply[s] = "ok")

\* Where the argument of the command is.
Whereabouts(s) ==
  /\ s \notin gone => cwd[s] \in disk \cup {Root}
  /\ pc[s] # "idle" /\ cmd[s].dir # Here => at[s] = cmd[s].dir
  /\ pc[s] # "idle" /\ cmd[s].op # "CWD" /\ cmd[s].dir = Here /\ at[s] # None =>
       at[s] = cwd[s] /\ (s \in gone => touched[s])
  /\ cmd[s].op \in {"DELE", "RETR"} /\ Succeeding(s) => at[s] # None

\* What is remembered of a directory while it is listed or removed.
Remembered(s) ==
  pc[s] # "idle" /\ cmd[s].op \in {"LIST", "RMD"} /\ at[s] # None =>
    always[s] \subseteq Entries(object, folder, at[s]) /\ Entries(object, folder, at[s]) \subseteq ever[s]

\* A listing has all entries up to its context that were there all the time.
Listing(s) ==
  /\ pc[s] \in {"list_stat", "list_test", "list_file"} => list[s] = {} /\ context[s] = 0 /\ ~cut[s]
  /\ cmd[s].op = "LIST" /\ cmd[s].name = None /\ at[s] # None /\ ~touched[s] =>
       /\ pc[s] \in {"page", "send"} => list[s] \subseteq ever[s]
       /\ pc[s] = "page" => \A e \in always[s] : Rank(e) <= context[s] => e \in list[s]
       /\ pc[s] = "send" /\ context[s] > 0 /\ ~cut[s] => always[s] \subseteq list[s]

\* A download sends the blocks of the object it asked about.
File1(s) == object[<<at[s], cmd[s].name>>]
Reading(s) ==
  cmd[s].op = "RETR" =>
    /\ pc[s] = "retr_stat" => sent[s] = <<>>
    /\ pc[s] # "idle" => \A i \in 1 .. Len(sent[s]) : sent[s][i][2] = from[s] + i - 1
    /\ pc[s] = "retr" => /\ sent[s] = <<>> \/ from[s] + Len(sent[s]) <= size[s]
                         /\ ~touched[s] => File1(s) # None /\ size[s] = File1(s).size
    /\ ~touched[s] /\ (pc[s] = "retr" \/ (pc[s] = "done" /\ reply[s] = "ok")) =>
         \A i \in 1 .. Len(sent[s]) : sent[s][i][1] = File1(s).ver
    /\ pc[s] = "done" /\ reply[s] = "ok" /\ ~touched[s] =>
         from[s] + Len(sent[s]) >= File1(s).size /\ Len(sent[s]) <= File1(s).size

Removing(s) ==
  cmd[s].op = "RMD" /\ Succeeding(s) /\ pc[s] # "rmd_list" => always[s] = {}

\* A command changes the bucket once, before it succeeds.
Writers == {"MKD", "RMD", "DELE", "STOR"}
Changing(s) ==
  /\ pc[s] \in {"mkd", "rmd_list", "rmd", "dele", "stor_open", "stor_send"} => did[s] = "nothing"
  /\ pc[s] \in {"mkd_disk", "rmd_disk"} => did[s] = "done"
  /\ pc[s] = "done" /\ reply[s] = "ok" /\ cmd[s].op \in Writers => did[s] = "done"

Versions == \A f \in File : object[f] # None => object[f].ver < stores

Ordered(s) == /\ Course(s) /\ Whereabouts(s) /\ Remembered(s) /\ Listing(s) /\ Reading(s)
              /\ Removing(s) /\ Changing(s)
IInv == TypeOK /\ Versions /\ \A s \in Session : Ordered(s)

-----------------------------------------------------------------------------
(***************************************************************************)
(* How a step ends.                                                        *)
(***************************************************************************)
Replies == {"none", "ok", "fail"}
GoneTo(s, l) == pc'[s] = l /\ reply'[s] = reply[s] /\ log'[s] = log[s] /\ line'[s] = line[s]
HasFailed(s) == pc'[s] = "done" /\ reply'[s] = "fail" /\ log'[s] = log[s] /\ line'[s] = line[s]
HasSucceeded(s) == /\ pc'[s] = "done" /\ reply'[s] = "ok" /\ log'[s] = FALSE
                   /\ line'[s] = IF log[s] THEN "ok" ELSE line[s]

Reported(s) ==
  /\ pc' \in [Session -> Labels] /\ reply' \in [Session -> Replies]
  /\ log' \in [Session -> BOOLEAN] /\ line' \in [Session -> Replies]
  /\ \A t \in Session : t # s => /\ pc'[t] = pc[t] /\ reply'[t] = reply[t]
                                 /\ log'[t] = log[t] /\ line'[t] = line[t]

LEMMA GoEffect ==
  ASSUME Values, NEW s \in Session, NEW l \in Labels, Go(s, l)
  PROVE  GoneTo(s, l) /\ Reported(s)
<1>1. pc' = [pc EXCEPT ![s] = l] /\ reply' = reply /\ log' = log /\ line' = line
  BY DEF Go, logs
<1>2. pc \in [Session -> Labels] /\ reply \in [Session -> Replies]
      /\ log \in [Session -> BOOLEAN] /\ line \in [Session -> Replies]
  BY DEF Values, Replies
<1>. QED
  BY <1>1, <1>2 DEF GoneTo, Reported

LEMMA FailEffect ==
  ASSUME Values, NEW s \in Session, Fail(s)
  PROVE  HasFailed(s) /\ Reported(s)
<1>1. pc' = [pc EXCEPT ![s] = "done"] /\ reply' = [reply EXCEPT ![s] = "fail"] /\ log' = log /\ line' = line
  BY DEF Fail, logs
<1>2. pc \in [Session -> Labels] /\ reply \in [Session -> Replies] /\ "done" \in Labels /\ "fail" \in Replies
      /\ log \in [Session -> BOOLEAN] /\ line \in [Session -> Replies]
  BY DEF Values, Replies, Labels
<1>. QED
  BY <1>1, <1>2 DEF HasFailed, Reported

LEMMA SucceedEffect ==
  ASSUME Values, NEW s \in Session, Succeed(s)
  PROVE  HasSucceeded(s) /\ Reported(s)
<1>1. /\ pc' = [pc EXCEPT ![s] = "done"] /\ reply' = [reply EXCEPT ![s] = "ok"]
      /\ log' = [log EXCEPT ![s] = FALSE]
      /\ line' = IF log[s] THEN [line EXCEPT ![s] = "ok"] ELSE line
  BY DEF Succeed
<1>2. pc \in [Session -> Labels] /\ reply \in [Session -> Replies] /\ "done" \in Labels /\ "ok" \in Replies
      /\ log \in [Session -> BOOLEAN] /\ line \in [Session -> Replies]
  BY DEF Values, Replies, Labels
<1>3. pc' \in [Session -> Labels] /\ reply' \in [Session -> Replies] /\ log' \in [Session -> BOOLEAN]
  BY <1>1, <1>2
<1>4. line' \in [Session -> Replies]
  BY <1>1, <1>2
<1>5. \A t \in Session : t # s => /\ pc'[t] = pc[t] /\ reply'[t] = reply[t]
                                 /\ log'[t] = log[t] /\ line'[t] = line[t]
  BY <1>1, <1>2
<1>6. HasSucceeded(s)
  BY <1>1, <1>2 DEF HasSucceeded
<1>. QED
  BY <1>3, <1>4, <1>5, <1>6 DEF Reported

-----------------------------------------------------------------------------
(***************************************************************************)
(* What is remembered.                                                     *)
(***************************************************************************)
Argument(s, c) == IF c.dir # Here THEN c.dir ELSE IF s \in gone THEN None ELSE cwd[s]
Spot(s) == <<at[s], cmd[s].name>>
Disturbed(s) ==
  \/ cmd[s].dir = Here /\ s \in gone'
  \/ at[s] # None /\ cmd[s].name # None /\ object'[Spot(s)] # object[Spot(s)]
Seen(o, f, d) == IF d = None THEN {} ELSE Entries(o, f, d)
Changed == <<folder', object'>> # <<folder, object>>
Effect(s) == IF cmd[s].op = "STOR" /\ \E f \in File : object[f] # None /\ object'[f] = None
             THEN "spoilt" ELSE "done"

LEMMA Watched ==
  ASSUME Watch, NEW t \in Session
  PROVE  /\ at'[t] = IF pc'[t] = "idle" THEN Root ELSE IF pc[t] # "idle" THEN at[t] ELSE Argument(t, cmd'[t])
         /\ touched'[t] = (pc'[t] # "idle" /\ pc[t] # "idle" /\ (touched[t] \/ Disturbed(t)))
         /\ always'[t] = IF cmd'[t].op \notin {"LIST", "RMD"} THEN {}
                         ELSE IF pc[t] = "idle" THEN Seen(object', folder', at'[t])
                         ELSE always[t] \cap Seen(object', folder', at'[t])
         /\ ever'[t] = IF cmd'[t].op \notin {"LIST", "RMD"} THEN {}
                       ELSE IF pc[t] = "idle" THEN Seen(object', folder', at'[t])
                       ELSE ever[t] \cup Seen(object', folder', at'[t])
         /\ did'[t] = IF pc'[t] = "idle" THEN "nothing"
                      ELSE IF pc'[t] = pc[t] \/ ~Changed THEN did[t] ELSE Effect(t)
<1>1. at'[t] = IF pc'[t] = "idle" THEN Root ELSE IF pc[t] # "idle" THEN at[t] ELSE Argument(t, cmd'[t])
  BY DEF Watch, Argument
<1>2. touched'[t] = (pc'[t] # "idle" /\ pc[t] # "idle" /\ (touched[t] \/ Disturbed(t)))
  BY DEF Watch, Disturbed, Spot
<1>3. always'[t] = IF cmd'[t].op \notin {"LIST", "RMD"} THEN {}
                   ELSE IF pc[t] = "idle" THEN Seen(object', folder', at'[t])
                   ELSE always[t] \cap Seen(object', folder', at'[t])
  BY DEF Watch, Seen
<1>4. ever'[t] = IF cmd'[t].op \notin {"LIST", "RMD"} THEN {}
                 ELSE IF pc[t] = "idle" THEN Seen(object', folder', at'[t])
                 ELSE ever[t] \cup Seen(object', folder', at'[t])
  BY DEF Watch, Seen
<1>5. did'[t] = IF pc'[t] = "idle" THEN "nothing"
                ELSE IF pc'[t] = pc[t] \/ ~Changed THEN did[t] ELSE Effect(t)
  BY DEF Watch, Changed, Effect
<1>. QED
  BY <1>1, <1>2, <1>3, <1>4, <1>5

LEMMA EntriesType ==
  ASSUME NEW o, NEW f, NEW d PROVE Entries(o, f, d) \subseteq Entry
BY DEF Entries, Entry

\* The history variables have their values.
LEMMA MemoriesNext ==
  ASSUME TypeOK, Watch, cmd' \in [Session -> Command] PROVE Memories'
<1>1. at' \in [Session -> Place \cup {None}]
  <2>1. at' = [t \in Session |-> at'[t]]
    BY DEF Watch
  <2>2. ASSUME NEW t \in Session PROVE at'[t] \in Place \cup {None}
    <3>1. at[t] \in Place \cup {None} /\ Root \in Place /\ cwd[t] \in Place
          /\ cmd'[t].dir \in Place \cup {Here}
      BY DEF TypeOK, Values, Memories, Place, Command
    <3>2. at'[t] = IF pc'[t] = "idle" THEN Root ELSE IF pc[t] # "idle" THEN at[t] ELSE Argument(t, cmd'[t])
      BY Watched
    <3>. QED
      BY <3>1, <3>2 DEF Argument
  <2>. QED
    BY <2>1, <2>2
<1>2. touched' \in [Session -> BOOLEAN]
  BY DEF Watch
<1>3. always' \in [Session -> SUBSET Entry] /\ ever' \in [Session -> SUBSET Entry]
  <2>1. always' = [t \in Session |-> always'[t]] /\ ever' = [t \in Session |-> ever'[t]]
    BY DEF Watch
  <2>2. ASSUME NEW t \in Session PROVE always'[t] \subseteq Entry /\ ever'[t] \subseteq Entry
    <3>1. always[t] \subseteq Entry /\ ever[t] \subseteq Entry
      BY DEF TypeOK, Memories
    <3>2. Seen(object', folder', at'[t]) \subseteq Entry
      BY EntriesType DEF Seen
    <3>. QED
      BY <3>1, <3>2, Watched
  <2>. QED
    BY <2>1, <2>2
<1>4. did' \in [Session -> {"nothing", "done", "spoilt"}]
  <2>1. did' = [t \in Session |-> did'[t]]
    BY DEF Watch
  <2>2. ASSUME NEW t \in Session PROVE did'[t] \in {"nothing", "done", "spoilt"}
    <3>1. did[t] \in {"nothing", "done", "spoilt"} /\ Effect(t) \in {"spoilt", "done"}
      BY DEF TypeOK, Memories, Effect
    <3>. QED
      BY <3>1, Watched
  <2>. QED
    BY <2>1, <2>2
<1>. QED
  BY <1>1, <1>2, <1>3, <1>4 DEF Memories

-----------------------------------------------------------------------------
(***************************************************************************)
(* A step of a session changes its own variables and the shared ones, and  *)
(* leaves them with values of theirs.                                      *)
(***************************************************************************)
Still(t) ==
  /\ pc'[t] = pc[t] /\ reply'[t] = reply[t] /\ log'[t] = log[t] /\ line'[t] = line[t]
  /\ cmd'[t] = cmd[t] /\ cwd'[t] = cwd[t] /\ size'[t] = size[t] /\ from'[t] = from[t] /\ sent'[t] = sent[t]
  /\ tries'[t] = tries[t] /\ context'[t] = context[t] /\ list'[t] = list[t] /\ cut'[t] = cut[t]
Local(s) == \A t \in Session : t # s => Still(t)

\* The variables that only the start and the end of a command change.
Fixed == UNCHANGED <<cmd, rest, ascii, script, spool, from>>

LEMMA FaultsType == Values /\ (Answered \/ Fault) => faults' \in 0 .. MaxFaults
BY StoreAssumption, SMT DEF Values, Answered, Fault

LEMMA NamesOf ==
  ASSUME Values, NEW s \in Session
  PROVE  /\ cmd[s] \in Command /\ cmd[s].dir \in Place \cup {Here} /\ cmd[s].name \in Name \cup {None}
         /\ Resolve(s, cmd[s].dir) \in Place
         /\ cmd[s].op \in {"MKD", "RMD"} => cmd[s].dir \in Dir
         /\ cmd[s].op \in {"DELE", "SIZE", "RETR", "STOR"} => cmd[s].name \in Name /\ Target(s) \in File
<1>1. /\ cmd[s] \in Command /\ cmd[s].dir \in Place \cup {Here} /\ cmd[s].name \in Name \cup {None}
      /\ cmd[s].op \in {"MKD", "RMD"} => cmd[s].dir \in Dir
      /\ cmd[s].op \in {"DELE", "SIZE", "RETR", "STOR"} => cmd[s].name \in Name
  BY DEF Values, Command
<1>2. Resolve(s, cmd[s].dir) \in Place
  BY <1>1 DEF Resolve, Values, Place
<1>. QED
  BY <1>1, <1>2 DEF Target, File

\* Steps that only ask.
LEMMA Quiet ==
  ASSUME Values, NEW s \in Session, UNCHANGED <<bucket, where, cmd, mode, work, script>>, Answered \/ Fault,
         Reported(s)
  PROVE  /\ Values' /\ Local(s) /\ Fixed
         /\ UNCHANGED <<folder, object, stores, disk, cwd, gone, size, sent, tries, context, list, cut>>
<1>1. /\ Fixed
      /\ UNCHANGED <<folder, object, stores, disk, cwd, gone, size, sent, tries, context, list, cut>>
  BY DEF bucket, where, mode, work, Fixed
<1>2. faults' \in 0 .. MaxFaults
  BY FaultsType
<1>3. Values'
  BY <1>1, <1>2 DEF Values, Reported, Fixed, Replies
<1>4. Local(s)
  BY <1>1 DEF Local, Still, Reported, Fixed
<1>. QED
  BY <1>1, <1>3, <1>4

LEMMA StatDirEffect ==
  ASSUME Values, NEW s \in Session, NEW yes \in Labels, NEW no \in Labels, StatDir(s, yes, no)
  PROVE  /\ Values' /\ Local(s) /\ Fixed
         /\ UNCHANGED <<folder, object, stores, disk, cwd, gone, size, sent, tries, context, list, cut>>
         /\ GoneTo(s, yes) \/ GoneTo(s, no)
<1>1. (GoneTo(s, yes) \/ GoneTo(s, no)) /\ Reported(s)
  BY GoEffect DEF StatDir
<1>2. Answered \/ Fault
  BY DEF StatDir
<1>3. UNCHANGED <<bucket, where, cmd, mode, work, script>>
  BY DEF StatDir
<1>. QED
  BY <1>1, <1>2, <1>3, Quiet

LEMMA ListToTestEffect ==
  ASSUME Values, NEW s \in Session, NEW yes \in Labels, NEW no \in Labels, ListToTest(s, yes, no)
  PROVE  /\ Values' /\ Local(s) /\ Fixed
         /\ UNCHANGED <<folder, object, stores, disk, cwd, gone, size, sent, tries, context, list, cut>>
         /\ \/ GoneTo(s, yes) \/ (no = "done" /\ HasFailed(s)) \/ (no # "done" /\ GoneTo(s, no))
<1>1. /\ GoneTo(s, yes) \/ (no = "done" /\ HasFailed(s)) \/ (no # "done" /\ GoneTo(s, no))
      /\ Reported(s)
  BY GoEffect, FailEffect DEF ListToTest
<1>2. Answered \/ Fault
  BY DEF ListToTest
<1>3. UNCHANGED <<bucket, where, cmd, mode, work, script>>
  BY DEF ListToTest
<1>. QED
  BY <1>1, <1>2, <1>3, Quiet

\* The steps of CWD.
LEMMA ChdirEffect ==
  ASSUME Values, NEW s \in Session, Chdir(s)
  PROVE  /\ Values' /\ Local(s) /\ Fixed /\ pc[s] \in {"chdir", "chdir_again"}
         /\ UNCHANGED <<folder, object, stores, disk, size, sent, tries, context, list, cut>>
         /\ LET d == Resolve(s, cmd[s].dir)
            IN \/ d \in disk \cup {Root} /\ cwd'[s] = d /\ gone' = gone \ {s} /\ HasSucceeded(s)
               \/ /\ d \notin disk \cup {Root} /\ UNCHANGED <<cwd, gone>>
                  /\ (pc[s] = "chdir" /\ GoneTo(s, "mkdirs")) \/ HasFailed(s)
<1> DEFINE d == Resolve(s, cmd[s].dir)
<1>1. Fixed /\ UNCHANGED <<folder, object, stores, size, sent, tries, context, list, cut, faults>> /\ pc[s] \in {"chdir", "chdir_again"}
  BY DEF Chdir, bucket, mode, work, Fixed
<1>2. d \in Place
  BY NamesOf
<1>3. CASE d \in disk \cup {Root} /\ Enter(s, d) /\ Succeed(s)
  <2>1. HasSucceeded(s) /\ Reported(s)
    BY <1>3, SucceedEffect
  <2>2. cwd' = [cwd EXCEPT ![s] = d] /\ gone' = gone \ {s} /\ disk' = disk
    BY <1>3 DEF Enter
  <2>3. cwd' \in [Session -> Place] /\ cwd'[s] = d /\ \A t \in Session : t # s => cwd'[t] = cwd[t]
    BY <1>2, <2>2 DEF Values
  <2> HIDE DEF d
  <2>4. Values'
    BY <1>1, <2>1, <2>2, <2>3 DEF Values, Reported, Fixed, Replies
  <2>5. Local(s)
    BY <1>1, <2>1, <2>3 DEF Local, Still, Reported, Fixed
  <2>. QED
    BY <1>1, <1>3, <2>1, <2>2, <2>3, <2>4, <2>5 DEF d
<1>4. CASE /\ d \notin disk \cup {Root} /\ UNCHANGED where
           /\ IF pc[s] = "chdir" THEN Go(s, "mkdirs") ELSE Fail(s)
  <2>1. "mkdirs" \in Labels
    BY DEF Labels
  <2>2. ((pc[s] = "chdir" /\ GoneTo(s, "mkdirs")) \/ HasFailed(s)) /\ Reported(s)
    BY <1>4, <2>1, GoEffect, FailEffect
  <2>3. disk' = disk /\ cwd' = cwd /\ gone' = gone
    BY <1>4 DEF where
  <2> HIDE DEF d
  <2>4. Values'
    BY <1>1, <2>2, <2>3 DEF Values, Reported, Fixed, Replies
  <2>5. Local(s)
    BY <1>1, <2>2, <2>3 DEF Local, Still, Reported, Fixed
  <2>. QED
    BY <1>1, <1>4, <2>2, <2>3, <2>4, <2>5 DEF d
<1>. QED
  BY <1>3, <1>4 DEF Chdir

LEMMA MkdirsEffect ==
  ASSUME Values, NEW s \in Session, Mkdirs(s), cmd[s].dir \in Dir
  PROVE  /\ Values' /\ Local(s) /\ Fixed /\ pc[s] = "mkdirs"
         /\ UNCHANGED <<folder, object, stores, cwd, gone, size, sent, tries, context, list, cut>>
         /\ disk \subseteq disk' /\ (GoneTo(s, "chdir_again") \/ HasFailed(s))
<1>1. Fixed /\ UNCHANGED <<folder, object, stores, cwd, gone, size, sent, tries, context, list, cut, faults>> /\ pc[s] = "mkdirs"
  BY DEF Mkdirs, bucket, mode, work, Fixed
<1>2. Resolve(s, cmd[s].dir) = cmd[s].dir
  BY StoreAssumption DEF Resolve, Place
<1>3. disk \subseteq disk' /\ disk' \subseteq Dir
  BY <1>2 DEF Mkdirs, Values
<1>4. (GoneTo(s, "chdir_again") \/ HasFailed(s)) /\ Reported(s)
  <2>1. "chdir_again" \in Labels
    BY DEF Labels
  <2>. QED
    BY <2>1, GoEffect, FailEffect DEF Mkdirs
<1>5. Values'
  BY <1>1, <1>3, <1>4 DEF Values, Reported, Fixed, Replies
<1>6. Local(s)
  BY <1>1, <1>4 DEF Local, Still, Reported, Fixed
<1>. QED
  BY <1>1, <1>3, <1>4, <1>5, <1>6

\* The steps of MKD.
LEMMA MkdEffect ==
  ASSUME Values, NEW s \in Session, Mkd(s), cmd[s].dir \in Dir
  PROVE  /\ Values' /\ Local(s) /\ Fixed /\ pc[s] = "mkd"
         /\ UNCHANGED <<object, stores, disk, cwd, gone, size, sent, tries, context, list, cut>>
         /\ \/ cmd[s].dir \notin folder /\ folder' = folder \cup {cmd[s].dir} /\ GoneTo(s, "mkd_disk")
            \/ folder' \in {folder, folder \cup {cmd[s].dir}} /\ HasFailed(s)
<1>1. /\ Fixed /\ UNCHANGED <<object, stores, disk, cwd, gone, size, sent, tries, context, list, cut>>
      /\ pc[s] = "mkd" /\ CosMkdir(s)
  BY DEF Mkd, where, mode, work, Fixed
<1>2. "mkd_disk" \in Labels
  BY DEF Labels
<1>3. /\ Reported(s)
      /\ \/ cmd[s].dir \notin folder /\ folder' = folder \cup {cmd[s].dir} /\ GoneTo(s, "mkd_disk")
         \/ folder' \in {folder, folder \cup {cmd[s].dir}} /\ HasFailed(s)
  BY <1>1, <1>2, GoEffect, FailEffect DEF CosMkdir, FolderCreate
<1>4. faults' \in 0 .. MaxFaults
  BY <1>1, FaultsType DEF CosMkdir
<1>5. folder' \subseteq Dir
  BY <1>3 DEF Values
<1>6. Values'
  BY <1>1, <1>3, <1>4, <1>5 DEF Values, Reported, Fixed, Replies
<1>7. Local(s)
  BY <1>1, <1>3 DEF Local, Still, Reported, Fixed
<1>. QED
  BY <1>1, <1>3, <1>6, <1>7

LEMMA MkdDiskEffect ==
  ASSUME Values, NEW s \in Session, MkdDisk(s), cmd[s].dir \in Dir
  PROVE  /\ Values' /\ Local(s) /\ Fixed /\ pc[s] = "mkd_disk"
         /\ UNCHANGED <<folder, object, stores, cwd, gone, size, sent, tries, context, list, cut>>
         /\ disk \subseteq disk' /\ HasSucceeded(s)
<1>1. /\ Fixed /\ UNCHANGED <<folder, object, stores, cwd, gone, size, sent, tries, context, list, cut, faults>>
      /\ pc[s] = "mkd_disk" /\ Succeed(s) /\ disk' = disk \cup {cmd[s].dir}
  BY DEF MkdDisk, bucket, mode, work, Fixed
<1>2. HasSucceeded(s) /\ Reported(s)
  BY <1>1, SucceedEffect
<1>3. Values'
  BY <1>1, <1>2 DEF Values, Reported, Fixed, Replies
<1>4. Local(s)
  BY <1>1, <1>2 DEF Local, Still, Reported, Fixed
<1>. QED
  BY <1>1, <1>2, <1>3, <1>4

\* The steps of RMD.
LEMMA RmdListEffect ==
  ASSUME Values, NEW s \in Session, RmdList(s)
  PROVE  /\ Values' /\ Local(s) /\ Fixed /\ pc[s] = "rmd_list"
         /\ UNCHANGED <<folder, object, stores, disk, cwd, gone, size, sent, tries, context, list, cut>>
         /\ (Entries(object, folder, cmd[s].dir) = {} /\ GoneTo(s, "rmd")) \/ HasFailed(s)
<1>1. "rmd" \in Labels
  BY DEF Labels
<1>2. ((Entries(object, folder, cmd[s].dir) = {} /\ GoneTo(s, "rmd")) \/ HasFailed(s)) /\ Reported(s)
  BY <1>1, GoEffect, FailEffect DEF RmdList, FolderList
<1>3. UNCHANGED <<bucket, where, cmd, mode, work, script>> /\ (Answered \/ Fault) /\ pc[s] = "rmd_list"
  BY DEF RmdList
<1>. QED
  BY <1>2, <1>3, Quiet

LEMMA RmdEffect ==
  ASSUME Values, NEW s \in Session, Rmd(s)
  PROVE  /\ Values' /\ Local(s) /\ Fixed /\ pc[s] = "rmd"
         /\ UNCHANGED <<object, stores, disk, cwd, gone, size, sent, tries, context, list, cut>>
         /\ \/ cmd[s].dir \in folder /\ folder' = folder \ {cmd[s].dir} /\ GoneTo(s, "rmd_disk")
            \/ folder' \in {folder, folder \ {cmd[s].dir}} /\ HasFailed(s)
<1>1. /\ Fixed /\ UNCHANGED <<object, stores, disk, cwd, gone, size, sent, tries, context, list, cut>>
      /\ pc[s] = "rmd" /\ CosRmdir(s)
  BY DEF Rmd, where, mode, work, Fixed
<1>2. "rmd_disk" \in Labels
  BY DEF Labels
<1>3. /\ Reported(s)
      /\ \/ cmd[s].dir \in folder /\ folder' = folder \ {cmd[s].dir} /\ GoneTo(s, "rmd_disk")
         \/ folder' \in {folder, folder \ {cmd[s].dir}} /\ HasFailed(s)
  BY <1>1, <1>2, GoEffect, FailEffect DEF CosRmdir, FolderDelete
<1>4. faults' \in 0 .. MaxFaults
  BY <1>1, FaultsType DEF CosRmdir
<1>5. folder' \subseteq Dir
  BY <1>3 DEF Values
<1>6. Values'
  BY <1>1, <1>3, <1>4, <1>5 DEF Values, Reported, Fixed, Replies
<1>7. Local(s)
  BY <1>1, <1>3 DEF Local, Still, Reported, Fixed
<1>. QED
  BY <1>1, <1>3, <1>6, <1>7

LEMMA RmdDiskEffect ==
  ASSUME Values, NEW s \in Session, RmdDisk(s)
  PROVE  /\ Values' /\ Local(s) /\ Fixed /\ pc[s] = "rmd_disk"
         /\ UNCHANGED <<folder, object, stores, cwd, size, sent, tries, context, list, cut>>
         /\ HasSucceeded(s) /\ gone \subseteq gone'
         /\ \A t \in Session \ gone' : cwd[t] \in disk => cwd[t] \in disk'
<1>1. /\ Fixed /\ UNCHANGED <<folder, object, stores, cwd, size, sent, tries, context, list, cut, faults>>
      /\ pc[s] = "rmd_disk" /\ Succeed(s)
  BY DEF RmdDisk, bucket, mode, work, Fixed
<1>2. HasSucceeded(s) /\ Reported(s)
  BY <1>1, SucceedEffect
<1>3. /\ disk' \subseteq Dir /\ gone \subseteq gone' /\ gone' \subseteq Session
      /\ \A t \in Session \ gone' : cwd[t] \in disk => cwd[t] \in disk'
  BY DEF RmdDisk, Values
<1>4. Values'
  BY <1>1, <1>2, <1>3 DEF Values, Reported, Fixed, Replies
<1>5. Local(s)
  BY <1>1, <1>2 DEF Local, Still, Reported, Fixed
<1>. QED
  BY <1>1, <1>2, <1>3, <1>4, <1>5

-----------------------------------------------------------------------------
(***************************************************************************)
(* The pages of a listing.                                                 *)
(***************************************************************************)
LEMMA RankOf == Len(Order) \in Nat /\ \A e \in Entry : Rank(e) \in 1 .. Len(Order) /\ Order[Rank(e)] = e
<1>1. Len(Order) \in Nat /\ \A e \in Entry : \E i \in 1 .. Len(Order) : Order[i] = e
  BY StoreAssumption, SMT
<1>2. ASSUME NEW e \in Entry PROVE Rank(e) \in 1 .. Len(Order) /\ Order[Rank(e)] = e
  BY <1>1 DEF Rank
<1>. QED
  BY <1>1, <1>2

\* The last entry of a page.
Last(S) == CHOOSE i \in {Rank(e) : e \in S} : \A e \in S : Rank(e) <= i

\* What the pages of a listing rest on: a page has a last entry, and all that
\* comes before one of its entries.
Paging ==
  /\ \A S \in SUBSET Entry : S # {} =>
       \E a \in S : Last(S) = Rank(a) /\ \A e \in S : Rank(e) <= Rank(a)
  /\ \A S \in SUBSET Entry, k \in Nat : \A a \in Lowest(S, k), b \in S :
       Rank(b) <= Rank(a) => b \in Lowest(S, k)

-----------------------------------------------------------------------------
(* The other steps.                                                        *)

LEMMA DeleEffect ==
  ASSUME Values, NEW s \in Session, Dele(s), Target(s) \in File
  PROVE  /\ Values' /\ Local(s) /\ Fixed /\ pc[s] = "dele"
         /\ UNCHANGED <<folder, stores, disk, cwd, gone, size, sent, tries, context, list, cut>>
         /\ \/ /\ object[Target(s)] # None /\ object' = [object EXCEPT ![Target(s)] = None]
               /\ HasSucceeded(s)
            \/ object' \in {object, [object EXCEPT ![Target(s)] = None]} /\ HasFailed(s)
<1>1. /\ Fixed /\ UNCHANGED <<folder, stores, disk, cwd, gone, size, sent, tries, context, list, cut>>
      /\ pc[s] = "dele" /\ CosUnlink(s)
  BY DEF Dele, where, mode, work, Fixed
<1>2. /\ Reported(s)
      /\ \/ /\ object[Target(s)] # None /\ object' = [object EXCEPT ![Target(s)] = None]
            /\ HasSucceeded(s)
         \/ object' \in {object, [object EXCEPT ![Target(s)] = None]} /\ HasFailed(s)
  BY <1>1, SucceedEffect, FailEffect DEF CosUnlink, FileDelete
<1>3. faults' \in 0 .. MaxFaults
  BY <1>1, FaultsType DEF CosUnlink
<1>4. object' \in [File -> {None} \cup Object]
  BY <1>2 DEF Values
<1>5. Values'
  BY <1>1, <1>2, <1>3, <1>4 DEF Values, Reported, Fixed, Replies
<1>6. Local(s)
  BY <1>1, <1>2 DEF Local, Still, Reported, Fixed
<1>. QED
  BY <1>1, <1>2, <1>5, <1>6

LEMMA SizeEffect ==
  ASSUME Values, NEW s \in Session, Size(s)
  PROVE  /\ Values' /\ Local(s) /\ Fixed /\ pc[s] = "size"
         /\ UNCHANGED <<folder, object, stores, disk, cwd, gone, size, sent, tries, context, list, cut>>
         /\ HasSucceeded(s) \/ HasFailed(s)
<1>1. (HasSucceeded(s) \/ HasFailed(s)) /\ Reported(s)
  BY SucceedEffect, FailEffect DEF Size
<1>2. UNCHANGED <<bucket, where, cmd, mode, work, script>> /\ (Answered \/ Fault) /\ pc[s] = "size"
  BY DEF Size
<1>. QED
  BY <1>1, <1>2, Quiet

LEMMA RetrStatEffect ==
  ASSUME Values, NEW s \in Session, RetrStat(s), Target(s) \in File
  PROVE  /\ Values' /\ Local(s) /\ Fixed /\ pc[s] = "retr_stat"
         /\ UNCHANGED <<folder, object, stores, disk, cwd, gone, sent, tries, context, list, cut>>
         /\ \/ object[Target(s)] # None /\ size'[s] = object[Target(s)].size /\ GoneTo(s, "retr")
            \/ HasFailed(s)
<1>1. /\ Fixed /\ UNCHANGED <<folder, object, stores, disk, cwd, gone, sent, tries, context, list, cut>>
      /\ pc[s] = "retr_stat" /\ (Answered \/ Fault)
  BY DEF RetrStat, bucket, where, mode, Fixed
<1>2. "retr" \in Labels
  BY DEF Labels
<1>3. CASE FileStat(Target(s)) /\ size' = [size EXCEPT ![s] = object[Target(s)].size] /\ Go(s, "retr")
  <2>1. object[Target(s)] # None /\ object[Target(s)].size \in 0 .. MaxSize
    BY <1>3 DEF FileStat, Values, Object
  <2>2. size' \in [Session -> 0 .. MaxSize] /\ size'[s] = object[Target(s)].size
        /\ \A t \in Session : t # s => size'[t] = size[t]
    BY <1>3, <2>1 DEF Values
  <2>3. GoneTo(s, "retr") /\ Reported(s)
    BY <1>2, <1>3, GoEffect
  <2>4. Values'
    BY <1>1, <2>2, <2>3, FaultsType DEF Values, Reported, Fixed, Replies
  <2>5. Local(s)
    BY <1>1, <2>2, <2>3 DEF Local, Still, Reported, Fixed
  <2>. QED
    BY <1>1, <2>1, <2>2, <2>3, <2>4, <2>5
<1>4. CASE UNCHANGED size /\ Fail(s)
  <2>1. HasFailed(s) /\ Reported(s)
    BY <1>4, FailEffect
  <2>2. Values'
    BY <1>1, <1>4, <2>1, FaultsType DEF Values, Reported, Fixed, Replies
  <2>3. Local(s)
    BY <1>1, <1>4, <2>1 DEF Local, Still, Reported, Fixed
  <2>. QED
    BY <1>1, <2>1, <2>2, <2>3
<1>. QED
  BY <1>3, <1>4 DEF RetrStat

LEMMA RetrEffect ==
  ASSUME Values, NEW s \in Session, Retr(s), Target(s) \in File
  PROVE  /\ Values' /\ Local(s) /\ Fixed /\ pc[s] = "retr"
         /\ UNCHANGED <<folder, object, stores, disk, cwd, gone, size, tries, context, list, cut>>
         /\ LET o == object[Target(s)]
                next == from[s] + Len(sent[s])
            IN \/ /\ next < size[s] /\ o # None /\ next < o.size
                  /\ sent'[s] = Append(sent[s], <<o.ver, next>>) /\ GoneTo(s, "retr")
               \/ next >= size[s] /\ UNCHANGED sent /\ HasSucceeded(s)
               \/ next < size[s] /\ o # None /\ o.size = 0 /\ UNCHANGED sent /\ HasSucceeded(s)
               \/ UNCHANGED sent /\ HasFailed(s)
<1> DEFINE o == object[Target(s)]
           next == from[s] + Len(sent[s])
<1>1. /\ Fixed /\ UNCHANGED <<folder, object, stores, disk, cwd, gone, size, tries, context, list, cut>>
      /\ pc[s] = "retr" /\ (Answered \/ Fault)
  BY DEF Retr, bucket, where, mode, Fixed
<1>2. "retr" \in Labels
  BY DEF Labels
<1>3. next \in Nat /\ sent[s] \in Seq(Nat \X Nat)
  BY SMTT(30) DEF Values
<1>4. CASE /\ next < size[s] /\ o # None /\ next < o.size
           /\ sent' = [sent EXCEPT ![s] = Append(sent[s], <<o.ver, next>>)] /\ Go(s, "retr")
  <2>1. o.ver \in Nat
    BY <1>4 DEF Values, Object
  <2> HIDE DEF next, o
  <2>2. Append(sent[s], <<o.ver, next>>) \in Seq(Nat \X Nat)
    BY <1>3, <2>1, SMT
  <2> DEFINE new == Append(sent[s], <<o.ver, next>>)
  <2>3. sent' = [sent EXCEPT ![s] = new]
    BY <1>4
  <2>4. new \in Seq(Nat \X Nat)
    BY <2>2
  <2> HIDE DEF new
  <2>5. sent' \in [Session -> Seq(Nat \X Nat)] /\ sent'[s] = new /\ \A t \in Session : t # s => sent'[t] = sent[t]
    BY <2>3, <2>4 DEF Values
  <2>6. GoneTo(s, "retr") /\ Reported(s)
    BY <1>2, <1>4, GoEffect
  <2>7. Values'
    BY <1>1, <2>5, <2>6, FaultsType DEF Values, Reported, Fixed, Replies
  <2>8. Local(s)
    BY <1>1, <2>5, <2>6 DEF Local, Still, Reported, Fixed
  <2>. QED
    BY <1>1, <1>4, <2>5, <2>6, <2>7, <2>8 DEF new, next, o
<1>5. ASSUME UNCHANGED sent, Succeed(s) \/ Fail(s)
      PROVE  Values' /\ Local(s) /\ (Succeed(s) => HasSucceeded(s)) /\ (Fail(s) => HasFailed(s))
  <2>1. Reported(s) /\ (Succeed(s) => HasSucceeded(s)) /\ (Fail(s) => HasFailed(s))
    BY <1>5, SucceedEffect, FailEffect
  <2>2. Values'
    BY <1>1, <1>5, <2>1, FaultsType DEF Values, Reported, Fixed, Replies
  <2>3. Local(s)
    BY <1>1, <1>5, <2>1 DEF Local, Still, Reported, Fixed
  <2>. QED
    BY <2>1, <2>2, <2>3
<1>6. \/ /\ next < size[s] /\ o # None /\ next < o.size
         /\ sent' = [sent EXCEPT ![s] = Append(sent[s], <<o.ver, next>>)] /\ Go(s, "retr")
      \/ next >= size[s] /\ UNCHANGED sent /\ Succeed(s)
      \/ next < size[s] /\ o # None /\ o.size = 0 /\ UNCHANGED sent /\ Succeed(s)
      \/ UNCHANGED sent /\ Fail(s)
  BY DEF Retr
<1>. QED
  BY <1>1, <1>4, <1>5, <1>6

\* What a listing collects.
LEMMA SingleEffect ==
  ASSUME Values, NEW s \in Session, Single(s)
  PROVE  /\ Values' /\ Local(s) /\ Fixed /\ pc[s] \in {"list_file", "stat_file"}
         /\ UNCHANGED <<folder, object, stores, disk, cwd, gone, size, sent, tries, context, cut>>
         /\ cmd[s].name = None => list'[s] = list[s]
         /\ GoneTo(s, "send") \/ (pc[s] = "stat_file" /\ GoneTo(s, "stat_dir"))
<1>1. /\ Fixed /\ UNCHANGED <<folder, object, stores, disk, cwd, gone, size, sent, tries, context, cut>>
      /\ pc[s] \in {"list_file", "stat_file"} /\ (Answered \/ Fault)
  BY DEF Single, bucket, where, mode, Fixed
<1>2. "send" \in Labels /\ "stat_dir" \in Labels
  BY DEF Labels
<1>3. cmd[s].name \in Name \cup {None}
  BY NamesOf
<1>4. (GoneTo(s, "send") \/ (pc[s] = "stat_file" /\ GoneTo(s, "stat_dir"))) /\ Reported(s)
  BY <1>2, GoEffect DEF Single
<1>5. /\ list' \in [Session -> SUBSET (Entry \cup Place)] /\ \A t \in Session : t # s => list'[t] = list[t]
      /\ cmd[s].name = None => list'[s] = list[s]
  <2>1. CASE cmd[s].name # None /\ list' = [list EXCEPT ![s] = {cmd[s].name}]
    <3>1. {cmd[s].name} \in SUBSET (Entry \cup Place)
      BY <1>3, <2>1 DEF Entry
    <3>. QED
      BY <2>1, <3>1 DEF Values
  <2>2. CASE list' = list
    BY <2>2 DEF Values
  <2>. QED
    BY <2>1, <2>2 DEF Single
<1>6. Values'
  BY <1>1, <1>4, <1>5, FaultsType DEF Values, Reported, Fixed, Replies
<1>7. Local(s)
  BY <1>1, <1>4, <1>5 DEF Local, Still, Reported, Fixed
<1>. QED
  BY <1>1, <1>4, <1>5, <1>6, <1>7

LEMMA StatFolderEffect ==
  ASSUME Values, NEW s \in Session, StatFolder(s)
  PROVE  /\ Values' /\ Local(s) /\ Fixed /\ pc[s] = "stat_dir"
         /\ UNCHANGED <<folder, object, stores, disk, cwd, gone, size, sent, tries, context, cut>>
         /\ GoneTo(s, "send")
<1>1. /\ Fixed /\ UNCHANGED <<folder, object, stores, disk, cwd, gone, size, sent, tries, context, cut>>
      /\ pc[s] = "stat_dir" /\ (Answered \/ Fault) /\ Go(s, "send")
  BY DEF StatFolder, bucket, where, mode, Fixed
<1>2. "send" \in Labels
  BY DEF Labels
<1>3. GoneTo(s, "send") /\ Reported(s)
  BY <1>1, <1>2, GoEffect
<1>4. list' \in [Session -> SUBSET (Entry \cup Place)] /\ \A t \in Session : t # s => list'[t] = list[t]
  <2>1. {Resolve(s, cmd[s].dir)} \in SUBSET (Entry \cup Place)
    BY NamesOf
  <2>2. list' = [list EXCEPT ![s] = {Resolve(s, cmd[s].dir)}] \/ list' = list
    BY DEF StatFolder
  <2>3. list \in [Session -> SUBSET (Entry \cup Place)]
    BY DEF Values
  <2>. QED
    BY <2>1, <2>2, <2>3, SMTT(30)
<1>5. Values'
  BY <1>1, <1>3, <1>4, FaultsType DEF Values, Reported, Fixed, Replies
<1>6. Local(s)
  BY <1>1, <1>3, <1>4 DEF Local, Still, Reported, Fixed
<1>. QED
  BY <1>1, <1>3, <1>5, <1>6

LEMMA SendEffect ==
  ASSUME Values, NEW s \in Session, Send(s)
  PROVE  /\ Values' /\ Local(s) /\ Fixed /\ pc[s] = "send"
         /\ UNCHANGED <<folder, object, stores, disk, cwd, gone, size, sent, tries, context, list, cut>>
         /\ HasSucceeded(s) \/ HasFailed(s)
<1>1. (HasSucceeded(s) \/ HasFailed(s)) /\ Reported(s)
  BY SucceedEffect, FailEffect DEF Send
<1>2. UNCHANGED <<bucket, where, cmd, mode, work, script>> /\ Answered /\ pc[s] = "send"
  BY DEF Send, Answered
<1>. QED
  BY <1>1, <1>2, Quiet

LEMMA StorOpenEffect ==
  ASSUME Values, NEW s \in Session, StorOpen(s)
  PROVE  /\ Values' /\ Local(s) /\ Fixed /\ pc[s] = "stor_open"
         /\ UNCHANGED <<folder, object, stores, disk, cwd, gone, size, sent, tries, context, list, cut>>
         /\ GoneTo(s, "stor_send") \/ HasFailed(s)
<1>1. "stor_send" \in Labels
  BY DEF Labels
<1>2. (GoneTo(s, "stor_send") \/ HasFailed(s)) /\ Reported(s)
  BY <1>1, GoEffect, FailEffect DEF StorOpen
<1>3. UNCHANGED <<bucket, where, cmd, mode, work, script>> /\ Answered /\ pc[s] = "stor_open"
  BY DEF StorOpen, Answered
<1>. QED
  BY <1>2, <1>3, Quiet

Stored(z) == [ver |-> stores, size |-> z]
LEMMA StorSendEffect ==
  ASSUME Values, NEW s \in Session, StorSend(s), Target(s) \in File
  PROVE  /\ Values' /\ Local(s) /\ Fixed /\ pc[s] = "stor_send"
         /\ UNCHANGED <<folder, disk, cwd, gone, size, sent, tries, context, list, cut>>
         /\ stores' \in {stores, stores + 1}
         /\ \/ /\ \E z \in 0 .. MaxSize : object' = [object EXCEPT ![Target(s)] = Stored(z)]
               /\ stores' = stores + 1 /\ (HasSucceeded(s) \/ HasFailed(s))
            \/ object' \in {object, [object EXCEPT ![Target(s)] = None]} /\ HasFailed(s)
<1>1. /\ Fixed /\ UNCHANGED <<folder, disk, cwd, gone, size, sent, tries, context, list, cut>>
      /\ pc[s] = "stor_send" /\ (Answered \/ Fault) /\ stores' \in {stores, stores + 1}
  BY DEF StorSend, where, mode, work, Fixed
<1>2. Reported(s) /\ (Succeed(s) => HasSucceeded(s)) /\ (Fail(s) => HasFailed(s))
  BY SucceedEffect, FailEffect DEF StorSend
<1>3. \/ /\ \E z \in 0 .. MaxSize : object' = [object EXCEPT ![Target(s)] = Stored(z)]
         /\ stores' = stores + 1 /\ (Succeed(s) \/ Fail(s))
      \/ object' \in {object, [object EXCEPT ![Target(s)] = None]} /\ Fail(s)
  BY DEF StorSend, Stored
<1>4. object' \in [File -> {None} \cup Object]
  <2>1. \A z \in 0 .. MaxSize : Stored(z) \in Object
    BY DEF Stored, Object, Values
  <2>. QED
    BY <1>3, <2>1 DEF Values
<1>5. stores' \in Nat
  BY <1>1, SMTT(30) DEF Values
<1>6. Values'
  BY <1>1, <1>2, <1>4, <1>5, FaultsType DEF Values, Reported, Fixed, Replies
<1>7. Local(s)
  BY <1>1, <1>2 DEF Local, Still, Reported, Fixed
<1>. QED
  BY <1>1, <1>2, <1>3, <1>6, <1>7

Later(s) == {e \in Inside(s) : Rank(e) > context[s]}
Infos(s) == Lowest(Later(s), PageSize)

LEMMA InfosType ==
  ASSUME NEW s PROVE Inside(s) \subseteq Entry /\ Later(s) \subseteq Inside(s) /\ Infos(s) \subseteq Later(s)
<1>1. Inside(s) \subseteq Entry
  BY EntriesType DEF Inside, FolderList
<1>. QED
  BY <1>1 DEF Later, Infos, Lowest

LEMMA PageEffect ==
  ASSUME Values, Paging, NEW s \in Session, Page(s), tries[s] \in 1 .. 2
  PROVE  /\ Values' /\ Local(s) /\ Fixed /\ pc[s] = "page"
         /\ UNCHANGED <<folder, object, stores, disk, cwd, gone, size, sent>>
         /\ \/ /\ tries' = tries /\ list'[s] \subseteq list[s] \cup Infos(s)
               /\ context'[s] = IF Infos(s) = {} THEN context[s] ELSE Last(Infos(s))
               /\ \/ cut'[s] = TRUE /\ GoneTo(s, "send")
                  \/ /\ cut'[s] = FALSE /\ list'[s] = list[s] \cup Infos(s)
                     /\ (Infos(s) = Later(s) /\ GoneTo(s, "send")) \/ GoneTo(s, "page")
            \/ /\ list' = list /\ context' = context
               /\ \/ cut'[s] = TRUE /\ GoneTo(s, "send")
                  \/ tries'[s] \in 1 .. 2 /\ GoneTo(s, "page")
<1> DEFINE room == Conf.listMax - Cardinality(list[s])
           full == Conf.listMax > 0 /\ Cardinality(Infos(s)) >= room
           more == IF full THEN Lowest(Infos(s), room) ELSE Infos(s)
           ctx == IF Infos(s) = {} THEN context[s] ELSE Last(Infos(s))
<1>1. /\ Fixed /\ UNCHANGED <<folder, object, stores, disk, cwd, gone, size, sent>>
      /\ pc[s] = "page" /\ (Answered \/ Fault)
  BY DEF Page, bucket, where, mode, Fixed
<1>2. "page" \in Labels /\ "send" \in Labels
  BY DEF Labels
<1>3. CASE /\ list' = [list EXCEPT ![s] = list[s] \cup more]
           /\ cut' = [cut EXCEPT ![s] = full]
           /\ context' = [context EXCEPT ![s] = ctx]
           /\ UNCHANGED tries
           /\ Go(s, IF full \/ Infos(s) = Later(s) THEN "send" ELSE "page")
  <2>1. more \subseteq Infos(s) /\ more \subseteq Entry /\ (~full => more = Infos(s))
    BY InfosType DEF Lowest
  <2>2. ctx \in 0 .. Len(Order)
    <3>1. CASE Infos(s) = {}
      BY <3>1 DEF Values
    <3>2. CASE Infos(s) # {}
      <4>1. Infos(s) \in SUBSET Entry
        BY InfosType
      <4>2. PICK a \in Infos(s) : Last(Infos(s)) = Rank(a)
        BY <3>2, <4>1 DEF Paging
      <4>. QED
        BY <3>2, <4>1, <4>2, RankOf, SMTT(30)
    <3>. QED
      BY <3>1, <3>2
  <2>3. full \in BOOLEAN
    OBVIOUS
  <2>4. CASE full
    <3>1. cut' = [cut EXCEPT ![s] = TRUE] /\ Go(s, "send")
      BY <1>3, <2>3, <2>4
    <3> HIDE DEF full, more, ctx
    <3>2. GoneTo(s, "send") /\ Reported(s)
      BY <1>2, <3>1, GoEffect
    <3>3. cut' \in [Session -> BOOLEAN] /\ cut'[s] = TRUE /\ \A t \in Session : t # s => cut'[t] = cut[t]
      BY <3>1 DEF Values
    <3>4. /\ list' \in [Session -> SUBSET (Entry \cup Place)] /\ list'[s] = list[s] \cup more
          /\ \A t \in Session : t # s => list'[t] = list[t]
      BY <1>3, <2>1 DEF Values
    <3>5. /\ context' \in [Session -> 0 .. Len(Order)] /\ context'[s] = ctx
          /\ \A t \in Session : t # s => context'[t] = context[t]
      BY <1>3, <2>2 DEF Values
    <3>6. Values'
      BY <1>1, <1>3, <3>2, <3>3, <3>4, <3>5, FaultsType DEF Values, Reported, Fixed, Replies
    <3>7. Local(s)
      BY <1>1, <1>3, <3>2, <3>3, <3>4, <3>5 DEF Local, Still, Reported, Fixed
    <3>. QED
      BY <1>1, <1>3, <2>1, <3>2, <3>3, <3>4, <3>5, <3>6, <3>7 DEF ctx
  <2>5. CASE ~full
    <3>1. cut' = [cut EXCEPT ![s] = FALSE] /\ Go(s, IF Infos(s) = Later(s) THEN "send" ELSE "page")
      <4>1. full = FALSE
        BY <2>3, <2>5
      <4>2. cut' = [cut EXCEPT ![s] = full] /\ Go(s, IF full \/ Infos(s) = Later(s) THEN "send" ELSE "page")
        BY <1>3
      <4> HIDE DEF full
      <4>3. cut' = [cut EXCEPT ![s] = FALSE]
        BY <4>1, <4>2
      <4>4. Go(s, IF Infos(s) = Later(s) THEN "send" ELSE "page")
        BY <4>1, <4>2
      <4>. QED
        BY <4>3, <4>4
    <3>0. more = Infos(s)
      BY <2>5
    <3> HIDE DEF full, more, ctx
    <3>2. ((Infos(s) = Later(s) /\ GoneTo(s, "send")) \/ GoneTo(s, "page")) /\ Reported(s)
      BY <1>2, <3>1, GoEffect
    <3>3. cut' \in [Session -> BOOLEAN] /\ cut'[s] = FALSE /\ \A t \in Session : t # s => cut'[t] = cut[t]
      BY <3>1 DEF Values
    <3>4. /\ list' \in [Session -> SUBSET (Entry \cup Place)] /\ list'[s] = list[s] \cup more
          /\ \A t \in Session : t # s => list'[t] = list[t]
      BY <1>3, <2>1 DEF Values
    <3>5. /\ context' \in [Session -> 0 .. Len(Order)] /\ context'[s] = ctx
          /\ \A t \in Session : t # s => context'[t] = context[t]
      BY <1>3, <2>2 DEF Values
    <3>6. Values'
      BY <1>1, <1>3, <3>2, <3>3, <3>4, <3>5, FaultsType DEF Values, Reported, Fixed, Replies
    <3>7. Local(s)
      BY <1>1, <1>3, <3>2, <3>3, <3>4, <3>5 DEF Local, Still, Reported, Fixed
    <3>. QED
      BY <1>1, <1>3, <3>0, <3>2, <3>3, <3>4, <3>5, <3>6, <3>7 DEF ctx
  <2>. QED
    BY <2>4, <2>5
<1>4. CASE /\ tries' = [tries EXCEPT ![s] = tries[s] - 1]
           /\ cut' = [cut EXCEPT ![s] = (tries[s] = 1)]
           /\ UNCHANGED <<list, context>>
           /\ Go(s, IF tries[s] = 1 THEN "send" ELSE "page")
  <2> DEFINE n == tries[s] - 1
             last == (tries[s] = 1)
  <2>1. n \in 0 .. 2 /\ (~last => n \in 1 .. 2) /\ last \in BOOLEAN
    BY SMT
  <2>2. tries' = [tries EXCEPT ![s] = n] /\ cut' = [cut EXCEPT ![s] = last]
    BY <1>4
  <2>3. ((last /\ GoneTo(s, "send")) \/ (~last /\ GoneTo(s, "page"))) /\ Reported(s)
    BY <1>2, <1>4, GoEffect
  <2> HIDE DEF n, last
  <2>4. tries' \in [Session -> 0 .. 2] /\ tries'[s] = n /\ \A t \in Session : t # s => tries'[t] = tries[t]
    BY <2>1, <2>2 DEF Values
  <2>5. cut' \in [Session -> BOOLEAN] /\ cut'[s] = last /\ \A t \in Session : t # s => cut'[t] = cut[t]
    BY <2>1, <2>2 DEF Values
  <2>5a. last => cut'[s] = TRUE
    BY <2>1, <2>5
  <2>6. Values'
    BY <1>1, <1>4, <2>3, <2>4, <2>5, FaultsType DEF Values, Reported, Fixed, Replies
  <2>7. Local(s)
    BY <1>1, <1>4, <2>3, <2>4, <2>5 DEF Local, Still, Reported, Fixed
  <2>. QED
    BY <1>1, <1>4, <2>1, <2>3, <2>4, <2>5a, <2>6, <2>7
<1>. QED
  <2>1. \/ /\ list' = [list EXCEPT ![s] = list[s] \cup more]
           /\ cut' = [cut EXCEPT ![s] = full]
           /\ context' = [context EXCEPT ![s] = ctx]
           /\ UNCHANGED tries
           /\ Go(s, IF full \/ Infos(s) = Later(s) THEN "send" ELSE "page")
        \/ /\ tries' = [tries EXCEPT ![s] = tries[s] - 1]
           /\ cut' = [cut EXCEPT ![s] = (tries[s] = 1)]
           /\ UNCHANGED <<list, context>>
           /\ Go(s, IF tries[s] = 1 THEN "send" ELSE "page")
    BY DEF Page, Infos, Later, Last
  <2>. QED
    BY <1>3, <1>4, <2>1

\* The start and the end of a command.
LEMMA EndOfCommandEffect ==
  ASSUME Values, NEW s \in Session, EndOfCommand(s)
  PROVE  /\ Values' /\ Local(s) /\ pc[s] = "done"
         /\ UNCHANGED <<folder, object, stores, disk, cwd, gone, reply>>
         /\ pc' = [pc EXCEPT ![s] = "idle"] /\ cmd' = [cmd EXCEPT ![s] = Nothing]
         /\ pc'[s] = "idle" /\ cmd'[s] = Nothing
         /\ log'[s] = FALSE /\ line'[s] = IF log[s] THEN "fail" ELSE line[s]
         /\ sent'[s] = <<>> /\ context'[s] = 0 /\ list'[s] = {} /\ cut'[s] = FALSE
<1>1. /\ UNCHANGED <<folder, object, stores, disk, cwd, gone, rest, ascii, reply, faults, script>>
      /\ pc[s] = "done"
  BY DEF EndOfCommand, bucket, where, mode
<1>2. /\ pc' = [pc EXCEPT ![s] = "idle"] /\ cmd' = [cmd EXCEPT ![s] = Nothing]
      /\ log' = [log EXCEPT ![s] = FALSE]
      /\ line' = IF log[s] THEN [line EXCEPT ![s] = "fail"] ELSE line
      /\ spool' = [spool EXCEPT ![s] = Root]
      /\ size' = [size EXCEPT ![s] = 0] /\ from' = [from EXCEPT ![s] = 0]
      /\ sent' = [sent EXCEPT ![s] = <<>>]
      /\ tries' = [tries EXCEPT ![s] = 0] /\ context' = [context EXCEPT ![s] = 0]
      /\ list' = [list EXCEPT ![s] = {}] /\ cut' = [cut EXCEPT ![s] = FALSE]
  BY DEF EndOfCommand
<1>3. Nothing \in Command
  BY DEF Nothing, Command, Ops
<1>4. /\ "idle" \in Labels /\ Root \in Place \cup {None} /\ 0 \in 0 .. MaxSize /\ 0 \in Nat /\ 0 \in 0 .. 2
      /\ 0 \in 0 .. Len(Order) /\ <<>> \in Seq(Nat \X Nat) /\ {} \in SUBSET (Entry \cup Place)
  BY StoreAssumption, RankOf, SMTT(30) DEF Labels, Place
<1>5. pc' \in [Session -> Labels] /\ cmd' \in [Session -> Command] /\ log' \in [Session -> BOOLEAN]
  BY <1>2, <1>3, <1>4 DEF Values
<1>6. line' \in [Session -> Replies]
  BY <1>2 DEF Values, Replies
<1>7. spool' \in [Session -> Place \cup {None}] /\ size' \in [Session -> 0 .. MaxSize] /\ from' \in [Session -> Nat]
  BY <1>2, <1>4 DEF Values
<1>8. sent' \in [Session -> Seq(Nat \X Nat)]
  BY <1>2, <1>4 DEF Values
<1>9. tries' \in [Session -> 0 .. 2] /\ context' \in [Session -> 0 .. Len(Order)]
  BY <1>2, <1>4 DEF Values
<1>10. list' \in [Session -> SUBSET (Entry \cup Place)] /\ cut' \in [Session -> BOOLEAN]
  BY <1>2, <1>4 DEF Values
<1>11. Values'
  BY <1>1, <1>5, <1>6, <1>7, <1>8, <1>9, <1>10 DEF Values, Replies
<1>12. Local(s)
  BY <1>1, <1>2 DEF Local, Still, Values
<1>13. /\ pc'[s] = "idle" /\ cmd'[s] = Nothing /\ log'[s] = FALSE
       /\ line'[s] = IF log[s] THEN "fail" ELSE line[s]
       /\ sent'[s] = <<>> /\ context'[s] = 0 /\ list'[s] = {} /\ cut'[s] = FALSE
  BY <1>2 DEF Values
<1>. QED
  BY <1>1, <1>2, <1>11, <1>12, <1>13

LEMMA FirstStepRuns ==
  ASSUME NEW c \in Command, c.op \notin {"NOOP", "TYPE", "REST"}
  PROVE  /\ Runs(c.op, FirstStep(c)) /\ FirstStep(c) \in Labels
         /\ FirstStep(c) \in {"cwd_stat", "mkd", "rmd_list", "dele", "size", "retr_stat", "page",
                              "list_stat", "stat_file", "stor_open"}
<1>1. c.op \in Ops
  BY DEF Command
<1> DEFINE First == {"cwd_stat", "mkd", "rmd_list", "dele", "size", "retr_stat", "page", "list_stat",
                     "stat_file", "stor_open"}
<1>2. SUFFICES Runs(c.op, FirstStep(c)) /\ FirstStep(c) \in First
  BY DEF Labels
<1>3. CASE c.op \in {"CWD", "MKD", "RMD"}
  BY <1>3 DEF FirstStep, Runs
<1>4. CASE c.op \in {"DELE", "SIZE", "RETR"}
  BY <1>4 DEF FirstStep, Runs
<1>5. CASE c.op \in {"STAT", "STOR"}
  BY <1>5 DEF FirstStep, Runs
<1>6. CASE c.op = "LIST"
  <2>1. FirstStep(c) = IF c.dir = Here /\ c.name = None THEN "page" ELSE "list_stat"
    BY <1>6 DEF FirstStep
  <2>. QED
    BY <1>6, <2>1 DEF Runs
<1>. QED
  BY <1>1, <1>3, <1>4, <1>5, <1>6 DEF Ops

LEMMA ReceiveEffect ==
  ASSUME Values, NEW s \in Session, Receive(s), ~log[s]
  PROVE  /\ Values' /\ Local(s) /\ pc[s] = "idle"
         /\ UNCHANGED <<folder, object, stores, disk, cwd, gone, size, sent, context, list, cut>>
         /\ cmd'[s] \in Command /\ line'[s] = "none" /\ tries'[s] = 2
         /\ pc' = [pc EXCEPT ![s] = pc'[s]] /\ cmd' = [cmd EXCEPT ![s] = cmd'[s]]
         /\ reply' = [reply EXCEPT ![s] = reply'[s]]
         /\ \/ pc'[s] = "done" /\ reply'[s] = "fail"
            \/ /\ pc'[s] = "done" /\ reply'[s] \in {"ok", "fail"} /\ log'[s] = FALSE
               /\ cmd'[s].op \in {"NOOP", "TYPE", "REST"}
            \/ /\ pc'[s] = FirstStep(cmd'[s]) /\ reply'[s] = "none" /\ May(s, cmd'[s])
               /\ Admitted(s, cmd'[s]) /\ cmd'[s].op \notin {"NOOP", "TYPE", "REST"}
<1> DEFINE c == Head(script[s])
           home == IF c.dir = Here /\ s \in gone THEN None ELSE Resolve(s, c.dir)
<1>1. /\ pc[s] = "idle" /\ script[s] # <<>>
      /\ script' = [script EXCEPT ![s] = Tail(script[s])]
      /\ cmd' = [cmd EXCEPT ![s] = c] /\ line' = [line EXCEPT ![s] = "none"]
      /\ from' = [from EXCEPT ![s] = rest[s]] /\ spool' = [spool EXCEPT ![s] = home]
      /\ tries' = [tries EXCEPT ![s] = 2]
      /\ UNCHANGED <<folder, object, stores, disk, cwd, gone, faults, size, sent, context, list, cut>>
  BY DEF Receive, bucket, where
<1>2. c \in Command /\ Tail(script[s]) \in Seq(Command)
  <2>1. script[s] \in Seq(Command)
    BY DEF Values
  <2>. QED
    BY <1>1, <2>1, SMTT(30)
<1>3. home \in Place \cup {None}
  BY <1>2 DEF Resolve, Values, Place, Command
<1>4. c.op \notin {"NOOP", "TYPE", "REST"} =>
        /\ FirstStep(c) \in Labels
  BY <1>2, FirstStepRuns
<1>5. \/ /\ AnswerAt(s, "fail") /\ UNCHANGED mode
      \/ /\ \E answer \in {"ok", "fail"} : AnswerAt(s, answer)
         /\ \/ UNCHANGED mode
            \/ ascii' = [ascii EXCEPT ![s] = (c.pos = 1)] /\ UNCHANGED rest
            \/ rest' = [rest EXCEPT ![s] = c.pos] /\ UNCHANGED ascii
         /\ c.op \in {"NOOP", "TYPE", "REST"}
      \/ May(s, c) /\ c.op \notin {"NOOP", "TYPE", "REST"} /\ Handle(s, c)
  BY DEF Receive, Refused, Plain, Type, Rest
<1>6. c.pos \in Nat /\ (c.pos = 1) \in BOOLEAN
  BY <1>2 DEF Command
<1> DEFINE Begun(l, r) == /\ pc' = [pc EXCEPT ![s] = l] /\ reply' = [reply EXCEPT ![s] = r]
                          /\ log' \in [Session -> BOOLEAN] /\ \A t \in Session : t # s => log'[t] = log[t]
<1> HIDE DEF c, home
<1>7. rest' \in [Session -> Nat] /\ ascii' \in [Session -> BOOLEAN]
  <2>1. CASE UNCHANGED mode
    BY <2>1 DEF mode, Values
  <2>2. CASE ascii' = [ascii EXCEPT ![s] = (c.pos = 1)] /\ UNCHANGED rest
    <3>1. rest' \in [Session -> Nat]
      BY <2>2 DEF Values
    <3> DEFINE a == (c.pos = 1)
    <3>2. ascii' = [ascii EXCEPT ![s] = a] /\ a \in BOOLEAN
      BY <1>6, <2>2
    <3> HIDE DEF a
    <3>3. ascii' \in [Session -> BOOLEAN]
      BY <3>2 DEF Values
    <3>. QED
      BY <3>1, <3>3
  <2>3. CASE rest' = [rest EXCEPT ![s] = c.pos] /\ UNCHANGED ascii
    BY <1>6, <2>3 DEF Values
  <2>4. CASE Handle(s, c)
    BY <2>4 DEF Handle, Values
  <2>. QED
    BY <1>5, <2>1, <2>2, <2>3, <2>4
<1>8. \/ Begun("done", "fail")
      \/ /\ c.op \in {"NOOP", "TYPE", "REST"} /\ log' = log
         /\ \E answer \in {"ok", "fail"} : Begun("done", answer)
      \/ /\ May(s, c) /\ c.op \notin {"NOOP", "TYPE", "REST"} /\ Admitted(s, c)
         /\ Begun(FirstStep(c), "none")
  <2>1. ASSUME NEW answer, AnswerAt(s, answer) PROVE Begun("done", answer) /\ log' = log
    BY <2>1 DEF AnswerAt, Values
  <2>2. ASSUME May(s, c), c.op \notin {"NOOP", "TYPE", "REST"}, Handle(s, c)
        PROVE  Begun("done", "fail") \/ (Admitted(s, c) /\ Begun(FirstStep(c), "none"))
    <3> DEFINE resume == c.op = "RETR" /\ ascii[s] /\ rest[s] # 0
               entry == c.op \in Logged /\ ~resume
               ok == ~resume /\ Admitted(s, c)
    <3>1. /\ IF entry THEN StartEntry(s) ELSE UNCHANGED log
          /\ pc' = [pc EXCEPT ![s] =
               IF entry /\ log[s] THEN "bug" ELSE IF ok THEN FirstStep(c) ELSE "done"]
          /\ reply' = [reply EXCEPT ![s] = IF ok THEN "none" ELSE "fail"]
      BY <2>2 DEF Handle
    <3> HIDE DEF resume, entry
    <3>2. log' \in [Session -> BOOLEAN] /\ \A t \in Session : t # s => log'[t] = log[t]
      BY <3>1 DEF StartEntry, Values
    <3>. QED
      BY <3>1, <3>2
  <2>. QED
    BY <1>5, <2>1, <2>2
<1>9. PICK l \in Labels, r \in Replies : Begun(l, r)
  BY <1>4, <1>8 DEF Labels, Replies
<1>10. pc' \in [Session -> Labels] /\ reply' \in [Session -> Replies] /\ log' \in [Session -> BOOLEAN]
  BY <1>9 DEF Values, Replies
<1>11. cmd' \in [Session -> Command] /\ line' \in [Session -> Replies] /\ from' \in [Session -> Nat]
  BY <1>1, <1>2 DEF Values, Replies
<1>12. spool' \in [Session -> Place \cup {None}] /\ script' \in [Session -> Seq(Command)]
  BY <1>1, <1>2, <1>3 DEF Values
<1>13. tries' \in [Session -> 0 .. 2]
  BY <1>1, SMTT(30) DEF Values
<1>14. Values'
  BY <1>1, <1>7, <1>10, <1>11, <1>12, <1>13 DEF Values, Replies
<1>15. Local(s)
  BY <1>1, <1>9 DEF Local, Still, Values
<1>16. cmd'[s] = c /\ line'[s] = "none" /\ tries'[s] = 2
  BY <1>1 DEF Values
<1>17. ASSUME NEW a, NEW b, Begun(a, b) PROVE pc'[s] = a /\ reply'[s] = b
  BY <1>17 DEF Values
<1>18. pc' = [pc EXCEPT ![s] = pc'[s]] /\ cmd' = [cmd EXCEPT ![s] = cmd'[s]] /\ reply' = [reply EXCEPT ![s] = reply'[s]]
  BY <1>1, <1>9, <1>16, <1>17
<1>19. log' = log => log'[s] = FALSE
  <2>1. log[s] \in BOOLEAN
    BY DEF Values
  <2>. QED
    BY <2>1
<1> HIDE DEF Begun
<1>20. \/ pc'[s] = "done" /\ reply'[s] = "fail"
       \/ /\ pc'[s] = "done" /\ reply'[s] \in {"ok", "fail"} /\ log'[s] = FALSE
          /\ c.op \in {"NOOP", "TYPE", "REST"}
       \/ /\ pc'[s] = FirstStep(c) /\ reply'[s] = "none" /\ May(s, c)
          /\ Admitted(s, c) /\ c.op \notin {"NOOP", "TYPE", "REST"}
  BY <1>8, <1>17, <1>19
<1>. QED
  BY <1>1, <1>2, <1>14, <1>15, <1>16, <1>18, <1>20

-----------------------------------------------------------------------------
(***************************************************************************)
(* The invariant.  What each step does to the session that takes it is     *)
(* Advance; what it does to the others follows from Local.                 *)
(***************************************************************************)
Progress(s) == Course(s) /\ Listing(s) /\ Reading(s) /\ Removing(s) /\ Changing(s)
Tree == \A t \in Session : t \notin gone => cwd[t] \in disk \cup {Root}
Advance(s) ==
  /\ Values' /\ Local(s) /\ Fixed /\ pc[s] \notin {"idle", "done"} /\ pc'[s] # "idle"
  /\ cmd[s].op = "CWD" \/ cwd'[s] = cwd[s]
  /\ Tree' /\ Versions' /\ Progress(s)'

LEMMA Memory ==
  ASSUME TypeOK, Watch, NEW t \in Session, cmd'[t] = cmd[t], pc[t] # "idle", pc'[t] # "idle"
  PROVE  /\ at'[t] = at[t]
         /\ ~touched'[t] => ~touched[t] /\ ~Disturbed(t)
         /\ always'[t] \subseteq always[t]
         /\ cmd[t].op \in {"LIST", "RMD"} => ever[t] \subseteq ever'[t]
         /\ cmd[t].op \in {"LIST", "RMD"} /\ at[t] # None =>
              /\ Entries(object', folder', at[t]) \subseteq ever'[t]
              /\ always'[t] \subseteq Entries(object', folder', at[t])
         /\ did'[t] = IF pc'[t] = pc[t] \/ ~Changed THEN did[t] ELSE Effect(t)
<1>1. at'[t] = at[t] /\ did'[t] = IF pc'[t] = pc[t] \/ ~Changed THEN did[t] ELSE Effect(t)
  BY Watched
<1>2. ~touched'[t] => ~touched[t] /\ ~Disturbed(t)
  BY Watched
<1>3. /\ always'[t] = IF cmd[t].op \notin {"LIST", "RMD"} THEN {} ELSE always[t] \cap Seen(object', folder', at[t])
      /\ ever'[t] = IF cmd[t].op \notin {"LIST", "RMD"} THEN {} ELSE ever[t] \cup Seen(object', folder', at[t])
  BY <1>1, Watched
<1>. QED
  BY <1>1, <1>2, <1>3 DEF Seen

LEMMA RememberedNext ==
  ASSUME TypeOK, Watch, NEW t \in Session, pc[t] # "idle" /\ pc'[t] # "idle" => cmd'[t] = cmd[t]
  PROVE  Remembered(t)'
<1>1. SUFFICES ASSUME pc'[t] # "idle", cmd'[t].op \in {"LIST", "RMD"}, at'[t] # None
               PROVE  /\ always'[t] \subseteq Entries(object', folder', at'[t])
                      /\ Entries(object', folder', at'[t]) \subseteq ever'[t]
  BY DEF Remembered
<1>2. CASE pc[t] = "idle"
  <2>1. always'[t] = Seen(object', folder', at'[t]) /\ ever'[t] = Seen(object', folder', at'[t])
    BY <1>1, <1>2, Watched
  <2>. QED
    BY <1>1, <2>1 DEF Seen
<1>3. CASE pc[t] # "idle"
  BY <1>1, <1>3, Memory
<1>. QED
  BY <1>2, <1>3

LEMMA WhereaboutsNext ==
  ASSUME TypeOK, Watch, NEW t \in Session, Whereabouts(t), Tree',
         cmd'[t] = cmd[t], (pc'[t] = "idle") <=> (pc[t] = "idle"), Succeeding(t)' => Succeeding(t),
         cmd[t].op = "CWD" \/ cwd'[t] = cwd[t]
  PROVE  Whereabouts(t)'
<1>1. t \notin gone' => cwd'[t] \in disk' \cup {Root}
  BY DEF Tree
<1>2. CASE pc[t] = "idle"
  BY <1>1, <1>2 DEF Whereabouts, Succeeding
<1>3. CASE pc[t] # "idle"
  <2>1. at'[t] = at[t] /\ (~touched'[t] => ~touched[t] /\ ~Disturbed(t))
    BY <1>3, Memory
  <2>2. cmd'[t].dir = Here /\ t \in gone' => touched'[t]
    BY <2>1 DEF Disturbed
  <2>3. cmd'[t].dir # Here => at'[t] = cmd'[t].dir
    BY <1>3, <2>1 DEF Whereabouts
  <2>4. cmd'[t].op # "CWD" /\ cmd'[t].dir = Here /\ at'[t] # None => at'[t] = cwd'[t]
    BY <1>3, <2>1 DEF Whereabouts
  <2>5. cmd'[t].op \in {"DELE", "RETR"} /\ Succeeding(t)' => at'[t] # None
    BY <2>1 DEF Whereabouts
  <2>. QED
    BY <1>1, <2>2, <2>3, <2>4, <2>5 DEF Whereabouts
<1>. QED
  BY <1>2, <1>3

\* A step of another session.
LEMMA OthersNext ==
  ASSUME TypeOK, Watch, NEW t \in Session, Ordered(t), Still(t), Tree'
  PROVE  Ordered(t)'
<1>1. cmd'[t] = cmd[t] /\ pc'[t] = pc[t] /\ reply'[t] = reply[t]
  BY DEF Still
<1>2. Remembered(t)'
  BY <1>1, RememberedNext
<1>3. Whereabouts(t)'
  <2>1. Succeeding(t)' => Succeeding(t)
    BY <1>1 DEF Succeeding
  <2>2. cwd'[t] = cwd[t] /\ Whereabouts(t)
    BY DEF Still, Ordered
  <2>. QED
    BY <1>1, <2>1, <2>2, WhereaboutsNext
<1>4. did'[t] = did[t]
  <2>1. CASE pc[t] = "idle"
    <3>1. did[t] = "nothing"
      BY <2>1 DEF Ordered, Course
    <3>. QED
      BY <1>1, <2>1, <3>1, Watched
  <2>2. CASE pc[t] # "idle"
    BY <1>1, <2>2, Memory
  <2>. QED
    BY <2>1, <2>2
<1>5. Course(t)' /\ Changing(t)'
  BY <1>1, <1>4 DEF Ordered, Course, Changing, Still
<1>6. CASE pc[t] = "idle"
  BY <1>1, <1>2, <1>3, <1>5, <1>6 DEF Ordered, Listing, Reading, Removing, Succeeding
<1>7. CASE pc[t] # "idle"
  <2>1. /\ at'[t] = at[t] /\ (~touched'[t] => ~touched[t] /\ ~Disturbed(t))
        /\ always'[t] \subseteq always[t] /\ (cmd[t].op \in {"LIST", "RMD"} => ever[t] \subseteq ever'[t])
    BY <1>1, <1>7, Memory
  <2>2. Removing(t)'
    BY <1>1, <2>1 DEF Ordered, Removing, Succeeding
  <2>3. Listing(t)'
    BY <1>1, <2>1 DEF Ordered, Listing, Still
  <2>4. Reading(t)'
    <3>1. SUFFICES ASSUME cmd[t].op = "RETR" PROVE Reading(t)'
      BY <1>1 DEF Reading
    <3>2. cmd[t].name \in Name /\ None \notin Name
      BY <3>1, NamesOf, StoreAssumption DEF TypeOK
    <3>3. Succeeding(t) => at[t] # None
      BY <3>1 DEF Ordered, Whereabouts
    <3>4. Succeeding(t) /\ ~touched'[t] => ~touched[t] /\ File1(t)' = File1(t)
      BY <1>1, <2>1, <3>2, <3>3 DEF Disturbed, Spot, File1
    <3>5. (pc[t] = "retr" \/ (pc[t] = "done" /\ reply[t] = "ok")) => Succeeding(t)
      BY DEF Succeeding
    <3>. QED
      BY <1>1, <1>7, <3>1, <3>4, <3>5 DEF Ordered, Reading, Still
  <2>. QED
    BY <1>2, <1>3, <1>5, <2>2, <2>3, <2>4 DEF Ordered
<1>. QED
  BY <1>6, <1>7

\* A step of a handler.
LEMMA AdvanceKeeps ==
  ASSUME IInv, Watch, NEW s \in Session, Advance(s)
  PROVE  IInv'
<1>1. TypeOK /\ Ordered(s) /\ cmd' = cmd /\ Values' /\ Versions' /\ Tree' /\ Local(s) /\ Progress(s)'
  BY DEF IInv, Advance, Fixed
<1>2. TypeOK'
  BY <1>1, MemoriesNext DEF TypeOK, Values
<1>3. Ordered(s)'
  <2>1. pc[s] \notin {"idle", "done"} /\ pc'[s] # "idle" /\ (cmd[s].op = "CWD" \/ cwd'[s] = cwd[s])
    BY DEF Advance
  <2>2. Remembered(s)'
    BY <1>1, RememberedNext
  <2>3. Succeeding(s) /\ Whereabouts(s)
    BY <1>1, <2>1 DEF Succeeding, Ordered
  <2>4. Whereabouts(s)'
    BY <1>1, <2>1, <2>3, WhereaboutsNext
  <2>. QED
    BY <1>1, <2>2, <2>4 DEF Ordered, Progress
<1>4. ASSUME NEW t \in Session, t # s PROVE Ordered(t)'
  BY <1>1, <1>4, OthersNext DEF IInv, Local
<1>. QED
  BY <1>1, <1>2, <1>3, <1>4 DEF IInv

Goes(s, l) ==
  /\ GoneTo(s, l) /\ Runs(cmd[s].op, l)
  /\ l = "mkdirs" => cmd[s].dir \in Dir
  /\ l \in {"list_stat", "list_test", "page"} => tries'[s] \in 1 .. 2

LEMMA CourseNext ==
  ASSUME NEW s \in Session, Course(s), cmd'[s] = cmd[s], pc[s] \notin {"idle", "done"},
         \/ \E l : Goes(s, l)
         \/ HasFailed(s) \/ HasSucceeded(s)
  PROVE  Course(s)' /\ pc'[s] # "idle"
<1>1. reply[s] = "none" /\ line[s] = "none" /\ May(s, cmd[s])
  BY DEF Course
<1>2. CASE HasFailed(s)
  BY <1>1, <1>2 DEF HasFailed, Course
<1>3. CASE HasSucceeded(s)
  BY <1>1, <1>3 DEF HasSucceeded, Course
<1>4. ASSUME NEW l, Goes(s, l)
      PROVE  Course(s)' /\ pc'[s] # "idle"
  <2>1. pc'[s] = l /\ reply'[s] = "none" /\ line'[s] = "none" /\ l \notin {"idle", "done"}
    BY <1>1, <1>4 DEF Goes, GoneTo, Runs
  <2>2. May(s, cmd[s])'
    BY <1>1 DEF May, Listed
  <2>. QED
    BY <1>1, <1>4, <2>1, <2>2 DEF Goes, Course
<1>. QED
  BY <1>2, <1>3, <1>4

LEMMA TreeNow == ASSUME IInv PROVE Tree
BY DEF IInv, Ordered, Whereabouts, Tree

LEMMA VersionsKept == ASSUME Versions, UNCHANGED <<object, stores>> PROVE Versions'
BY DEF Versions

LEMMA Command1 ==
  ASSUME IInv, NEW s \in Session, pc[s] \notin {"idle", "done"}
  PROVE  /\ Values /\ TypeOK /\ Versions /\ Tree /\ Course(s) /\ Listing(s) /\ Reading(s) /\ Removing(s)
         /\ Changing(s) /\ Whereabouts(s) /\ Runs(cmd[s].op, pc[s])
BY TreeNow DEF IInv, TypeOK, Ordered, Course

LEMMA CwdAdvance ==
  ASSUME IInv, Watch, NEW s \in Session, CwdStat(s) \/ CwdList(s) \/ Chdir(s) \/ Mkdirs(s)
  PROVE  Advance(s)
<1>1. pc[s] \in {"cwd_stat", "cwd_list", "chdir", "chdir_again", "mkdirs"}
  BY DEF CwdStat, CwdList, Chdir, Mkdirs
<1>2. Values /\ Versions /\ Tree /\ Course(s) /\ Whereabouts(s) /\ TypeOK
  BY <1>1, Command1
<1>3. cmd[s].op = "CWD"
  BY <1>1, Command1 DEF Runs
<1>4. {"chdir", "cwd_list", "done"} \subseteq Labels
  BY DEF Labels
<1>5. /\ Values' /\ Local(s) /\ Fixed /\ UNCHANGED <<folder, object, stores>> /\ Tree'
      /\ \/ \E l \in {"chdir", "cwd_list", "chdir_again"} : GoneTo(s, l)
         \/ GoneTo(s, "mkdirs") /\ cmd[s].dir \in Dir
         \/ HasFailed(s) \/ HasSucceeded(s)
  <2>1. CASE CwdStat(s)
    BY <1>2, <1>4, <2>1, StatDirEffect DEF CwdStat, Tree
  <2>2. CASE CwdList(s)
    BY <1>2, <1>4, <2>2, ListToTestEffect DEF CwdList, Tree
  <2>3. CASE Chdir(s)
    <3> DEFINE d == Resolve(s, cmd[s].dir)
    <3>1. /\ Values' /\ Local(s) /\ Fixed /\ UNCHANGED <<folder, object, stores, disk>>
          /\ \/ d \in disk \cup {Root} /\ cwd'[s] = d /\ gone' = gone \ {s} /\ HasSucceeded(s)
             \/ /\ d \notin disk \cup {Root} /\ UNCHANGED <<cwd, gone>>
                /\ GoneTo(s, "mkdirs") \/ HasFailed(s)
      BY <1>2, <2>3, ChdirEffect
    <3>2. d \notin disk \cup {Root} => cmd[s].dir \in Dir
      <4>1. cmd[s].dir \in Place \cup {Here} /\ (s \notin gone => cwd[s] \in disk \cup {Root})
        BY <1>2, NamesOf DEF Whereabouts
      <4>. QED
        BY <4>1 DEF Resolve, Place
    <3> HIDE DEF d
    <3>3. Tree'
      BY <1>2, <3>1 DEF Tree, Local, Still
    <3>. QED
      BY <3>1, <3>2, <3>3
  <2>4. CASE Mkdirs(s)
    <3>1. cmd[s].dir \in Dir
      BY <1>2, <2>4 DEF Mkdirs, Course
    <3>. QED
      BY <1>2, <2>4, <3>1, MkdirsEffect DEF Tree
  <2>. QED
    BY <2>1, <2>2, <2>3, <2>4
<1>6. cmd'[s] = cmd[s]
  BY <1>5 DEF Fixed
<1>7. Course(s)' /\ pc'[s] # "idle"
  <2>1. Runs(cmd[s].op, "chdir") /\ Runs(cmd[s].op, "cwd_list") /\ Runs(cmd[s].op, "chdir_again") /\ Runs(cmd[s].op, "mkdirs")
    BY <1>3 DEF Runs
  <2>2. \/ \E l : Goes(s, l)
        \/ HasFailed(s) \/ HasSucceeded(s)
    BY <1>5, <2>1, SMTT(30) DEF Goes
  <2>. QED
    BY <1>1, <1>2, <1>6, <2>2, CourseNext
<1>8. Progress(s)'
  BY <1>3, <1>6, <1>7 DEF Progress, Course, Runs, Listing, Reading, Removing, Changing, Writers
<1>9. Versions'
  BY <1>2, <1>5, VersionsKept
<1>. QED
  BY <1>1, <1>3, <1>5, <1>7, <1>8, <1>9 DEF Advance

LEMMA MkdAdvance ==
  ASSUME IInv, Watch, NEW s \in Session, Mkd(s) \/ MkdDisk(s)
  PROVE  Advance(s)
<1>1. pc[s] \in {"mkd", "mkd_disk"}
  BY DEF Mkd, MkdDisk
<1>2. Values /\ Versions /\ Tree /\ Course(s) /\ Changing(s) /\ TypeOK
  BY <1>1, Command1
<1>3. cmd[s].op = "MKD"
  BY <1>1, Command1 DEF Runs
<1>4. cmd[s].dir \in Dir
  BY <1>2, <1>3, NamesOf
<1>5. /\ Values' /\ Local(s) /\ Fixed /\ UNCHANGED <<object, stores, cwd>> /\ Tree'
      /\ \/ pc[s] = "mkd" /\ folder' # folder /\ GoneTo(s, "mkd_disk")
         \/ pc[s] = "mkd_disk" /\ UNCHANGED folder /\ HasSucceeded(s)
         \/ HasFailed(s)
  <2>1. CASE Mkd(s)
    BY <1>2, <1>4, <2>1, MkdEffect DEF Tree
  <2>2. CASE MkdDisk(s)
    BY <1>2, <1>4, <2>2, MkdDiskEffect DEF Tree
  <2>. QED
    BY <2>1, <2>2
<1>6. cmd'[s] = cmd[s] /\ Runs(cmd[s].op, "mkd_disk")
  BY <1>3, <1>5 DEF Fixed, Runs
<1>7. Course(s)' /\ pc'[s] # "idle"
  <2>1. (\E l : Goes(s, l)) \/ HasFailed(s) \/ HasSucceeded(s)
    BY <1>5, <1>6, SMTT(30) DEF Goes
  <2>. QED
    BY <1>1, <1>2, <1>6, <2>1, CourseNext
<1>8. did'[s] = IF pc'[s] = pc[s] \/ ~Changed THEN did[s] ELSE Effect(s)
  BY <1>1, <1>2, <1>6, <1>7, Memory
<1>9. Changing(s)'
  <2>1. Effect(s) = "done"
    BY <1>3 DEF Effect
  <2>. QED
    BY <1>2, <1>3, <1>5, <1>6, <1>8, <2>1 DEF Changing, Changed, GoneTo, HasSucceeded, HasFailed
<1>10. Progress(s)'
  BY <1>3, <1>6, <1>7, <1>9 DEF Progress, Course, Runs, Listing, Reading, Removing
<1>11. Versions'
  BY <1>2, <1>5, VersionsKept
<1>. QED
  BY <1>1, <1>5, <1>7, <1>10, <1>11 DEF Advance

LEMMA RmdAdvance ==
  ASSUME IInv, Watch, NEW s \in Session, RmdList(s) \/ Rmd(s) \/ RmdDisk(s)
  PROVE  Advance(s)
<1>1. pc[s] \in {"rmd_list", "rmd", "rmd_disk"}
  BY DEF RmdList, Rmd, RmdDisk
<1>2. Values /\ Versions /\ Tree /\ Course(s) /\ Changing(s) /\ Removing(s) /\ Whereabouts(s) /\ TypeOK
  BY <1>1, Command1
<1>3. cmd[s].op = "RMD"
  BY <1>1, Command1 DEF Runs
<1>4. /\ Values' /\ Local(s) /\ Fixed /\ UNCHANGED <<object, stores, cwd>> /\ Tree'
      /\ \/ /\ pc[s] = "rmd_list" /\ UNCHANGED folder /\ GoneTo(s, "rmd")
            /\ Entries(object, folder, cmd[s].dir) = {}
         \/ pc[s] = "rmd" /\ folder' # folder /\ GoneTo(s, "rmd_disk")
         \/ pc[s] = "rmd_disk" /\ UNCHANGED folder /\ HasSucceeded(s)
         \/ HasFailed(s)
  <2>1. CASE RmdList(s)
    BY <1>2, <2>1, RmdListEffect DEF Tree
  <2>2. CASE Rmd(s)
    BY <1>2, <2>2, RmdEffect DEF Tree
  <2>3. CASE RmdDisk(s)
    BY <1>2, <2>3, RmdDiskEffect DEF Tree
  <2>. QED
    BY <2>1, <2>2, <2>3
<1>5. cmd'[s] = cmd[s] /\ Runs(cmd[s].op, "rmd") /\ Runs(cmd[s].op, "rmd_disk")
  BY <1>3, <1>4 DEF Fixed, Runs
<1>6. Course(s)' /\ pc'[s] # "idle"
  <2>1. (\E l : Goes(s, l)) \/ HasFailed(s) \/ HasSucceeded(s)
    BY <1>4, <1>5, SMT DEF Goes
  <2>. QED
    BY <1>1, <1>2, <1>5, <2>1, CourseNext
<1>7. /\ did'[s] = IF pc'[s] = pc[s] \/ ~Changed THEN did[s] ELSE Effect(s)
      /\ always'[s] \subseteq always[s]
      /\ at[s] # None => always'[s] \subseteq Entries(object', folder', at[s])
  BY <1>1, <1>2, <1>3, <1>5, <1>6, Memory
<1>8. Changing(s)'
  <2>1. Effect(s) = "done"
    BY <1>3 DEF Effect
  <2>. QED
    BY <1>2, <1>3, <1>4, <1>5, <1>7, <2>1 DEF Changing, Changed, GoneTo, HasSucceeded, HasFailed
<1>9. Removing(s)'
  <2>1. CASE pc[s] = "rmd_list" /\ UNCHANGED folder /\ Entries(object, folder, cmd[s].dir) = {}
    <3>1. cmd[s].dir # Here /\ cmd[s].dir # None
      BY <1>2, <1>3, NamesOf, StoreAssumption, SMTT(30) DEF Place
    <3>2. at[s] = cmd[s].dir
      BY <1>1, <1>2, <3>1 DEF Whereabouts
    <3>3. always'[s] = {}
      BY <1>4, <1>7, <2>1, <3>1, <3>2
    <3>. QED
      BY <3>3 DEF Removing
  <2>2. CASE pc[s] \in {"rmd", "rmd_disk"}
    <3>1. always[s] = {}
      BY <1>2, <1>3, <2>2 DEF Removing, Succeeding
    <3>. QED
      BY <1>7, <3>1 DEF Removing
  <2>3. CASE HasFailed(s)
    BY <2>3 DEF HasFailed, Removing, Succeeding
  <2>. QED
    BY <1>4, <2>1, <2>2, <2>3
<1>10. Progress(s)'
  BY <1>3, <1>5, <1>6, <1>8, <1>9 DEF Progress, Course, Runs, Listing, Reading
<1>11. Versions'
  BY <1>2, <1>4, VersionsKept
<1>. QED
  BY <1>1, <1>4, <1>6, <1>10, <1>11 DEF Advance

LEMMA DeleAdvance ==
  ASSUME IInv, Watch, NEW s \in Session, Dele(s) \/ Size(s)
  PROVE  Advance(s)
<1>1. pc[s] \in {"dele", "size"}
  BY DEF Dele, Size
<1>2. Values /\ Versions /\ Tree /\ Course(s) /\ Changing(s) /\ TypeOK
  BY <1>1, Command1
<1>3. cmd[s].op \in {"DELE", "SIZE"} /\ (pc[s] = "dele" => cmd[s].op = "DELE") /\ (pc[s] = "size" => cmd[s].op = "SIZE")
  BY <1>1, Command1 DEF Runs
<1>4. Target(s) \in File
  BY <1>2, <1>3, NamesOf
<1>5. /\ Values' /\ Local(s) /\ Fixed /\ UNCHANGED <<folder, stores, disk, cwd, gone>>
      /\ object' \in {object, [object EXCEPT ![Target(s)] = None]}
      /\ (HasSucceeded(s) /\ (pc[s] = "dele" => object' # object)) \/ HasFailed(s)
  <2>1. CASE Dele(s)
    <3>1. object[Target(s)] # None => [object EXCEPT ![Target(s)] = None] # object
      BY <1>2, <1>4 DEF Values
    <3>. QED
      BY <1>2, <1>4, <2>1, <3>1, DeleEffect
  <2>2. CASE Size(s)
    BY <1>2, <2>2, SizeEffect
  <2>. QED
    BY <2>1, <2>2
<1>6. cmd'[s] = cmd[s] /\ Tree'
  BY <1>2, <1>5 DEF Fixed, Tree
<1>7. Course(s)' /\ pc'[s] # "idle"
  BY <1>1, <1>2, <1>5, <1>6, CourseNext
<1>8. did'[s] = IF pc'[s] = pc[s] \/ ~Changed THEN did[s] ELSE Effect(s)
  BY <1>1, <1>2, <1>6, <1>7, Memory
<1>9. Changing(s)'
  <2>1. Effect(s) = "done"
    BY <1>3 DEF Effect
  <2>. QED
    BY <1>1, <1>2, <1>3, <1>5, <1>6, <1>8, <2>1 DEF Changing, Changed, HasSucceeded, HasFailed, Writers
<1>10. Progress(s)'
  BY <1>3, <1>6, <1>7, <1>9 DEF Progress, Course, Runs, Listing, Reading, Removing
<1>11. Versions'
  BY <1>2, <1>4, <1>5 DEF Versions, Values
<1>. QED
  BY <1>1, <1>5, <1>6, <1>7, <1>10, <1>11 DEF Advance

\* The argument is where it was when the command came, unless its directory went.
LEMMA ArgumentStays ==
  ASSUME NEW s \in Session, Whereabouts(s), pc[s] # "idle", cmd[s].op # "CWD", at[s] # None,
         ~ (cmd[s].dir = Here /\ s \in gone)
  PROVE  Resolve(s, cmd[s].dir) = at[s] /\ Target(s) = Spot(s)
BY DEF Whereabouts, Resolve, Target, Spot

LEMMA RetrAdvance ==
  ASSUME IInv, Watch, NEW s \in Session, RetrStat(s) \/ Retr(s)
  PROVE  Advance(s)
<1> DEFINE o == object[Target(s)]
           next == from[s] + Len(sent[s])
<1>1. pc[s] \in {"retr_stat", "retr"}
  BY DEF RetrStat, Retr
<1>2. /\ Values /\ Versions /\ Tree /\ Course(s) /\ Changing(s) /\ Reading(s) /\ Whereabouts(s) /\ TypeOK
  BY <1>1, Command1
<1>3. cmd[s].op = "RETR" /\ Succeeding(s)
  BY <1>1, Command1 DEF Runs, Succeeding
<1>4. Target(s) \in File /\ cmd[s].name \in Name
  BY <1>2, <1>3, NamesOf
<1>5. /\ Values' /\ Local(s) /\ Fixed /\ UNCHANGED <<folder, object, stores, disk, cwd, gone>>
      /\ \/ /\ pc[s] = "retr_stat" /\ o # None /\ size'[s] = o.size /\ UNCHANGED sent /\ GoneTo(s, "retr")
         \/ /\ pc[s] = "retr" /\ UNCHANGED size /\ next < size[s] /\ o # None /\ next < o.size
            /\ sent'[s] = Append(sent[s], <<o.ver, next>>) /\ GoneTo(s, "retr")
         \/ /\ pc[s] = "retr" /\ UNCHANGED <<size, sent>>
            /\ next >= size[s] \/ (next < size[s] /\ o # None /\ o.size = 0)
            /\ HasSucceeded(s)
         \/ UNCHANGED sent /\ HasFailed(s)
  <2>1. CASE RetrStat(s)
    BY <1>2, <1>4, <2>1, RetrStatEffect
  <2>2. CASE Retr(s)
    BY <1>2, <1>4, <2>2, RetrEffect
  <2>. QED
    BY <2>1, <2>2
<1>6. cmd'[s] = cmd[s] /\ from'[s] = from[s] /\ Tree' /\ Runs(cmd[s].op, "retr")
  BY <1>2, <1>3, <1>5 DEF Fixed, Tree, Runs
<1>7. Course(s)' /\ pc'[s] # "idle"
  <2>1. (\E l : Goes(s, l)) \/ HasFailed(s) \/ HasSucceeded(s)
    BY <1>5, <1>6, SMTT(30) DEF Goes
  <2>. QED
    BY <1>1, <1>2, <1>6, <2>1, CourseNext
<1>8. at'[s] = at[s] /\ (~touched'[s] => ~touched[s] /\ ~Disturbed(s))
  BY <1>1, <1>2, <1>6, <1>7, Memory
<1>9. ~touched'[s] => File1(s) = o /\ ~touched[s]
  <2>1. at[s] # None
    BY <1>2, <1>3 DEF Whereabouts
  <2>2. Disturbed(s) \/ ~ (cmd[s].dir = Here /\ s \in gone)
    BY <1>5 DEF Disturbed
  <2>. QED
    BY <1>1, <1>2, <1>3, <1>8, <2>1, <2>2, ArgumentStays DEF File1, Spot
<1>10. File1(s)' = File1(s)
  BY <1>5, <1>6, <1>8 DEF File1
<1>11. sent[s] \in Seq(Nat \X Nat) /\ from[s] \in Nat /\ size[s] \in Nat /\ Len(sent[s]) \in Nat
  BY <1>2, SMTT(30) DEF Values
<1> HIDE DEF o
<1>12. Reading(s)'
  <2>1. CASE pc[s] = "retr_stat" /\ o # None /\ size'[s] = o.size /\ UNCHANGED sent /\ GoneTo(s, "retr")
    <3>1. sent'[s] = <<>>
      BY <1>2, <1>3, <2>1 DEF Reading
    <3>2. pc'[s] = "retr"
      BY <2>1 DEF GoneTo
    <3>3. \A i \in 1 .. Len(sent'[s]) : FALSE
      BY <3>1, SMT
    <3>. QED
      BY <1>9, <1>10, <2>1, <3>1, <3>2, <3>3 DEF Reading
  <2>2. CASE /\ pc[s] = "retr" /\ UNCHANGED size /\ next < size[s] /\ o # None /\ next < o.size
             /\ sent'[s] = Append(sent[s], <<o.ver, next>>) /\ GoneTo(s, "retr")
    <3>1. pc'[s] = "retr"
      BY <2>2 DEF GoneTo
    <3>2. Len(sent'[s]) = Len(sent[s]) + 1
      BY <1>11, <2>2, SMTT(30)
    <3>3. ASSUME NEW i \in 1 .. Len(sent'[s])
          PROVE  /\ sent'[s][i][2] = from[s] + i - 1
                 /\ ~touched'[s] => sent'[s][i][1] = File1(s).ver
      <4>1. CASE i \in 1 .. Len(sent[s])
        <5>1. sent'[s][i] = sent[s][i]
          BY <1>11, <2>2, <4>1, SMTT(30)
        <5>2. sent[s][i][2] = from[s] + i - 1
          BY <1>2, <1>3, <2>2, <4>1 DEF Reading
        <5>3. ~touched[s] => sent[s][i][1] = File1(s).ver
          BY <1>2, <1>3, <2>2, <4>1 DEF Reading
        <5>. QED
          BY <1>9, <5>1, <5>2, <5>3
      <4>2. CASE i = Len(sent[s]) + 1
        <5>1. sent'[s][i] = <<o.ver, next>>
          BY <1>11, <2>2, <4>2, SMTT(30)
        <5>2. next = from[s] + i - 1
          BY <1>11, <4>2, SMTT(30)
        <5>3. sent'[s][i][1] = o.ver /\ sent'[s][i][2] = next
          BY <5>1, SMTT(30)
        <5>. QED
          BY <1>9, <5>2, <5>3
      <4>. QED
        BY <1>11, <3>2, <3>3, <4>1, <4>2, SMTT(30)
    <3>4. from'[s] + Len(sent'[s]) <= size'[s]
      BY <1>6, <1>11, <2>2, <3>2, SMTT(30)
    <3>5. ~touched'[s] => File1(s)' # None /\ size'[s] = File1(s)'.size
      BY <1>2, <1>3, <1>9, <1>10, <2>2 DEF Reading
    <3>6. /\ \A i \in 1 .. Len(sent'[s]) : sent'[s][i][2] = from'[s] + i - 1
          /\ ~touched'[s] => \A i \in 1 .. Len(sent'[s]) : sent'[s][i][1] = File1(s)'.ver
      BY <1>6, <1>10, <3>3
    <3>. QED
      BY <3>1, <3>4, <3>5, <3>6 DEF Reading
  <2>3. CASE /\ pc[s] = "retr" /\ UNCHANGED <<size, sent>>
             /\ next >= size[s] \/ (next < size[s] /\ o # None /\ o.size = 0)
             /\ HasSucceeded(s)
    <3>1. pc'[s] = "done" /\ reply'[s] = "ok"
      BY <2>3 DEF HasSucceeded
    <3>2. /\ \A i \in 1 .. Len(sent[s]) : sent[s][i][2] = from[s] + i - 1
          /\ sent[s] = <<>> \/ next <= size[s]
          /\ ~touched[s] => /\ size[s] = File1(s).size
                            /\ \A i \in 1 .. Len(sent[s]) : sent[s][i][1] = File1(s).ver
      BY <1>2, <1>3, <2>3 DEF Reading
    <3>3. sent[s] = <<>> => Len(sent[s]) = 0
      BY SMTT(30)
    <3>4. ~touched'[s] => next >= File1(s).size /\ Len(sent[s]) <= File1(s).size
      BY <1>9, <1>11, <2>3, <3>2, <3>3, SMTT(30)
    <3>. QED
      BY <1>6, <1>9, <1>10, <2>3, <3>1, <3>2, <3>4 DEF Reading
  <2>4. CASE UNCHANGED sent /\ HasFailed(s)
    <3>1. pc'[s] = "done" /\ reply'[s] = "fail"
      BY <2>4 DEF HasFailed
    <3>2. \A i \in 1 .. Len(sent[s]) : sent[s][i][2] = from[s] + i - 1
      BY <1>1, <1>2, <1>3 DEF Reading
    <3>. QED
      BY <1>6, <2>4, <3>1, <3>2 DEF Reading
  <2>. QED
    BY <1>5, <2>1, <2>2, <2>3, <2>4
<1>13. Progress(s)'
  BY <1>3, <1>6, <1>7, <1>12 DEF Progress, Course, Runs, Listing, Removing, Changing, Writers
<1>14. Versions'
  BY <1>2, <1>5, VersionsKept
<1>. QED
  BY <1>1, <1>5, <1>6, <1>7, <1>13, <1>14 DEF Advance

LEMMA StorAdvance ==
  ASSUME IInv, Watch, NEW s \in Session, StorOpen(s) \/ StorSend(s)
  PROVE  Advance(s)
<1>1. pc[s] \in {"stor_open", "stor_send"}
  BY DEF StorOpen, StorSend
<1>2. Values /\ Versions /\ Tree /\ Course(s) /\ Changing(s) /\ TypeOK
  BY <1>1, Command1
<1>3. cmd[s].op = "STOR"
  BY <1>1, Command1 DEF Runs
<1>4. Target(s) \in File
  BY <1>2, <1>3, NamesOf
<1>5. /\ Values' /\ Local(s) /\ Fixed /\ UNCHANGED <<folder, disk, cwd, gone>>
      /\ stores' \in {stores, stores + 1}
      /\ \/ UNCHANGED object /\ pc[s] = "stor_open" /\ GoneTo(s, "stor_send")
         \/ /\ \E z \in 0 .. MaxSize : object' = [object EXCEPT ![Target(s)] = Stored(z)]
            /\ stores' = stores + 1 /\ (HasSucceeded(s) \/ HasFailed(s))
         \/ object' \in {object, [object EXCEPT ![Target(s)] = None]} /\ HasFailed(s)
  <2>1. CASE StorOpen(s)
    BY <1>2, <2>1, StorOpenEffect
  <2>2. CASE StorSend(s)
    BY <1>2, <1>4, <2>2, StorSendEffect
  <2>. QED
    BY <2>1, <2>2
<1>6. cmd'[s] = cmd[s] /\ Tree' /\ Runs(cmd[s].op, "stor_send")
  BY <1>2, <1>3, <1>5 DEF Fixed, Tree, Runs
<1>7. Course(s)' /\ pc'[s] # "idle"
  <2>1. (\E l : Goes(s, l)) \/ HasFailed(s) \/ HasSucceeded(s)
    BY <1>5, <1>6, SMTT(30) DEF Goes
  <2>. QED
    BY <1>1, <1>2, <1>6, <2>1, CourseNext
<1>8. did'[s] = IF pc'[s] = pc[s] \/ ~Changed THEN did[s] ELSE Effect(s)
  BY <1>1, <1>2, <1>6, <1>7, Memory
<1>9. ASSUME NEW z \in 0 .. MaxSize, object' = [object EXCEPT ![Target(s)] = Stored(z)]
      PROVE  object' # object /\ Effect(s) = "done"
  <2>1. Stored(z) \in Object /\ Stored(z).ver = stores /\ stores \in Nat
    BY <1>2 DEF Stored, Object, Values
  <2>2. Stored(z) # None
    BY <2>1, StoreAssumption
  <2>3. object[Target(s)] # Stored(z)
    <3>1. object[Target(s)] # None => object[Target(s)].ver < stores /\ object[Target(s)].ver \in Nat
      BY <1>2, <1>4 DEF Versions, Values, Object
    <3>. QED
      BY <2>1, <2>2, <3>1, SMTT(30)
  <2>4. object' # object
    BY <1>2, <1>4, <1>9, <2>3 DEF Values
  <2>5. ~ \E f \in File : object[f] # None /\ object'[f] = None
    BY <1>2, <1>4, <1>9, <2>2 DEF Values
  <2>. QED
    BY <2>4, <2>5 DEF Effect
<1>10. Changing(s)'
  <2>1. CASE UNCHANGED object /\ pc[s] = "stor_open" /\ GoneTo(s, "stor_send")
    BY <1>2, <1>5, <1>8, <2>1 DEF Changing, Changed, GoneTo
  <2>2. CASE HasFailed(s)
    BY <2>2 DEF HasFailed, Changing
  <2>3. CASE (\E z \in 0 .. MaxSize : object' = [object EXCEPT ![Target(s)] = Stored(z)]) /\ HasSucceeded(s)
    <3>1. Changed /\ Effect(s) = "done"
      BY <1>9, <2>3 DEF Changed
    <3>. QED
      BY <1>1, <1>8, <2>3, <3>1 DEF HasSucceeded, Changing
  <2>. QED
    BY <1>5, <2>1, <2>2, <2>3
<1>11. Progress(s)'
  BY <1>3, <1>6, <1>7, <1>10 DEF Progress, Course, Runs, Listing, Reading, Removing
<1>12. Versions'
  <2>1. SUFFICES ASSUME NEW f \in File, object'[f] # None PROVE object'[f].ver < stores'
    BY DEF Versions
  <2>2. stores \in Nat /\ (object[f] # None => object[f].ver < stores /\ object[f].ver \in Nat)
    BY <1>2 DEF Versions, Values, Object
  <2>3. CASE object'[f] = object[f]
    BY <1>5, <2>1, <2>2, <2>3, SMTT(30)
  <2>4. ASSUME NEW z \in 0 .. MaxSize, object' = [object EXCEPT ![Target(s)] = Stored(z)], stores' = stores + 1
        PROVE  object'[f].ver < stores'
    <3>1. object'[f] = object[f] \/ object'[f] = Stored(z)
      BY <1>2, <2>4 DEF Values
    <3>2. Stored(z).ver = stores
      BY DEF Stored
    <3>. QED
      BY <2>2, <2>3, <2>4, <3>1, <3>2, SMTT(30)
  <2>5. CASE object' \in {object, [object EXCEPT ![Target(s)] = None]}
    BY <1>2, <2>1, <2>3, <2>5 DEF Values
  <2>. QED
    BY <1>5, <2>4, <2>5
<1>. QED
  BY <1>1, <1>5, <1>6, <1>7, <1>11, <1>12 DEF Advance

\* The steps of LIST before and after its pages, and those of STAT.
LEMMA ListAdvance ==
  ASSUME IInv, Watch, NEW s \in Session, ListStat(s) \/ ListTest(s) \/ Single(s) \/ StatFolder(s) \/ Send(s)
  PROVE  Advance(s)
<1>1. pc[s] \in {"list_stat", "list_test", "list_file", "stat_file", "stat_dir", "send"}
  BY DEF ListStat, ListTest, Single, StatFolder, Send
<1>2. Values /\ Versions /\ Tree /\ Course(s) /\ Listing(s) /\ TypeOK
  BY <1>1, Command1
<1>3. /\ cmd[s].op \in {"LIST", "STAT"}
      /\ pc[s] \in {"list_stat", "list_test", "list_file"} => cmd[s].op = "LIST"
      /\ pc[s] \in {"stat_file", "stat_dir"} => cmd[s].op = "STAT"
  BY <1>1, Command1 DEF Runs
<1>4. {"page", "list_test", "list_file"} \subseteq Labels
  BY DEF Labels
<1>5. /\ Values' /\ Local(s) /\ Fixed
      /\ UNCHANGED <<folder, object, stores, disk, cwd, gone, tries, context, cut>>
      /\ \/ pc[s] \in {"list_stat", "list_test"} /\ UNCHANGED list /\ GoneTo(s, "page")
         \/ pc[s] = "list_stat" /\ UNCHANGED list /\ GoneTo(s, "list_test")
         \/ pc[s] = "list_test" /\ UNCHANGED list /\ GoneTo(s, "list_file")
         \/ pc[s] = "list_file" /\ (cmd[s].name = None => list'[s] = list[s]) /\ GoneTo(s, "send")
         \/ pc[s] \in {"stat_file", "stat_dir"} /\ (GoneTo(s, "send") \/ GoneTo(s, "stat_dir"))
         \/ HasSucceeded(s) \/ HasFailed(s)
  <2>1. CASE ListStat(s)
    BY <1>2, <1>4, <2>1, StatDirEffect DEF ListStat
  <2>2. CASE ListTest(s)
    BY <1>2, <1>4, <2>2, ListToTestEffect DEF ListTest
  <2>3. CASE Single(s)
    BY <1>2, <2>3, SingleEffect
  <2>4. CASE StatFolder(s)
    BY <1>2, <2>4, StatFolderEffect
  <2>5. CASE Send(s)
    BY <1>2, <2>5, SendEffect
  <2>. QED
    BY <2>1, <2>2, <2>3, <2>4, <2>5
<1>6. cmd'[s] = cmd[s] /\ Tree'
  BY <1>2, <1>5 DEF Fixed, Tree
<1>7. Course(s)' /\ pc'[s] # "idle"
  <2>1. /\ cmd[s].op = "LIST" => \A l \in {"page", "list_test", "list_file"} : Runs(cmd[s].op, l)
        /\ Runs(cmd[s].op, "send") /\ (cmd[s].op = "STAT" => Runs(cmd[s].op, "stat_dir"))
    BY <1>3 DEF Runs
  <2>2. pc[s] \in {"list_stat", "list_test"} => tries'[s] \in 1 .. 2
    BY <1>2, <1>5 DEF Course
  <2>3. (\E l : Goes(s, l)) \/ HasFailed(s) \/ HasSucceeded(s)
    BY <1>3, <1>5, <2>1, <2>2, SMTT(30) DEF Goes
  <2>. QED
    BY <1>1, <1>2, <1>6, <2>3, CourseNext
<1>8. Listing(s)'
  <2>1. CASE pc[s] \in {"list_stat", "list_test", "list_file"} /\ ~HasSucceeded(s) /\ ~HasFailed(s)
    <3>1. list[s] = {} /\ context[s] = 0 /\ ~cut[s]
      BY <1>2, <2>1 DEF Listing
    <3>2. context'[s] = 0 /\ ~cut'[s]
      BY <1>5, <3>1
    <3>3. pc'[s] \in {"page", "list_test", "list_file", "send"}
      BY <1>5, <2>1 DEF GoneTo
    <3>4. pc'[s] # "send" \/ cmd'[s].name = None => list'[s] = {}
      BY <1>5, <1>6, <2>1, <3>1 DEF GoneTo
    <3>5. \A e \in always'[s] : ~ (Rank(e) <= context'[s])
      <4>1. always'[s] \subseteq Entry
        <5>1. always[s] \subseteq Entry
          BY <1>2 DEF TypeOK, Memories
        <5>. QED
          BY <1>1, <1>2, <1>6, <1>7, <5>1, Memory
      <4>. QED
        BY <3>2, <4>1, RankOf, SMTT(30)
    <3>. QED
      BY <3>2, <3>3, <3>4, <3>5, SMTT(30) DEF Listing
  <2>2. CASE pc[s] \in {"stat_file", "stat_dir"}
    <3>1. cmd'[s].op = "STAT" /\ pc'[s] \notin {"list_stat", "list_test", "list_file"}
      BY <1>3, <1>5, <1>6, <2>2 DEF GoneTo, HasSucceeded, HasFailed
    <3>. QED
      BY <3>1 DEF Listing
  <2>3. CASE HasSucceeded(s) \/ HasFailed(s)
    BY <2>3 DEF HasSucceeded, HasFailed, Listing
  <2>. QED
    BY <1>1, <1>5, <2>1, <2>2, <2>3
<1>9. Progress(s)'
  BY <1>3, <1>6, <1>7, <1>8 DEF Progress, Course, Runs, Reading, Removing, Changing, Writers
<1>10. Versions'
  BY <1>2, <1>5, VersionsKept
<1>. QED
  BY <1>1, <1>5, <1>6, <1>7, <1>9, <1>10 DEF Advance

LEMMA PageAdvance ==
  ASSUME IInv, Paging, Watch, NEW s \in Session, Page(s)
  PROVE  Advance(s)
<1>1. pc[s] = "page"
  BY DEF Page
<1>2. Values /\ Versions /\ Tree /\ Course(s) /\ Listing(s) /\ Whereabouts(s) /\ TypeOK
  BY <1>1, Command1
<1>3. cmd[s].op = "LIST"
  BY <1>1, Command1 DEF Runs
<1>4. tries[s] \in 1 .. 2
  BY <1>1, <1>2 DEF Course
<1> DEFINE Collected == /\ list'[s] \subseteq list[s] \cup Infos(s)
                        /\ context'[s] = IF Infos(s) = {} THEN context[s] ELSE Last(Infos(s))
                        /\ \/ cut'[s] = TRUE /\ GoneTo(s, "send")
                           \/ /\ list'[s] = list[s] \cup Infos(s)
                              /\ (Infos(s) = Later(s) /\ GoneTo(s, "send")) \/ GoneTo(s, "page")
           Lost == /\ list' = list /\ context' = context
                   /\ (cut'[s] = TRUE /\ GoneTo(s, "send")) \/ GoneTo(s, "page")
<1>5. /\ Values' /\ Local(s) /\ Fixed /\ UNCHANGED <<folder, object, stores, disk, cwd, gone>>
      /\ Collected \/ Lost
      /\ tries'[s] \in 1 .. 2 \/ GoneTo(s, "send")
  BY <1>2, <1>4, PageEffect
<1>6. cmd'[s] = cmd[s] /\ Tree'
  BY <1>2, <1>5 DEF Fixed, Tree
<1>7. Course(s)' /\ pc'[s] # "idle"
  <2>1. Runs(cmd[s].op, "page") /\ Runs(cmd[s].op, "send")
    BY <1>3 DEF Runs
  <2>2. \E l : Goes(s, l)
    BY <1>5, <2>1, SMTT(30) DEF Goes
  <2>. QED
    BY <1>1, <1>2, <1>6, <2>2, CourseNext
<1>8. /\ at'[s] = at[s] /\ (~touched'[s] => ~touched[s] /\ ~Disturbed(s))
      /\ always'[s] \subseteq always[s] /\ ever[s] \subseteq ever'[s]
      /\ at[s] # None => Entries(object, folder, at[s]) \subseteq ever'[s] /\ always'[s] \subseteq Entries(object, folder, at[s])
  BY <1>1, <1>2, <1>3, <1>5, <1>6, <1>7, Memory
<1>9. pc'[s] \in {"page", "send"}
  BY <1>5 DEF GoneTo
<1>10. Listing(s)'
  <2>1. SUFFICES ASSUME cmd[s].name = None, at[s] # None, ~touched'[s]
                 PROVE  /\ list'[s] \subseteq ever'[s]
                        /\ pc'[s] = "page" => \A e \in always'[s] : Rank(e) <= context'[s] => e \in list'[s]
                        /\ pc'[s] = "send" /\ cut'[s] # TRUE => always'[s] \subseteq list'[s]
    BY <1>6, <1>8, <1>9 DEF Listing
  <2>2. Inside(s) = Entries(object, folder, at[s])
    <3>1. ~ (cmd[s].dir = Here /\ s \in gone)
      BY <1>5, <1>8, <2>1 DEF Disturbed
    <3>2. Resolve(s, cmd[s].dir) = at[s]
      BY <1>1, <1>2, <1>3, <2>1, <3>1, ArgumentStays
    <3>. QED
      BY <2>1, <3>2 DEF Inside, FolderList
  <2>3. /\ list[s] \subseteq ever[s]
        /\ \A e \in always[s] : Rank(e) <= context[s] => e \in list[s]
    BY <1>1, <1>2, <1>3, <1>8, <2>1 DEF Listing
  <2>4. CASE Lost
    BY <1>8, <2>3, <2>4 DEF GoneTo
  <2>5. CASE Collected
    <3>1. Infos(s) \subseteq Later(s) /\ Later(s) \in SUBSET Entry /\ Infos(s) \in SUBSET Entry
      BY InfosType
    <3>2. list'[s] \subseteq ever'[s]
      BY <1>8, <2>1, <2>2, <2>3, <2>5, InfosType
    <3>3. context[s] \in Nat /\ \A e \in Entry : Rank(e) \in Nat
      <4>1. context[s] \in 0 .. Len(Order)
        BY <1>2 DEF Values
      <4>. QED
        BY <4>1, RankOf, SMTT(30)
    <3>4. \A e \in always'[s] : e \in Entry /\ (e \in list[s] \/ e \in Later(s))
      BY <1>8, <2>1, <2>2, <2>3, <3>3, InfosType, SMTT(30) DEF Later
    <3>5. ASSUME NEW e \in always'[s], Rank(e) <= context'[s], list'[s] = list[s] \cup Infos(s)
          PROVE  e \in list'[s]
      <4>1. CASE Infos(s) = {}
        BY <1>8, <2>3, <2>5, <3>5, <4>1
      <4>2. CASE Infos(s) # {}
        <5>1. PICK a \in Infos(s) : Last(Infos(s)) = Rank(a)
          BY <3>1, <4>2 DEF Paging
        <5>2. Rank(e) <= Rank(a)
          BY <2>5, <3>5, <4>2, <5>1
        <5>3. e \in Later(s) => e \in Infos(s)
          <6>1. PageSize \in Nat /\ a \in Lowest(Later(s), PageSize)
            BY <5>1, StoreAssumption DEF Infos
          <6>. QED
            BY <3>1, <5>2, <6>1 DEF Paging, Infos
        <5>. QED
          BY <3>4, <3>5, <5>3
      <4>. QED
        BY <4>1, <4>2
    <3>6. pc'[s] = "send" /\ cut'[s] # TRUE => list'[s] = list[s] \cup Later(s)
      BY <2>5 DEF GoneTo
    <3>7. pc'[s] = "page" => list'[s] = list[s] \cup Infos(s)
      BY <2>5 DEF GoneTo
    <3>. QED
      BY <3>2, <3>4, <3>5, <3>6, <3>7
  <2>. QED
    BY <1>5, <2>4, <2>5
<1>11. Progress(s)'
  BY <1>3, <1>6, <1>7, <1>9, <1>10 DEF Progress, Reading, Removing, Changing, Writers
<1>12. Versions'
  BY <1>2, <1>5, VersionsKept
<1>. QED
  BY <1>1, <1>5, <1>6, <1>7, <1>11, <1>12 DEF Advance

LEMMA EndKeeps ==
  ASSUME IInv, Watch, NEW s \in Session, EndOfCommand(s)
  PROVE  IInv' /\ Local(s)
<1>1. Values /\ TypeOK /\ Versions /\ Ordered(s)
  BY DEF IInv, TypeOK
<1>2. /\ Values' /\ Local(s) /\ pc[s] = "done"
      /\ UNCHANGED <<folder, object, stores, disk, cwd, gone, reply>>
      /\ pc'[s] = "idle" /\ cmd'[s] = Nothing
      /\ log'[s] = FALSE /\ line'[s] = IF log[s] THEN "fail" ELSE line[s]
      /\ sent'[s] = <<>> /\ context'[s] = 0 /\ list'[s] = {} /\ cut'[s] = FALSE
  BY <1>1, EndOfCommandEffect
<1>3. Versions' /\ Tree'
  BY <1>1, <1>2, VersionsKept, TreeNow DEF Tree
<1>4. TypeOK'
  BY <1>1, <1>2, MemoriesNext DEF TypeOK, Values
<1>5. cmd'[s].op = "TYPE"
  BY <1>2, SMTT(30) DEF Nothing
<1>6. Ordered(s)'
  <2>1. did'[s] = "nothing"
    BY <1>2, Watched
  <2>2. line'[s] \in {"none", reply'[s]}
    BY <1>1, <1>2 DEF Ordered, Course
  <2>3. Course(s)'
    BY <1>2, <2>1, <2>2 DEF Course
  <2>4. Whereabouts(s)'
    BY <1>2, <1>3, <1>5 DEF Tree, Whereabouts
  <2>. QED
    BY <1>2, <1>5, <2>3, <2>4 DEF Ordered, Remembered, Listing, Reading, Removing, Changing
<1>7. ASSUME NEW t \in Session, t # s PROVE Ordered(t)'
  BY <1>1, <1>2, <1>3, <1>7, OthersNext DEF IInv, Local
<1>. QED
  BY <1>2, <1>3, <1>4, <1>6, <1>7 DEF IInv

LEMMA ReceiveKeeps ==
  ASSUME IInv, Watch, NEW s \in Session, Receive(s)
  PROVE  IInv' /\ Local(s)
<1> DEFINE c == cmd'[s]
<1>1. Values /\ TypeOK /\ Versions /\ Ordered(s) /\ pc[s] = "idle"
  BY DEF IInv, TypeOK, Receive
<1>2. ~log[s] /\ did[s] = "nothing" /\ list[s] = {} /\ ~cut[s] /\ sent[s] = <<>> /\ context[s] = 0
  BY <1>1 DEF Ordered, Course
<1>3. /\ Values' /\ Local(s)
      /\ UNCHANGED <<folder, object, stores, disk, cwd, gone, size, sent, context, list, cut>>
      /\ c \in Command /\ line'[s] = "none" /\ tries'[s] = 2
      /\ \/ pc'[s] = "done" /\ reply'[s] = "fail"
         \/ /\ pc'[s] = "done" /\ reply'[s] \in {"ok", "fail"} /\ log'[s] = FALSE
            /\ c.op \in {"NOOP", "TYPE", "REST"}
         \/ /\ pc'[s] = FirstStep(c) /\ reply'[s] = "none" /\ May(s, c)
            /\ Admitted(s, c) /\ c.op \notin {"NOOP", "TYPE", "REST"}
  BY <1>1, <1>2, ReceiveEffect
<1>4. Versions' /\ Tree'
  BY <1>1, <1>3, VersionsKept, TreeNow DEF Tree
<1>5. TypeOK'
  BY <1>1, <1>3, MemoriesNext DEF TypeOK, Values
<1>6. ASSUME NEW t \in Session, t # s PROVE Ordered(t)'
  BY <1>1, <1>3, <1>4, <1>6, OthersNext DEF IInv, Local
<1> DEFINE Begins == /\ pc'[s] = FirstStep(c) /\ reply'[s] = "none" /\ May(s, c)
                     /\ Admitted(s, c) /\ c.op \notin {"NOOP", "TYPE", "REST"}
           Answers1 == /\ pc'[s] = "done" /\ reply'[s] \in {"ok", "fail"} /\ (log'[s] => reply'[s] = "fail")
                       /\ reply'[s] = "ok" => c.op \in {"NOOP", "TYPE", "REST"}
<1>7. Begins \/ Answers1
  BY <1>3
<1>8. Begins => /\ Runs(c.op, pc'[s])
                /\ pc'[s] \in {"cwd_stat", "mkd", "rmd_list", "dele", "size", "retr_stat", "page",
                               "list_stat", "stat_file", "stor_open"}
  BY <1>3, FirstStepRuns
<1> HIDE DEF c
<1>9. pc'[s] # "idle"
  BY <1>7, <1>8
<1>10. Course(s)'
  <2>1. CASE Begins
    <3>1. May(s, cmd[s])'
      BY <2>1 DEF May, Listed, c
    <3>2. tries'[s] \in 1 .. 2
      BY <1>3, SMT
    <3>. QED
      BY <1>3, <1>8, <2>1, <3>1, <3>2 DEF Course, c
  <2>2. CASE Answers1
    BY <1>3, <2>2 DEF Course
  <2>. QED
    BY <1>7, <2>1, <2>2
<1>11. at'[s] = Argument(s, c) /\ did'[s] = "nothing"
  <2>1. ~Changed
    BY <1>3 DEF Changed
  <2>. QED
    BY <1>1, <1>2, <1>9, <2>1, Watched DEF c
<1>12. Whereabouts(s)'
  <2>1. c.dir # Here => at'[s] = c.dir
    BY <1>11 DEF Argument
  <2>2. c.dir = Here /\ at'[s] # None => at'[s] = cwd'[s] /\ s \notin gone'
    BY <1>3, <1>11 DEF Argument
  <2>3. c.op \in {"DELE", "RETR"} /\ Succeeding(s)' => at'[s] # None
    <3>1. SUFFICES ASSUME c.op \in {"DELE", "RETR"}, Succeeding(s)' PROVE at'[s] # None
      OBVIOUS
    <3>2. Begins
      BY <1>7, <3>1 DEF Succeeding
    <3>3. c.dir # Here \/ s \notin gone
      BY <3>1, <3>2 DEF Admitted
    <3>4. c.dir \in Place \cup {Here} /\ cwd[s] \in Place /\ None \notin Place
      BY <1>1, <1>3, StoreAssumption DEF Command, Values
    <3>. QED
      BY <1>11, <3>3, <3>4 DEF Argument
  <2>4. s \notin gone' => cwd'[s] \in disk' \cup {Root}
    BY <1>4 DEF Tree
  <2>. QED
    BY <2>1, <2>2, <2>3, <2>4 DEF Whereabouts, c
<1>13. Listing(s)'
  <2>1. list'[s] = {} /\ context'[s] = 0 /\ ~cut'[s]
    BY <1>2, <1>3
  <2>2. \A e \in always'[s] : ~ (Rank(e) <= context'[s])
    BY <1>5, <2>1, RankOf, SMTT(30) DEF TypeOK, Memories
  <2>3. pc'[s] # "send"
    BY <1>7, <1>8
  <2>. QED
    BY <2>1, <2>2, <2>3 DEF Listing
<1>14. Reading(s)'
  <2>1. sent'[s] = <<>> /\ \A i \in 1 .. Len(sent'[s]) : FALSE
    BY <1>2, <1>3, SMTT(30)
  <2>2. pc'[s] # "retr" /\ (pc'[s] = "done" /\ reply'[s] = "ok" => c.op # "RETR")
    BY <1>7, <1>8
  <2>. QED
    BY <2>1, <2>2 DEF Reading, c
<1>15. Removing(s)'
  BY <1>7, <1>8 DEF Removing, Succeeding, Runs, c
<1>16. Changing(s)'
  <2>1. pc'[s] \notin {"mkd_disk", "rmd_disk"} /\ (pc'[s] = "done" /\ reply'[s] = "ok" => c.op \notin Writers)
    BY <1>7, <1>8 DEF Writers
  <2>. QED
    BY <1>11, <2>1 DEF Changing, c
<1>17. Remembered(s)'
  BY <1>1, RememberedNext
<1>. QED
  BY <1>3, <1>4, <1>5, <1>6, <1>10, <1>12, <1>13, <1>14, <1>15, <1>16, <1>17 DEF IInv, Ordered

LEMMA StoreInit == Init => IInv
<1>1. SUFFICES ASSUME Init PROVE IInv
  OBVIOUS
<1>2. PICK k \in Stocks : folder = k.folder /\ object = k.object /\ disk = k.disk
  BY <1>1 DEF Init
<1>3. k \in [folder : SUBSET Dir, object : [File -> {None} \cup Stocked], disk : SUBSET Dir]
  BY StoreAssumption
<1>4. folder \subseteq Dir /\ object \in [File -> {None} \cup Stocked] /\ disk \subseteq Dir
  BY <1>2, <1>3
<1>5. /\ stores = 1 /\ cwd = [s \in Session |-> Root] /\ gone = {}
      /\ pc = [s \in Session |-> "idle"] /\ cmd = [s \in Session |-> Nothing]
      /\ rest = [s \in Session |-> 0] /\ ascii = [s \in Session |-> FALSE]
      /\ spool = [s \in Session |-> Root]
      /\ size = [s \in Session |-> 0] /\ from = [s \in Session |-> 0]
      /\ sent = [s \in Session |-> <<>>]
      /\ tries = [s \in Session |-> 0] /\ context = [s \in Session |-> 0]
      /\ list = [s \in Session |-> {}] /\ cut = [s \in Session |-> FALSE]
      /\ reply = [s \in Session |-> "none"]
      /\ log = [s \in Session |-> FALSE] /\ line = [s \in Session |-> "none"]
      /\ faults = 0 /\ script \in Plans
      /\ at = [s \in Session |-> Root] /\ touched = [s \in Session |-> FALSE]
      /\ always = [s \in Session |-> {}] /\ ever = [s \in Session |-> {}]
      /\ did = [s \in Session |-> "nothing"]
  BY <1>1 DEF Init
<1>6. Values
  <2>1. Nothing \in Command /\ Root \in Place /\ "idle" \in Labels
    BY DEF Nothing, Command, Ops, Place, Labels
  <2>2. object \in [File -> {None} \cup Object]
    BY <1>4, SMTT(30) DEF Stocked, Object
  <2>3. 0 \in 0 .. MaxSize /\ 0 \in 0 .. MaxFaults /\ 0 \in 0 .. Len(Order) /\ 0 \in 0 .. 2 /\ 0 \in Nat /\ 1 \in Nat
    BY StoreAssumption, RankOf, SMTT(30)
  <2>4. <<>> \in Seq(Nat \X Nat) /\ {} \in SUBSET (Entry \cup Place)
    BY SMT
  <2>5. script \in [Session -> Seq(Command)]
    BY <1>5, StoreAssumption
  <2>6. /\ folder \subseteq Dir /\ stores \in Nat /\ disk \subseteq Dir /\ cwd \in [Session -> Place] /\ gone \subseteq Session
        /\ pc \in [Session -> Labels] /\ cmd \in [Session -> Command]
        /\ rest \in [Session -> Nat] /\ ascii \in [Session -> BOOLEAN]
        /\ spool \in [Session -> Place \cup {None}]
    BY <1>4, <1>5, <2>1, <2>3
  <2>7. /\ size \in [Session -> 0 .. MaxSize] /\ from \in [Session -> Nat]
        /\ sent \in [Session -> Seq(Nat \X Nat)]
        /\ tries \in [Session -> 0 .. 2] /\ context \in [Session -> 0 .. Len(Order)]
    BY <1>5, <2>3, <2>4
  <2>8. /\ list \in [Session -> SUBSET (Entry \cup Place)] /\ cut \in [Session -> BOOLEAN]
        /\ reply \in [Session -> {"none", "ok", "fail"}]
        /\ log \in [Session -> BOOLEAN] /\ line \in [Session -> {"none", "ok", "fail"}]
        /\ faults \in 0 .. MaxFaults
    BY <1>5, <2>3, <2>4
  <2>. QED
    BY <2>2, <2>5, <2>6, <2>7, <2>8 DEF Values
<1>7. Memories
  BY <1>5 DEF Memories, Place
<1>8. Versions
  <2>1. \A f \in File : object[f] # None => object[f].ver = 0
    BY <1>4 DEF Stocked
  <2>. QED
    BY <1>5, <2>1, SMTT(30) DEF Versions
<1>9. ASSUME NEW s \in Session PROVE Ordered(s)
  <2>1. /\ pc[s] = "idle" /\ ~log[s] /\ line[s] = "none" /\ did[s] = "nothing" /\ list[s] = {} /\ ~cut[s]
        /\ sent[s] = <<>> /\ context[s] = 0 /\ cwd[s] = Root /\ cmd[s].op = "TYPE"
    BY <1>5 DEF Nothing
  <2>. QED
    BY <2>1 DEF Ordered, Course, Whereabouts, Remembered, Listing, Reading, Removing, Changing
<1>. QED
  BY <1>6, <1>7, <1>8, <1>9 DEF IInv, TypeOK

LEMMA HandlersKeep ==
  ASSUME IInv, Paging, Watch, NEW s \in Session, Step(s), ~EndOfCommand(s)
  PROVE  Advance(s) /\ IInv'
<1>1. Advance(s)
  BY CwdAdvance, MkdAdvance, RmdAdvance, DeleAdvance, RetrAdvance, ListAdvance, PageAdvance,
     StorAdvance DEF Step
<1>. QED
  BY <1>1, AdvanceKeeps

LEMMA StepKeeps ==
  ASSUME IInv, Paging, Watch, NEW s \in Session, Step(s) \/ Receive(s)
  PROVE  IInv' /\ Local(s)
<1>1. CASE Receive(s)
  BY <1>1, ReceiveKeeps
<1>2. CASE EndOfCommand(s)
  BY <1>2, EndKeeps
<1>3. CASE Step(s) /\ ~EndOfCommand(s)
  BY <1>3, HandlersKeep DEF Advance
<1>. QED
  BY <1>1, <1>2, <1>3

LEMMA IdleKeeps == IInv /\ UNCHANGED vars => IInv'
<1>1. SUFFICES ASSUME IInv, UNCHANGED vars PROVE IInv'
  OBVIOUS
<1>2. /\ UNCHANGED <<folder, object, stores, disk, cwd, gone, pc, cmd, rest, ascii>>
      /\ UNCHANGED <<spool, size, from, sent, tries, context, list, cut, reply, log, line, faults, script>>
      /\ UNCHANGED <<at, touched, always, ever, did>>
  BY <1>1 DEF vars, bucket, where, mode, work, logs, history
<1>3. TypeOK' /\ Versions'
  BY <1>1, <1>2 DEF IInv, TypeOK, Values, Memories, Versions
<1>4. ASSUME NEW s \in Session PROVE Ordered(s)'
  <2>1. Ordered(s)
    BY <1>1 DEF IInv
  <2>2. Course(s)'
    BY <1>2, <2>1 DEF Ordered, Course, May, Listed
  <2>3. Whereabouts(s)' /\ Remembered(s)'
    BY <1>2, <2>1 DEF Ordered, Whereabouts, Remembered, Succeeding
  <2>4. Listing(s)'
    BY <1>2, <2>1 DEF Ordered, Listing
  <2>5. Reading(s)'
    BY <1>2, <2>1 DEF Ordered, Reading, File1
  <2>6. Removing(s)' /\ Changing(s)'
    BY <1>2, <2>1 DEF Ordered, Removing, Changing, Succeeding
  <2>. QED
    BY <2>2, <2>3, <2>4, <2>5, <2>6 DEF Ordered
<1>. QED
  BY <1>3, <1>4 DEF IInv

-----------------------------------------------------------------------------
(***************************************************************************)
(* The changes of the bucket.                                              *)
(***************************************************************************)
Changes(s) == Mkd(s) \/ Rmd(s) \/ Dele(s) \/ StorSend(s)

LEMMA OnlyChanges ==
  ASSUME NEW s \in Session, Step(s) \/ Receive(s), ~Changes(s)
  PROVE  UNCHANGED <<folder, object>>
<1>1. CASE Receive(s) \/ EndOfCommand(s)
  BY <1>1 DEF Receive, EndOfCommand, bucket
<1>2. CASE CwdStat(s) \/ CwdList(s) \/ Chdir(s) \/ Mkdirs(s) \/ MkdDisk(s)
  BY <1>2 DEF CwdStat, CwdList, Chdir, Mkdirs, MkdDisk, StatDir, ListToTest, bucket
<1>3. CASE RmdList(s) \/ RmdDisk(s) \/ Size(s) \/ RetrStat(s) \/ Retr(s)
  BY <1>3 DEF RmdList, RmdDisk, Size, RetrStat, Retr, bucket
<1>4. CASE ListStat(s) \/ ListTest(s) \/ Single(s) \/ StatFolder(s) \/ Page(s) \/ Send(s) \/ StorOpen(s)
  BY <1>4 DEF ListStat, ListTest, Single, StatFolder, Page, Send, StorOpen, StatDir, ListToTest, bucket
<1>. QED
  BY <1>1, <1>2, <1>3, <1>4 DEF Step, Changes

\* What a step changes, and for which command.
LEMMA OneChange ==
  ASSUME IInv, NEW s \in Session, Changes(s), Changed
  PROVE  /\ pc[s] \in {"mkd", "rmd", "dele", "stor_send"} /\ pc'[s] # pc[s] /\ pc'[s] # "idle"
         /\ did[s] = "nothing" /\ May(s, cmd[s]) /\ Values'
         /\ \/ /\ cmd[s].op = "MKD" /\ object' = object
               /\ \E d \in Dir \ folder : folder' = folder \cup {d}
            \/ /\ cmd[s].op = "RMD" /\ object' = object
               /\ \E d \in folder : folder' = folder \ {d}
            \/ /\ cmd[s].op = "DELE" /\ pc[s] = "dele" /\ folder' = folder
               /\ Target(s) \in File /\ object[Target(s)] # None
               /\ object' = [object EXCEPT ![Target(s)] = None]
            \/ /\ cmd[s].op = "STOR" /\ folder' = folder
               /\ Target(s) \in File /\ object[Target(s)] # None
               /\ object' = [object EXCEPT ![Target(s)] = None]
            \/ /\ cmd[s].op = "STOR" /\ folder' = folder
               /\ Target(s) \in File /\ object'[Target(s)] # None
               /\ object' = [object EXCEPT ![Target(s)] = object'[Target(s)]]
<1>1. pc[s] \in {"mkd", "rmd", "dele", "stor_send"}
  BY DEF Changes, Mkd, Rmd, Dele, StorSend
<1>2. Values /\ Course(s) /\ Changing(s) /\ TypeOK
  BY <1>1, Command1
<1>3. did[s] = "nothing" /\ May(s, cmd[s])
  BY <1>1, <1>2 DEF Changing, Course
<1>4. /\ pc[s] = "mkd" => cmd[s].op = "MKD"
      /\ pc[s] = "rmd" => cmd[s].op = "RMD"
      /\ pc[s] = "dele" => cmd[s].op = "DELE"
      /\ pc[s] = "stor_send" => cmd[s].op = "STOR"
  BY <1>1, Command1 DEF Runs
<1>5. CASE Mkd(s)
  <2>1. pc[s] = "mkd" /\ cmd[s].dir \in Dir
    BY <1>2, <1>4, <1>5, NamesOf DEF Mkd
  <2>2. /\ Values' /\ object' = object /\ folder' \in {folder, folder \cup {cmd[s].dir}}
        /\ pc'[s] \in {"mkd_disk", "done"}
    BY <1>2, <1>5, <2>1, MkdEffect DEF GoneTo, HasFailed
  <2>. QED
    BY <1>1, <1>3, <1>4, <2>1, <2>2 DEF Changed
<1>6. CASE Rmd(s)
  <2>1. /\ Values' /\ object' = object /\ folder' \in {folder, folder \ {cmd[s].dir}}
        /\ pc[s] = "rmd" /\ pc'[s] \in {"rmd_disk", "done"}
    BY <1>2, <1>6, RmdEffect DEF GoneTo, HasFailed
  <2>2. cmd[s].dir \in folder
    BY <2>1 DEF Changed
  <2>. QED
    BY <1>1, <1>3, <1>4, <2>1, <2>2 DEF Changed
<1>7. CASE Dele(s)
  <2>1. pc[s] = "dele" /\ Target(s) \in File
    BY <1>2, <1>4, <1>7, NamesOf DEF Dele
  <2>2. /\ Values' /\ folder' = folder /\ pc'[s] = "done"
        /\ object' \in {object, [object EXCEPT ![Target(s)] = None]}
    BY <1>2, <1>7, <2>1, DeleEffect DEF HasSucceeded, HasFailed
  <2>3. object' = [object EXCEPT ![Target(s)] = None] /\ object[Target(s)] # None
    <3>1. object \in [File -> {None} \cup Object]
      BY <1>2 DEF Values
    <3>2. object' # object
      BY <2>2 DEF Changed
    <3>. QED
      BY <2>1, <2>2, <3>1, <3>2, SMTT(30)
  <2>. QED
    BY <1>1, <1>3, <1>4, <2>1, <2>2, <2>3
<1>8. CASE StorSend(s)
  <2>1. pc[s] = "stor_send" /\ Target(s) \in File
    BY <1>2, <1>4, <1>8, NamesOf DEF StorSend
  <2>2. /\ Values' /\ folder' = folder /\ pc'[s] = "done"
        /\ \/ \E z \in 0 .. MaxSize : object' = [object EXCEPT ![Target(s)] = Stored(z)]
           \/ object' \in {object, [object EXCEPT ![Target(s)] = None]}
    BY <1>2, <1>8, <2>1, StorSendEffect DEF HasSucceeded, HasFailed
  <2>3. CASE object' \in {object, [object EXCEPT ![Target(s)] = None]}
    <3>1. object' = [object EXCEPT ![Target(s)] = None] /\ object[Target(s)] # None
      <4>1. object \in [File -> {None} \cup Object]
        BY <1>2 DEF Values
      <4>2. object' # object
        BY <2>2 DEF Changed
      <4>. QED
        BY <2>1, <2>3, <4>1, <4>2, SMTT(30)
    <3>. QED
      BY <1>1, <1>3, <1>4, <2>1, <2>2, <3>1
  <2>4. ASSUME NEW z \in 0 .. MaxSize, object' = [object EXCEPT ![Target(s)] = Stored(z)]
        PROVE  object'[Target(s)] # None /\ object' = [object EXCEPT ![Target(s)] = object'[Target(s)]]
    <3>1. Stored(z) \in Object
      BY <1>2 DEF Stored, Object, Values
    <3>2. Stored(z) # None
      BY <3>1, StoreAssumption
    <3>3. object'[Target(s)] = Stored(z)
      BY <1>2, <2>1, <2>4 DEF Values
    <3>. QED
      BY <2>4, <3>2, <3>3
  <2>. QED
    BY <1>1, <1>3, <1>4, <2>1, <2>2, <2>3, <2>4
<1>. QED
  BY <1>5, <1>6, <1>7, <1>8 DEF Changes

-----------------------------------------------------------------------------
(***************************************************************************)
(* The refinement of Catalogue.                                            *)
(***************************************************************************)
Kind(op) == IF op \in {"MKD", "RMD", "DELE", "STOR"} THEN op ELSE "other"
Doing == [s \in Session |-> IF pc[s] = "idle" THEN "none" ELSE Kind(cmd[s].op)]
Told == [s \in Session |-> IF pc[s] = "idle" THEN reply[s] ELSE "none"]

LEMMA DidNext ==
  ASSUME IInv, Watch, NEW s \in Session, Step(s) \/ Receive(s), IInv', Local(s)
  PROVE  /\ did' = [did EXCEPT ![s] = did'[s]]
         /\ pc'[s] # "idle" => did'[s] = IF pc'[s] = pc[s] \/ ~Changed THEN did[s] ELSE Effect(s)
<1>1. did \in [Session -> {"nothing", "done", "spoilt"}] /\ did' \in [Session -> {"nothing", "done", "spoilt"}]
  BY DEF IInv, TypeOK, Memories
<1>2. ASSUME NEW t \in Session, t # s PROVE did'[t] = did[t]
  <2>1. pc'[t] = pc[t]
    BY <1>2 DEF Local, Still
  <2>2. pc[t] = "idle" => did[t] = "nothing"
    BY DEF IInv, Ordered, Course
  <2>. QED
    BY <2>1, <2>2, Watched
<1>3. did' = [did EXCEPT ![s] = did'[s]]
  BY <1>1, <1>2
<1>4. pc'[s] # "idle" => did'[s] = IF pc'[s] = pc[s] \/ ~Changed THEN did[s] ELSE Effect(s)
  BY Watched
<1>. QED
  BY <1>3, <1>4

LEMMA CatalogueBegin ==
  ASSUME IInv, Watch, NEW s \in Session, Receive(s)
  PROVE  Promise!Begin(s)
<1>1. Values /\ ~log[s] /\ pc[s] = "idle" /\ did[s] = "nothing"
  BY DEF Receive, IInv, TypeOK, Ordered, Course
<1>2. IInv' /\ Local(s)
  BY ReceiveKeeps
<1>3. /\ UNCHANGED <<folder, object>> /\ cmd'[s] \in Command
      /\ pc' = [pc EXCEPT ![s] = pc'[s]] /\ cmd' = [cmd EXCEPT ![s] = cmd'[s]]
      /\ reply' = [reply EXCEPT ![s] = reply'[s]]
      /\ pc'[s] = "done" \/ (pc'[s] = FirstStep(cmd'[s]) /\ cmd'[s].op \notin {"NOOP", "TYPE", "REST"})
  BY <1>1, ReceiveEffect
<1>4. pc'[s] # "idle"
  BY <1>3, FirstStepRuns
<1>5. UNCHANGED did
  <2>1. ~Changed
    BY <1>3 DEF Changed
  <2>2. did' = [did EXCEPT ![s] = did[s]]
    BY <1>2, <1>4, <2>1, DidNext
  <2>. QED
    BY <2>2 DEF IInv, TypeOK, Memories
<1>6. /\ Doing[s] = "none" /\ Doing' = [Doing EXCEPT ![s] = Kind(cmd'[s].op)]
      /\ Told' = [Told EXCEPT ![s] = "none"]
  <2>1. \A t \in Session : t # s => pc'[t] = pc[t] /\ cmd'[t] = cmd[t] /\ reply'[t] = reply[t]
    BY <1>2 DEF Local, Still
  <2>2. Doing[s] = "none"
    BY <1>1 DEF Doing
  <2>3. Doing' = [Doing EXCEPT ![s] = Kind(cmd'[s].op)]
    BY <1>4, <2>1 DEF Doing
  <2>4. Told' = [Told EXCEPT ![s] = "none"]
    BY <1>4, <2>1 DEF Told
  <2>. QED
    BY <2>2, <2>3, <2>4
<1>7. Kind(cmd'[s].op) \in {"MKD", "RMD", "DELE", "STOR"} \cup {"other"}
  BY DEF Kind
<1>. QED
  BY <1>3, <1>5, <1>6, <1>7 DEF Promise!Begin, Promise!Writes, Doing, Told, Kind

LEMMA CatalogueEnd ==
  ASSUME IInv, Watch, NEW s \in Session, EndOfCommand(s)
  PROVE  Promise!End(s)
<1>1. Values /\ Course(s) /\ Changing(s)
  BY DEF IInv, TypeOK, Ordered
<1>2. IInv' /\ Local(s)
  BY EndKeeps
<1>3. pc[s] = "done" /\ pc'[s] = "idle" /\ UNCHANGED <<folder, object, reply>>
  BY <1>1, EndOfCommandEffect
<1>4. did' = [did EXCEPT ![s] = "nothing"]
  <2>1. did'[s] = "nothing"
    BY <1>3, Watched
  <2>. QED
    BY <1>2, <2>1, DidNext DEF Step
<1>5. Doing[s] = Kind(cmd[s].op) /\ Doing' = [Doing EXCEPT ![s] = "none"] /\ Told' = [Told EXCEPT ![s] = reply[s]]
  <2>1. \A t \in Session : t # s => pc'[t] = pc[t] /\ cmd'[t] = cmd[t]
    BY <1>2 DEF Local, Still
  <2>2. Doing[s] = Kind(cmd[s].op)
    BY <1>3 DEF Doing
  <2>3. Doing' = [Doing EXCEPT ![s] = "none"]
    BY <1>3, <2>1 DEF Doing
  <2>4. Told' = [Told EXCEPT ![s] = reply[s]]
    BY <1>3, <2>1 DEF Told
  <2>. QED
    BY <2>2, <2>3, <2>4
<1>6. reply[s] \in {"ok", "fail"} /\ (reply[s] = "ok" /\ cmd[s].op \in Writers => did[s] = "done")
  BY <1>1, <1>3 DEF Course, Changing
<1>7. Kind(cmd[s].op) # "none" /\ (Kind(cmd[s].op) \in Writers => cmd[s].op \in Writers)
  BY DEF Kind, Writers
<1>8. /\ Doing[s] # "none"
      /\ \/ Told' = [Told EXCEPT ![s] = "fail"]
         \/ (Doing[s] \in Writers => did[s] = "done") /\ Told' = [Told EXCEPT ![s] = "ok"]
  BY <1>5, <1>6, <1>7
<1>. QED
  BY <1>3, <1>4, <1>5, <1>8 DEF Promise!End, Promise!Writes, Writers, Doing, Told, Kind

LEMMA CatalogueStep ==
  ASSUME IInv, Paging, Watch, NEW s \in Session, Step(s), ~EndOfCommand(s)
  PROVE  Promise!Effect(s) \/ UNCHANGED Promise!vars
<1>1. Advance(s) /\ IInv' /\ Local(s)
  BY HandlersKeep DEF Advance
<1>2. pc[s] # "idle" /\ pc'[s] # "idle" /\ cmd' = cmd
  BY <1>1 DEF Advance, Fixed
<1>3. UNCHANGED <<Doing, Told>>
  <2>1. \A t \in Session : t # s => pc'[t] = pc[t] /\ reply'[t] = reply[t]
    BY <1>1 DEF Local, Still
  <2>2. Doing' = Doing
    BY <1>2, <2>1 DEF Doing
  <2>3. Told' = Told
    BY <1>2, <2>1 DEF Told
  <2>. QED
    BY <2>2, <2>3
<1>4. /\ did' = [did EXCEPT ![s] = did'[s]]
      /\ did'[s] = IF pc'[s] = pc[s] \/ ~Changed THEN did[s] ELSE Effect(s)
  BY <1>1, <1>2, DidNext
<1>5. CASE ~Changed
  <2>1. UNCHANGED <<folder, object>>
    BY <1>5 DEF Changed
  <2>2. UNCHANGED did
    <3>1. did' = [did EXCEPT ![s] = did[s]]
      BY <1>4, <1>5
    <3>. QED
      BY <3>1 DEF IInv, TypeOK, Memories
  <2>. QED
    BY <1>3, <2>1, <2>2 DEF Promise!vars, Doing, Told, Kind
<1>6. CASE Changed
  <2>1. Changes(s)
    BY <1>6, OnlyChanges DEF Changed
  <2>2. did[s] = "nothing" /\ did' = [did EXCEPT ![s] = Effect(s)]
    BY <1>4, <1>6, <2>1, OneChange
  <2>3. Doing[s] = Kind(cmd[s].op)
    BY <1>2 DEF Doing
  <2>4. object' \in [File -> {None} \cup Object]
    BY <1>1 DEF Advance, Values
  <2> DEFINE f == Target(s)
  <2>5. \/ /\ Doing[s] = "MKD" /\ object' = object
           /\ \E d \in Dir \ folder : folder' = folder \cup {d}
           /\ did' = [did EXCEPT ![s] = "done"]
        \/ /\ Doing[s] = "RMD" /\ object' = object
           /\ \E d \in folder : folder' = folder \ {d}
           /\ did' = [did EXCEPT ![s] = "done"]
        \/ /\ Doing[s] \in {"DELE", "STOR"} /\ folder' = folder
           /\ \E g \in File : object[g] # None /\ object' = [object EXCEPT ![g] = None]
           /\ did' = [did EXCEPT ![s] = IF Doing[s] = "DELE" THEN "done" ELSE "spoilt"]
        \/ /\ Doing[s] = "STOR" /\ folder' = folder
           /\ \E g \in File : object'[g] # None /\ object' = [object EXCEPT ![g] = object'[g]]
           /\ did' = [did EXCEPT ![s] = "done"]
    <3>1. cmd[s].op # "STOR" => Effect(s) = "done"
      BY DEF Effect
    <3>2. CASE cmd[s].op = "MKD" /\ object' = object /\ \E d \in Dir \ folder : folder' = folder \cup {d}
      BY <2>2, <2>3, <3>1, <3>2 DEF Kind
    <3>3. CASE cmd[s].op = "RMD" /\ object' = object /\ \E d \in folder : folder' = folder \ {d}
      BY <2>2, <2>3, <3>1, <3>3 DEF Kind
    <3>4. CASE /\ cmd[s].op = "DELE" /\ folder' = folder /\ f \in File /\ object[f] # None
               /\ object' = [object EXCEPT ![f] = None]
      <4>1. Doing[s] = "DELE" /\ did' = [did EXCEPT ![s] = "done"]
        BY <2>2, <2>3, <3>1, <3>4 DEF Kind
      <4> HIDE DEF f
      <4>. QED
        BY <3>4, <4>1
    <3>5. CASE /\ cmd[s].op = "STOR" /\ folder' = folder /\ f \in File /\ object[f] # None
               /\ object' = [object EXCEPT ![f] = None]
      <4> HIDE DEF f
      <4>1. object'[f] = None
        BY <3>5 DEF IInv, TypeOK, Values
      <4>2. Effect(s) = "spoilt"
        BY <3>5, <4>1 DEF Effect
      <4>3. Doing[s] = "STOR" /\ did' = [did EXCEPT ![s] = "spoilt"]
        BY <2>2, <2>3, <3>5, <4>2 DEF Kind
      <4>. QED
        BY <3>5, <4>3
    <3>6. CASE /\ cmd[s].op = "STOR" /\ folder' = folder /\ f \in File /\ object'[f] # None
               /\ object' = [object EXCEPT ![f] = object'[f]]
      <4> HIDE DEF f
      <4>1. ~ \E g \in File : object[g] # None /\ object'[g] = None
        BY <3>6 DEF IInv, TypeOK, Values
      <4>2. Effect(s) = "done"
        BY <4>1 DEF Effect
      <4>3. Doing[s] = "STOR" /\ did' = [did EXCEPT ![s] = "done"]
        BY <2>2, <2>3, <3>6, <4>2 DEF Kind
      <4>. QED
        BY <3>6, <4>3
    <3>. QED
      BY <1>6, <2>1, <3>2, <3>3, <3>4, <3>5, <3>6, OneChange
  <2>. QED
    BY <1>3, <2>2, <2>4, <2>5 DEF Promise!Effect, Doing, Told, Kind
<1>. QED
  BY <1>5, <1>6

-----------------------------------------------------------------------------
(***************************************************************************)
(* The order of the entries in a page.                                     *)
(***************************************************************************)
INSTANCE FiniteSetTheorems

LEMMA EntriesFinite == IsFiniteSet(Entry)
<1> DEFINE f == [e \in Entry |-> Rank(e)]
<1>1. f \in Injection(Entry, 1 .. Len(Order))
  BY RankOf DEF Injection, IsInjective
<1>2. IsFiniteSet(1 .. Len(Order))
  BY RankOf, FS_Interval, SMTT(30)
<1>. QED
  BY <1>1, <1>2, FS_Injection

LEMMA LastOfPage ==
  ASSUME NEW S \in SUBSET Entry, S # {}
  PROVE  \E a \in S : Last(S) = Rank(a) /\ \A e \in S : Rank(e) <= Rank(a)
<1> DEFINE N == Len(Order)
           R == {ss \in Nat \X Nat : ss[1] < ss[2]}
           T == {N - Rank(e) : e \in S}
<1>1. N \in Nat /\ \A e \in S : Rank(e) \in 1 .. N /\ N - Rank(e) \in Nat
  BY RankOf, SMTT(30)
<1>2. IsWellFoundedOn(R, Nat)
  BY NatLessThanWellFounded DEF OpToRel
<1>3. T \subseteq Nat /\ T # {}
  BY <1>1
<1> HIDE DEF N, R, T
<1>4. PICK x \in T : \A y \in T : ~ (<<y, x>> \in R)
  BY <1>2, <1>3, WFMin
<1>5. PICK a \in S : x = N - Rank(a)
  BY <1>4 DEF T
<1>6. ASSUME NEW e \in S PROVE Rank(e) <= Rank(a)
  <2>1. N - Rank(e) \in T /\ N - Rank(e) \in Nat /\ x \in Nat
    BY <1>1, <1>5 DEF T
  <2>2. ~ (N - Rank(e) < x)
    BY <1>4, <2>1 DEF R
  <2>3. Rank(e) \in 1 .. N /\ Rank(a) \in 1 .. N
    BY <1>1
  <2>. QED
    BY <1>1, <1>5, <2>2, <2>3, SMTT(30)
<1>7. Rank(a) \in {Rank(e) : e \in S}
  OBVIOUS
<1>8. Last(S) \in {Rank(e) : e \in S} /\ \A e \in S : Rank(e) <= Last(S)
  BY <1>6, <1>7 DEF Last
<1>9. PICK b \in S : Last(S) = Rank(b)
  BY <1>8
<1>. QED
  BY <1>8, <1>9

\* A page has what comes before its entries, too.
LEMMA PageHasAll ==
  ASSUME NEW S \in SUBSET Entry, NEW k \in Nat, NEW a \in Lowest(S, k), NEW b \in S, Rank(b) <= Rank(a)
  PROVE  b \in Lowest(S, k)
<1> DEFINE Under(e) == {x \in S : Rank(x) < Rank(e)}
<1>1. a \in S /\ Cardinality(Under(a)) < k
  BY DEF Lowest
<1>2. IsFiniteSet(S)
  BY EntriesFinite, FS_Subset
<1>3. IsFiniteSet(Under(a))
  <2>1. Under(a) \in SUBSET S
    OBVIOUS
  <2> HIDE DEF Under
  <2>. QED
    BY <1>2, <2>1, FS_Subset
<1>4. Under(b) \in SUBSET Under(a)
  <2>1. \A x \in S : Rank(x) \in Nat
    BY RankOf, SMTT(30)
  <2>. QED
    BY <1>1, <2>1, SMTT(30)
<1>5. b \in S /\ Lowest(S, k) = {e \in S : Cardinality(Under(e)) < k}
  BY DEF Lowest
<1> HIDE DEF Under
<1>6. Cardinality(Under(b)) <= Cardinality(Under(a)) /\ IsFiniteSet(Under(b))
  BY <1>3, <1>4, FS_Subset
<1>7. Cardinality(Under(b)) \in Nat /\ Cardinality(Under(a)) \in Nat
  BY <1>3, <1>6, FS_CardinalityType
<1>8. Cardinality(Under(b)) < k
  BY <1>1, <1>6, <1>7, SMTT(30)
<1>. QED
  BY <1>5, <1>8

LEMMA PagesInOrder == Paging
BY LastOfPage, PageHasAll DEF Paging

-----------------------------------------------------------------------------
(***************************************************************************)
(* What always holds.                                                      *)
(***************************************************************************)

(* The inductive invariant: every handler is at a step of its own command, *)
(* which the tests before it admitted, and what it has collected so far is *)
(* what the bucket held meanwhile.                                         *)
THEOREM StoreInvariant == Spec => []IInv
<1>1. Init => IInv
  BY StoreInit
<1>2. IInv /\ [Next]_vars => IInv'
  BY StepKeeps, IdleKeeps, PagesInOrder DEF Next
<1>. QED
  BY <1>1, <1>2, PTL DEF Spec

(* The books of every session are in order: a log entry that a handler     *)
(* began is ended before the next command, so that the bug() in            *)
(* vsf_log_start_entry is never reached, and the line that was written     *)
(* says what the client was told.                                          *)
THEOREM AlwaysAccounted == Spec => []Accounted
<1>1. IInv => Accounted
  <2>1. SUFFICES ASSUME IInv, NEW s \in Session
                 PROVE  pc[s] # "bug" /\ (pc[s] = "idle" => ~log[s] /\ line[s] \in {"none", reply[s]})
    BY DEF Accounted, LogTells, IInv
  <2>2. Course(s)
    BY <2>1 DEF IInv, Ordered
  <2>. QED
    BY <2>2 DEF Course, Runs
<1>. QED
  BY <1>1, StoreInvariant, PTL

(* What RETR and LIST tell the client is what the bucket held: the blocks  *)
(* of one object without a gap, and the entries of the directory over all  *)
(* the pages of its listing, for any number of sessions that change the    *)
(* bucket between two requests.                                            *)
THEOREM ReadsAlwaysTell == Spec => []ReadsTell
<1>1. IInv => Delivered
  <2>1. SUFFICES ASSUME IInv, NEW s \in Session, pc[s] \in {"retr", "done"}, cmd[s].op = "RETR"
                 PROVE  /\ \A i \in 1 .. Len(sent[s]) : sent[s][i][2] = from[s] + i - 1
                        /\ pc[s] = "done" /\ reply[s] = "ok" /\ ~touched[s] =>
                             /\ \A i \in 1 .. Len(sent[s]) : sent[s][i][1] = object[<<at[s], cmd[s].name>>].ver
                             /\ from[s] + Len(sent[s]) >= object[<<at[s], cmd[s].name>>].size
                             /\ Len(sent[s]) <= object[<<at[s], cmd[s].name>>].size
    BY DEF Delivered
  <2>2. Reading(s)
    BY <2>1 DEF IInv, Ordered
  <2>. QED
    BY <2>1, <2>2 DEF Reading, File1
<1>2. IInv => ListingTells
  <2>1. SUFFICES ASSUME IInv, NEW s \in Session, pc[s] = "send", cmd[s].op = "LIST", cmd[s].name = None,
                        at[s] # None, ~touched[s]
                 PROVE  list[s] \subseteq ever[s] /\ (context[s] > 0 /\ ~cut[s] => always[s] \subseteq list[s])
    BY DEF ListingTells
  <2>2. Listing(s)
    BY <2>1 DEF IInv, Ordered
  <2>. QED
    BY <2>1, <2>2 DEF Listing
<1>. QED
  BY <1>1, <1>2, StoreInvariant, PTL DEF ReadsTell

(* RMD asks whether the directory is empty and removes it in another       *)
(* request.  Whatever comes between them, no entry that was there from the *)
(* arrival of the command to its end goes with the directory.              *)
THEOREM AlwaysRemovedEmpty == Spec => []RemovedWasEmpty
<1>1. IInv => RemovedWasEmpty
  <2>1. SUFFICES ASSUME IInv, NEW s \in Session, pc[s] = "done", cmd[s].op = "RMD", reply[s] = "ok"
                 PROVE  always[s] = {}
    BY DEF RemovedWasEmpty
  <2>2. Removing(s)
    BY <2>1 DEF IInv, Ordered
  <2>. QED
    BY <2>1, <2>2 DEF Removing, Succeeding
<1>. QED
  BY <1>1, StoreInvariant, PTL

(* A change of the bucket is made by a session that may write, for a       *)
(* command that its options allow, and DELE removes the object that its    *)
(* argument named when it came, or acts for a directory that went.         *)
THEOREM ChangesAlwaysAsTold == Spec => ChangesAsTold
<1>1. ASSUME IInv, Watch, NEW s \in Session, Step(s) \/ Receive(s), NEW t \in Session
      PROVE  DeletesWhereTold(t) /\ WritersOnly(t)
  <2>1. CASE t # s
    <3>1. pc'[t] = pc[t]
      BY <1>1, <2>1, StepKeeps, PagesInOrder DEF Local, Still
    <3>. QED
      BY <3>1 DEF DeletesWhereTold, WritersOnly
  <2>2. CASE t = s /\ ~Changed
    BY <2>2 DEF DeletesWhereTold, WritersOnly, Changed
  <2>3. CASE t = s /\ Changed
    <3>1. Changes(s)
      BY <1>1, <2>3, OnlyChanges DEF Changed
    <3>2. WritersOnly(s)
      <4>1. May(s, cmd[s]) /\ cmd[s].op \in Writers
        BY <1>1, <2>3, <3>1, OneChange DEF Writers
      <4>. QED
        BY <4>1 DEF WritersOnly, May, Writers
    <3>3. DeletesWhereTold(s)
      <4>1. SUFFICES ASSUME pc[s] = "dele", object' # object
                     PROVE  /\ at[s] # None
                            /\ s \notin gone => object' = [object EXCEPT ![<<at[s], cmd[s].name>>] = None]
        BY DEF DeletesWhereTold
      <4>2. Whereabouts(s) /\ cmd[s].op = "DELE" /\ Succeeding(s)
        BY <1>1, <4>1, Command1 DEF Runs, Succeeding
      <4>3. at[s] # None
        BY <4>2 DEF Whereabouts
      <4>4. object' = [object EXCEPT ![Target(s)] = None]
        BY <1>1, <2>3, <3>1, <4>2, OneChange
      <4>5. s \notin gone => Target(s) = Spot(s)
        BY <4>1, <4>2, <4>3, ArgumentStays
      <4>. QED
        BY <4>3, <4>4, <4>5 DEF Spot
    <3>. QED
      BY <2>3, <3>2, <3>3
  <2>. QED
    BY <2>1, <2>2, <2>3
<1>2. IInv /\ [Next]_vars => [\A s \in Session : DeletesWhereTold(s) /\ WritersOnly(s)]_vars
  BY <1>1 DEF Next
<1>. QED
  BY <1>2, StoreInvariant, PTL DEF Spec, ChangesAsTold

(* All sessions together keep the promise of Catalogue.  A command changes *)
(* the bucket in one step between its arrival and its end, once and in its *)
(* own way, and a reply of success to MKD, RMD, DELE or STOR means that it *)
(* did, although each of them takes several requests and system calls.     *)
THEOREM StoreImplementsCatalogue == Spec => ImplementsCatalogue
<1>1. Init => Promise!Init
  <2>1. SUFFICES ASSUME Init PROVE Promise!Init
    OBVIOUS
  <2>2. folder \in SUBSET Dir /\ object \in [File -> {None} \cup Object]
    BY <2>1, StoreInit DEF IInv, TypeOK, Values
  <2>3. /\ pc = [s \in Session |-> "idle"] /\ reply = [s \in Session |-> "none"]
        /\ did = [s \in Session |-> "nothing"]
    BY <2>1 DEF Init
  <2>4. Doing = [s \in Session |-> "none"] /\ Told = [s \in Session |-> "none"]
    BY <2>3 DEF Doing, Told
  <2>. QED
    BY <2>2, <2>3, <2>4 DEF Promise!Init, Doing, Told, Kind
<1>2. IInv /\ [Next]_vars => [Promise!Next]_Promise!vars
  <2>1. ASSUME IInv, Watch, NEW s \in Session, Step(s) \/ Receive(s)
        PROVE  Promise!Next \/ UNCHANGED Promise!vars
    BY <2>1, CatalogueBegin, CatalogueEnd, CatalogueStep, PagesInOrder DEF Promise!Next
  <2>2. UNCHANGED vars => UNCHANGED Promise!vars
    BY DEF vars, bucket, history, Promise!vars
  <2>. QED
    BY <2>1, <2>2 DEF Next
<1>. QED
  BY <1>1, <1>2, StoreInvariant, PTL DEF Spec, ImplementsCatalogue, Promise!Spec
=============================================================================
