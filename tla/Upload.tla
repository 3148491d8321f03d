------------------------------- MODULE Upload -------------------------------
(***************************************************************************)
(* STOR: handle_upload_common() of postlogin.c, run by several session     *)
(* processes that name the same file.                                      *)
(*                                                                         *)
(* An upload is spooled to a local file, the spool file is sent to COS by  *)
(* NAME, and it is removed by NAME.  The upload lock (flock, non-blocking) *)
(* belongs to the INODE that the session has open.  Every system call on   *)
(* shared state (open, fstat, flock, ftruncate, write, unlink, close) and  *)
(* every COS request is a step of its own.                                 *)
(*                                                                         *)
(* One local path and the COS object of the same name are modelled: locks, *)
(* names and objects of different paths never meet.  A member of Session   *)
(* is one STOR command; a session that sends several is several members.   *)
(* File contents are sequences of chunks, and a chunk is the session that  *)
(* wrote it, or Hole for the zeros that a seek past the end leaves behind. *)
(***************************************************************************)
EXTENDS Naturals, Sequences

CONSTANTS
  Session,          \* STOR commands
  Inode,            \* inodes the spool file system can allocate
  None,             \* "no session", "no inode", "no object"
  Hole,             \* a chunk nobody sent
  MaxChunks,        \* bound: chunks one client sends
  MaxOffset,        \* bound: largest REST position
  Exclusive         \* sessions of an anonymous user when
                    \* anon_other_write_enable is off: O_CREAT | O_EXCL

ASSUME UploadAssumption ==
  /\ None \notin Session \cup Inode
  /\ Hole \notin Session
  /\ MaxChunks \in Nat
  /\ MaxOffset \in Nat
  /\ Exclusive \subseteq Session

VARIABLES
  pc,        \* the next step of the handler
  offset,    \* p_sess->restart_pos as the handler took it
  fd,        \* inode behind new_file_fd
  fileLen,   \* length in s_p_statbuf
  pos,       \* file position of new_file_fd
  success,   \* the handler's local variable
  reply,     \* final reply code
  tries,     \* uploads left in cos_upload_file
  snap,      \* what the SDK read from the spool file
  path,      \* inode the local path names
  lock,      \* flock owner of each inode
  data,      \* contents of each inode
  abandoned, \* inodes whose session process died (history)
  cos,       \* the object named by the FTP path; whole: COS confirmed it
  cosLocal   \* is there an object named by the LOCAL path?

sessVars == <<offset, fd, fileLen, pos, success, reply, tries, snap>>
fsVars == <<path, lock, data, abandoned>>
cosVars == <<cos, cosLocal>>
vars == <<pc, sessVars, fsVars, cosVars>>

Content == Seq(Session \cup {Hole})
NoSnap == [ino |-> None, data |-> <<>>]

\* Program points: Locked are those at which a session that was not refused
\* holds the lock.
Locked == {"position", "connect", "recv", "check", "read", "post",
           "purge", "respond", "unlink", "cleanup", "close"}
PC == {"idle", "open", "stat", "lock", "done", "dead"} \cup Locked
Reply == {"none", "TRANSFEROK", "DATA_TIMEOUT", "BADSENDCONN", "BADSENDNET",
          "BADFILEBUSY", "BADSENDFILE", "NOPERM", "UPLOADFAIL"}

(***************************************************************************)
(* The type invariant of the handler's and the shared state.               *)
(***************************************************************************)
TypeOK ==
  /\ pc \in [Session -> PC]
  /\ offset \in [Session -> Nat]
  /\ fd \in [Session -> Inode \cup {None}]
  /\ fileLen \in [Session -> Nat]
  /\ pos \in [Session -> Nat]
  /\ success \in [Session -> BOOLEAN]
  /\ reply \in [Session -> Reply]
  /\ tries \in [Session -> 0 .. 2]
  /\ snap \in [Session -> [ino : Inode \cup {None}, data : Content]]
  /\ path \in Inode \cup {None}
  /\ lock \in [Inode -> Session \cup {None}]
  /\ data \in [Inode -> Content]
  /\ abandoned \subseteq Inode
  /\ cos \in [data : Content, whole : BOOLEAN] \cup {None}
  /\ cosLocal \in BOOLEAN

Init ==
  /\ pc = [s \in Session |-> "idle"]
  /\ offset = [s \in Session |-> 0]
  /\ fd = [s \in Session |-> None]
  /\ fileLen = [s \in Session |-> 0]
  /\ pos = [s \in Session |-> 0]
  /\ success = [s \in Session |-> FALSE]
  /\ reply = [s \in Session |-> "none"]
  /\ tries = [s \in Session |-> 0]
  /\ snap = [s \in Session |-> NoSnap]
  /\ path = None
  /\ lock = [i \in Inode |-> None]
  /\ data = [i \in Inode |-> <<>>]
  /\ abandoned = {}
  /\ cos = None
  /\ cosLocal = TRUE

-----------------------------------------------------------------------------
Goto(s, from, to) == pc[s] = from /\ pc' = [pc EXCEPT ![s] = to]
Answer(s, r) == reply' = [reply EXCEPT ![s] = r]

\* write(2) of one chunk at a position; a gap before it reads as zeros.
WriteAt(c, p, x) ==
  [k \in 1 .. (IF p < Len(c) THEN Len(c) ELSE p + 1) |->
     IF k = p + 1 THEN x ELSE IF k <= Len(c) THEN c[k] ELSE Hole]

\* An inode that is neither linked nor open can be allocated.
Free == {i \in Inode : i # path /\ \A s \in Session : fd[s] # i}

\* restart_pos is consumed.
Begin(s) ==
  /\ Goto(s, "idle", "open")
  /\ \E o \in 0 .. MaxOffset : offset' = [offset EXCEPT ![s] = o]
  /\ UNCHANGED <<fd, fileLen, pos, success, reply, tries, snap>>
  /\ UNCHANGED <<fsVars, cosVars>>

\* No data connection announced, or access denied: the handler returns.
Reject(s) ==
  /\ Goto(s, "idle", "done")
  /\ \E r \in {"BADSENDCONN", "NOPERM"} : Answer(s, r)
  /\ UNCHANGED <<offset, fd, fileLen, pos, success, tries, snap>>
  /\ UNCHANGED <<fsVars, cosVars>>

\* Mutant: the spool file is opened with O_CREAT | O_TRUNC in every case.
OpenTruncating(s) ==
  /\ Goto(s, "open", "stat")
  /\ path # None
  /\ fd' = [fd EXCEPT ![s] = path]
  /\ data' = [data EXCEPT ![path] = <<>>]
  /\ UNCHANGED <<offset, fileLen, pos, success, reply, tries, snap>>
  /\ UNCHANGED <<path, lock, abandoned, cosVars>>

\* str_create opens an existing file, str_create_exclusive does not.
OpenExisting(s) ==
  /\ Goto(s, "open", "stat")
  /\ path # None
  /\ s \notin Exclusive
  /\ fd' = [fd EXCEPT ![s] = path]
  /\ UNCHANGED <<offset, fileLen, pos, success, reply, tries, snap>>
  /\ UNCHANGED <<fsVars, cosVars>>

OpenNew(s) ==
  /\ Goto(s, "open", "stat")
  /\ path = None
  /\ \E i \in Free :
       /\ path' = i
       /\ fd' = [fd EXCEPT ![s] = i]
       /\ data' = [data EXCEPT ![i] = <<>>]
       /\ abandoned' = abandoned \ {i}
  /\ UNCHANGED <<offset, fileLen, pos, success, reply, tries, snap>>
  /\ UNCHANGED <<lock, cosVars>>

\* The file exists and must not, or the open fails for reasons outside the
\* model (permissions, no space).
OpenFails(s) ==
  /\ Goto(s, "open", "done")
  /\ Answer(s, "UPLOADFAIL")
  /\ UNCHANGED <<offset, fd, fileLen, pos, success, tries, snap>>
  /\ UNCHANGED <<fsVars, cosVars>>

Fstat(s) ==
  /\ Goto(s, "stat", "lock")
  /\ fileLen' = [fileLen EXCEPT ![s] = Len(data[fd[s]])]
  /\ UNCHANGED <<offset, fd, pos, success, reply, tries, snap>>
  /\ UNCHANGED <<fsVars, cosVars>>

\* flock(LOCK_EX | LOCK_NB)
LockGranted(s) ==
  /\ Goto(s, "lock", "position")
  /\ lock[fd[s]] = None
  /\ lock' = [lock EXCEPT ![fd[s]] = s]
  /\ UNCHANGED <<sessVars, path, data, abandoned, cosVars>>

\* A refused session sets success, so that the clean-up leaves the file of
\* the lock's owner alone.
LockRefused(s) ==
  /\ Goto(s, "lock", "cleanup")
  /\ lock[fd[s]] # None
  /\ Answer(s, "BADFILEBUSY")
  /\ success' = [success EXCEPT ![s] = TRUE]
  /\ UNCHANGED <<offset, fd, fileLen, pos, tries, snap, fsVars, cosVars>>

\* Mutant: the file is not truncated.
TruncateNot(s) ==
  /\ Goto(s, "position", "connect")
  /\ offset[s] = 0
  /\ UNCHANGED <<sessVars, fsVars, cosVars>>

\* "Must truncate the file AFTER locking it!"  An exclusively created file is
\* not truncated.
Truncate(s) ==
  /\ Goto(s, "position", "connect")
  /\ offset[s] = 0
  /\ data' = IF s \in Exclusive THEN data ELSE [data EXCEPT ![fd[s]] = <<>>]
  /\ UNCHANGED <<sessVars, path, lock, abandoned, cosVars>>

\* Seek to the REST position if the length that fstat saw reaches it ...
Seek(s) ==
  /\ Goto(s, "position", "connect")
  /\ offset[s] # 0
  /\ fileLen[s] >= offset[s]
  /\ pos' = [pos EXCEPT ![s] = offset[s]]
  /\ UNCHANGED <<offset, fd, fileLen, success, reply, tries, snap>>
  /\ UNCHANGED <<fsVars, cosVars>>

\* ... and otherwise call cos_unlink with the LOCAL path (it may fail).
OutOfBounds(s) ==
  /\ Goto(s, "position", "cleanup")
  /\ offset[s] # 0
  /\ fileLen[s] < offset[s]
  /\ Answer(s, "BADSENDFILE")
  /\ cosLocal' \in {FALSE, cosLocal}
  /\ UNCHANGED <<offset, fd, fileLen, pos, success, tries, snap, fsVars, cos>>

\* get_remote_transfer_fd
Connect(s) ==
  /\ Goto(s, "connect", "recv")
  /\ UNCHANGED <<sessVars, fsVars, cosVars>>

ConnectFails(s) ==
  /\ Goto(s, "connect", "cleanup")
  /\ Answer(s, "BADSENDCONN")
  /\ UNCHANGED <<offset, fd, fileLen, pos, success, tries, snap>>
  /\ UNCHANGED <<fsVars, cosVars>>

\* O_APPEND of the exclusive open puts every write at the end.
WritePos(s) == IF s \in Exclusive THEN Len(data[fd[s]]) ELSE pos[s]

Recv(s) ==
  /\ Goto(s, "recv", "recv")
  /\ WritePos(s) < offset[s] + MaxChunks
  /\ data' = [data EXCEPT ![fd[s]] = WriteAt(@, WritePos(s), s)]
  /\ pos' = [pos EXCEPT ![s] = WritePos(s) + 1]
  /\ UNCHANGED <<offset, fd, fileLen, success, reply, tries, snap>>
  /\ UNCHANGED <<path, lock, abandoned, cosVars>>

\* The data phase ends well, dispose_transfer_fd included.
RecvDone(s) ==
  /\ Goto(s, "recv", "check")
  /\ tries' = [tries EXCEPT ![s] = 2]
  /\ UNCHANGED <<offset, fd, fileLen, pos, success, reply, snap>>
  /\ UNCHANGED <<fsVars, cosVars>>

\* Local write error, network error or ABOR, or a data timeout, whose answer
\* the command loop gives.
RecvFails(s) ==
  /\ Goto(s, "recv", "cleanup")
  /\ \E r \in {"BADSENDFILE", "BADSENDNET", "DATA_TIMEOUT"} : Answer(s, r)
  /\ UNCHANGED <<offset, fd, fileLen, pos, success, tries, snap>>
  /\ UNCHANGED <<fsVars, cosVars>>

\* FileUploadReq::isParaValid: the spool file must exist.
CheckSpool(s) ==
  /\ IF path # None THEN Goto(s, "check", "read") ELSE Goto(s, "check", "purge")
  /\ UNCHANGED <<sessVars, fsVars, cosVars>>

\* FileUtil::getFileContent: a name that is gone by now reads as empty.
ReadSpool(s) ==
  /\ Goto(s, "read", "post")
  /\ snap' = [snap EXCEPT ![s] = IF path = None THEN NoSnap
                                 ELSE [ino |-> path, data |-> data[path]]]
  /\ UNCHANGED <<offset, fd, fileLen, pos, success, reply, tries>>
  /\ UNCHANGED <<fsVars, cosVars>>

\* The POST is executed and confirmed ...
Post(s) ==
  /\ Goto(s, "post", "respond")
  /\ cos' = [data |-> snap[s].data, whole |-> TRUE]
  /\ success' = [success EXCEPT ![s] = TRUE]
  /\ UNCHANGED <<offset, fd, fileLen, pos, reply, tries, snap>>
  /\ UNCHANGED <<fsVars, cosLocal>>

\* ... or it is reported as failed, executed or not.
PostFails(s) ==
  /\ Goto(s, "post", "purge")
  /\ cos' \in {cos, [data |-> snap[s].data, whole |-> FALSE]}
  /\ UNCHANGED <<sessVars, fsVars, cosLocal>>

\* Mutant: trytime is never tested.
PurgeForever(s) ==
  /\ Goto(s, "purge", "check")
  /\ cos' \in {cos, None}
  /\ UNCHANGED <<sessVars, fsVars, cosLocal>>

\* FileOp::FileUpload deletes the destination object of a failed upload (the
\* delete may fail), and cos_upload_file tries once more.
PurgeRetry(s) ==
  /\ Goto(s, "purge", "check")
  /\ cos' \in {cos, None}
  /\ tries[s] > 1
  /\ tries' = [tries EXCEPT ![s] = @ - 1]
  /\ UNCHANGED <<offset, fd, fileLen, pos, success, reply, snap>>
  /\ UNCHANGED <<fsVars, cosLocal>>

PurgeGiveUp(s) ==
  /\ Goto(s, "purge", "cleanup")
  /\ cos' \in {cos, None}
  /\ tries[s] = 1
  /\ tries' = [tries EXCEPT ![s] = 0]
  /\ Answer(s, "BADSENDFILE")
  /\ UNCHANGED <<offset, fd, fileLen, pos, success, snap, fsVars, cosLocal>>

Respond(s) ==
  /\ Goto(s, "respond", "unlink")
  /\ Answer(s, "TRANSFEROK")
  /\ UNCHANGED <<offset, fd, fileLen, pos, success, tries, snap>>
  /\ UNCHANGED <<fsVars, cosVars>>

UnlinkSpool(s) ==
  /\ Goto(s, "unlink", "cleanup")
  /\ path' = None
  /\ UNCHANGED <<sessVars, lock, data, abandoned, cosVars>>

\* Mutant: a failed upload is kept.
CleanupKeeping(s) ==
  /\ Goto(s, "cleanup", "close")
  /\ UNCHANGED <<sessVars, fsVars, cosVars>>

\* Mutant: the name is removed in every case.
CleanupAlways(s) ==
  /\ Goto(s, "cleanup", "close")
  /\ path' = None
  /\ UNCHANGED <<sessVars, lock, data, abandoned, cosVars>>

\* port_pasv_cleanup_out: delete_failed_uploads removes the file by name.
Cleanup(s) ==
  /\ Goto(s, "cleanup", "close")
  /\ path' = IF success[s] THEN path ELSE None
  /\ UNCHANGED <<sessVars, lock, data, abandoned, cosVars>>

\* The last close of an open file releases its flock; the handler's locals
\* end with it.
Leave(s) ==
  /\ fd' = [fd EXCEPT ![s] = None]
  /\ lock' = [i \in Inode |-> IF lock[i] = s THEN None ELSE lock[i]]
  /\ offset' = [offset EXCEPT ![s] = 0]
  /\ fileLen' = [fileLen EXCEPT ![s] = 0]
  /\ pos' = [pos EXCEPT ![s] = 0]
  /\ success' = [success EXCEPT ![s] = FALSE]
  /\ tries' = [tries EXCEPT ![s] = 0]
  /\ snap' = [snap EXCEPT ![s] = NoSnap]

Close(s) ==
  /\ Goto(s, "close", "done")
  /\ Leave(s)
  /\ UNCHANGED <<reply, path, data, abandoned, cosVars>>

\* The session process ends in the middle of the handler: vsf_cmdio_write
\* dies when the client is gone, and a signal may kill it.
Die(s) ==
  /\ pc[s] \notin {"idle", "done", "dead"}
  /\ pc' = [pc EXCEPT ![s] = "dead"]
  /\ Leave(s)
  /\ abandoned' = abandoned \cup ({fd[s]} \ {None})
  /\ UNCHANGED <<reply, path, data, cosVars>>

Transfer(s) ==
  \/ Begin(s) \/ Reject(s)
  \/ OpenExisting(s) \/ OpenNew(s) \/ OpenFails(s)
  \/ Fstat(s)
  \/ LockGranted(s) \/ LockRefused(s)
  \/ Truncate(s) \/ Seek(s) \/ OutOfBounds(s)
  \/ Connect(s) \/ ConnectFails(s)
  \/ Recv(s) \/ RecvDone(s) \/ RecvFails(s)

Store(s) ==
  \/ CheckSpool(s) \/ ReadSpool(s)
  \/ Post(s) \/ PostFails(s)
  \/ PurgeRetry(s) \/ PurgeGiveUp(s)
  \/ Respond(s) \/ UnlinkSpool(s) \/ Cleanup(s) \/ Close(s)

Step(s) == Transfer(s) \/ Store(s)

Next == \E s \in Session : Step(s) \/ Die(s)

Spec == Init /\ [][Next]_vars

\* A session process is never blocked for ever: flock does not wait, a
\* stalled data connection is ended by SIGALRM, COS requests time out.
FairSpec == Spec /\ \A s \in Session : WF_vars(pc[s] # "idle" /\ Step(s))

-----------------------------------------------------------------------------
Refused(s) == reply[s] = "BADFILEBUSY"
Chunks(s, n) == [k \in 1 .. n |-> s]

\* Will still remove whatever the path names before it closes its file.
WillUnlink(s) ==
  /\ ~Refused(s)
  /\ \/ pc[s] \in (Locked \cup {"stat", "lock"}) \ {"cleanup", "close"}
     \/ pc[s] = "cleanup" /\ ~success[s]

(***************************************************************************)
(* No spool file is left behind: while the local path names a file, some   *)
(* session that has this very file open will remove it, unless a session   *)
(* that had it open died.  Refused sessions, sessions that hold the lock of*)
(* a file already unlinked, and every failure path are included.           *)
(***************************************************************************)
SpoolHasOwner ==
  path # None => \/ path \in abandoned
                 \/ \E s \in Session : fd[s] = path /\ WillUnlink(s)

(***************************************************************************)
(* A STOR from position 0 is answered 226 only after COS accepted bytes    *)
(* for it; and if the name still led to the session's own file when the SDK*)
(* read it, they are exactly the chunks that client sent: no chunk of      *)
(* another session, no leftover of a longer file (lock, then truncate).    *)
(***************************************************************************)
StoredIsSent ==
  \A s \in Session :
    pc[s] = "unlink" /\ offset[s] = 0 /\ s \notin Exclusive
      /\ snap[s].ino = fd[s]
    => snap[s].data = Chunks(s, pos[s])

(***************************************************************************)
(* "Must truncate the file AFTER locking it!": the contents of a file that *)
(* one session has locked never change by a step of another one.           *)
(***************************************************************************)
LockProtectsData ==
  [][\A i \in Inode, s \in Session :
       lock[i] = s /\ data'[i] # data[i] => Truncate(s) \/ Recv(s)]_vars

(***************************************************************************)
(* A session refused with "File is locked, Try later." removes nothing: the*)
(* name is only removed by a session that owns the lock of its own file.   *)
(***************************************************************************)
OnlyOwnersUnlink ==
  [][path' # path /\ path' = None =>
       \E s \in Session : /\ pc[s] \in {"unlink", "cleanup"}
                          /\ pc'[s] # pc[s]
                          /\ lock[fd[s]] = s]_vars

\* Between obtaining the lock and removing the name.
Uploading(s) == pc[s] \in Locked \ {"cleanup", "close"}

(***************************************************************************)
(* README: concurrent uploads of one file are excluded by the lock, only   *)
(* one of them succeeds.  At most one session at a time is between its lock*)
(* and its unlink.                                                         *)
(***************************************************************************)
OneUploader ==
  \A s, t \in Session : Uploading(s) /\ Uploading(t) => s = t

(***************************************************************************)
(* With exclusive creation a 226 means that COS has exactly what the client*)
(* sent, without any condition on the other sessions.                      *)
(***************************************************************************)
ExclusiveStored ==
  \A s \in Exclusive :
    pc[s] = "unlink" => /\ snap[s].ino = fd[s]
                        /\ snap[s].data = Chunks(s, pos[s])

(***************************************************************************)
(* FileOp.cpp: a failed upload deletes "the damaged file".  An object that *)
(* COS has confirmed is never deleted by a failing STOR.                   *)
(***************************************************************************)
DeletesOnlyDamaged ==
  [][cos # None /\ cos' = None => ~cos.whole]_vars

(***************************************************************************)
(* Every STOR that was begun ends: answered, or its process is gone.       *)
(***************************************************************************)
Answered ==
  \A s \in Session : pc[s] = "open" ~> pc[s] \in {"done", "dead"}

=============================================================================
