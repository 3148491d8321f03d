---------------------------- MODULE UploadProofs ----------------------------
(***************************************************************************)
(* Proofs about Upload for every set of sessions, inodes and exclusive     *)
(* sessions, and every bound: the inductive invariant and that a step      *)
(* keeps it, what follows from it, and what holds besides when every       *)
(* session creates its spool file exclusively.                             *)
(***************************************************************************)
EXTENDS Upload, TLAPS

\* The steps are about sets and functions, save where arithmetic is named SMT.
USE ZenonT(60)

-----------------------------------------------------------------------------
(***************************************************************************)
(* The inductive invariant.                                                *)
(***************************************************************************)
HasFile == {"stat", "lock"} \cup Locked

\* new_file_fd is open exactly from open() to close().
FdInv ==
  \A s \in Session : IF pc[s] \in HasFile THEN fd[s] \in Inode ELSE fd[s] = None

\* The lock of an inode belongs to a session that has it open and was not
\* refused, and every such session past its flock() call owns the lock.
LockInv ==
  /\ \A i \in Inode, s \in Session :
       lock[i] = s => fd[s] = i /\ pc[s] \in Locked /\ ~Refused(s)
  /\ \A s \in Session : pc[s] \in Locked /\ ~Refused(s) => lock[fd[s]] = s

\* success is set by a refusal or by a confirmed upload only.
SuccessInv ==
  \A s \in Session :
    /\ Refused(s) => /\ pc[s] \in {"cleanup", "close", "done", "dead"}
                     /\ pc[s] = "cleanup" => success[s]
    /\ pc[s] \in {"idle", "open", "stat", "lock", "position", "connect",
                  "recv", "check", "read", "post", "purge"} => ~success[s]

\* A session that will not unlink any more has unlinked its own file.
GoneInv ==
  \A s \in Session :
    /\ ~Refused(s)
    /\ pc[s] = "close" \/ (pc[s] = "cleanup" /\ success[s])
    => path # fd[s]

\* What a session that started at position 0 has written, and what the SDK
\* read if it read the same inode.
Early == {"idle", "open", "stat", "lock", "position"}
Holding == {"connect", "recv", "check", "read", "post", "purge", "respond",
            "unlink"}
Snapped == {"post", "respond", "unlink"}

DataOf(s) ==
  /\ pc[s] \in Early => pos[s] = 0
  /\ offset[s] = 0 /\ s \notin Exclusive =>
       /\ pc[s] \in Holding => data[fd[s]] = Chunks(s, pos[s])
       /\ pc[s] \in Snapped /\ snap[s].ino = fd[s]
            => snap[s].data = Chunks(s, pos[s])

DataInv == \A s \in Session : DataOf(s)

IInv == TypeOK /\ FdInv /\ LockInv /\ SuccessInv /\ GoneInv /\ SpoolHasOwner
        /\ DataInv

-----------------------------------------------------------------------------
(***************************************************************************)
(* Chunks: what the contents of a spool file are made of.                  *)
(***************************************************************************)
\* n chunks of one session are a content of length n.
LEMMA ChunksType ==
  ASSUME NEW s \in Session, NEW n \in Nat
  PROVE  Chunks(s, n) \in Content /\ Len(Chunks(s, n)) = n
BY SMT DEF Chunks, Content

\* write() of a chunk at any position leaves a content.
LEMMA WriteAtType ==
  ASSUME NEW c \in Content, NEW p \in Nat, NEW s \in Session
  PROVE  WriteAt(c, p, s) \in Content
<1> DEFINE n == IF p < Len(c) THEN Len(c) ELSE p + 1
<1>1. n \in Nat
  BY SMT DEF Content
<1>2. \A k \in 1 .. n :
        (IF k = p + 1 THEN s ELSE IF k <= Len(c) THEN c[k] ELSE Hole)
          \in Session \cup {Hole}
  BY SMT DEF Content
<1> QED
  BY SMT, <1>1, <1>2 DEF WriteAt, Content

\* A session that writes at the end of its own chunks adds one more.
LEMMA WriteChunks ==
  ASSUME NEW s \in Session, NEW n \in Nat
  PROVE  WriteAt(Chunks(s, n), n, s) = Chunks(s, n + 1)
<1>1. Len(Chunks(s, n)) = n
  BY ChunksType
<1>2. \A k \in 1 .. n : Chunks(s, n)[k] = s
  BY DEF Chunks
<1> QED
  BY SMT, <1>1, <1>2 DEF WriteAt, Chunks

-----------------------------------------------------------------------------
\* The initial state has its type.
LEMMA TypeInit == Init => TypeOK
BY SMT, UploadAssumption DEF Init, TypeOK, PC, Locked, Reply, NoSnap, Content

\* Every step of every handler keeps the types.
LEMMA TypeNext == TypeOK /\ FdInv /\ [Next]_vars => TypeOK'
<1> SUFFICES ASSUME TypeOK, FdInv, [Next]_vars
             PROVE  TypeOK'
  OBVIOUS
<1>a. 0 \in Nat /\ 0 \in 0 .. 2 /\ 2 \in 0 .. 2 /\ \A o \in 0 .. MaxOffset : o \in Nat
  BY SMT, UploadAssumption
<1>b. <<>> \in Content
  BY SMT DEF Content
<1>0. NoSnap \in [ino : Inode \cup {None}, data : Content]
  BY <1>b DEF NoSnap
<1> USE <1>a, <1>b, <1>0, UploadAssumption DEF TypeOK, PC, Locked, Reply, Goto, Answer,
                             sessVars, fsVars, cosVars
<1>1. ASSUME NEW s \in Session, Begin(s) PROVE TypeOK'
  <2>1. PICK o \in Nat : offset' = [offset EXCEPT ![s] = o]
    BY <1>1 DEF Begin
  <2> QED
    BY <1>1, <2>1 DEF Begin
<1>2. ASSUME NEW s \in Session, Reject(s) PROVE TypeOK'
  <2>1. PICK r \in Reply : reply' = [reply EXCEPT ![s] = r]
    BY <1>2 DEF Reject
  <2> QED
    BY <1>2, <2>1 DEF Reject
<1>3. ASSUME NEW s \in Session, OpenExisting(s) PROVE TypeOK'
  BY <1>3 DEF OpenExisting
<1>4. ASSUME NEW s \in Session, OpenNew(s) PROVE TypeOK'
  <2>1. PICK i \in Inode : /\ path' = i /\ fd' = [fd EXCEPT ![s] = i]
                           /\ data' = [data EXCEPT ![i] = <<>>] /\ abandoned' = abandoned \ {i}
    BY <1>4 DEF OpenNew, Free
  <2> QED
    BY <1>4, <2>1 DEF OpenNew
<1>5. ASSUME NEW s \in Session, OpenFails(s) PROVE TypeOK'
  BY <1>5 DEF OpenFails
<1>6. ASSUME NEW s \in Session, Fstat(s) PROVE TypeOK'
  <2>1. fd[s] \in Inode
    BY <1>6 DEF Fstat, FdInv, HasFile
  <2>2. Len(data[fd[s]]) \in Nat
    BY SMT, <2>1 DEF Content
  <2> QED
    BY <1>6, <2>2 DEF Fstat
<1>7. ASSUME NEW s \in Session, LockGranted(s) PROVE TypeOK'
  BY <1>7 DEF LockGranted, FdInv, HasFile
<1>8. ASSUME NEW s \in Session, LockRefused(s) PROVE TypeOK'
  BY <1>8 DEF LockRefused
<1>9. ASSUME NEW s \in Session, Truncate(s) PROVE TypeOK'
  BY <1>9 DEF Truncate, FdInv, HasFile
<1>10. ASSUME NEW s \in Session, Seek(s) PROVE TypeOK'
  BY <1>10 DEF Seek
<1>11. ASSUME NEW s \in Session, OutOfBounds(s) PROVE TypeOK'
  BY <1>11 DEF OutOfBounds
<1>12. ASSUME NEW s \in Session, Connect(s) PROVE TypeOK'
  BY <1>12 DEF Connect
<1>13. ASSUME NEW s \in Session, ConnectFails(s) PROVE TypeOK'
  BY <1>13 DEF ConnectFails
<1>14. ASSUME NEW s \in Session, Recv(s) PROVE TypeOK'
  <2>0. fd[s] \in Inode
    BY <1>14 DEF Recv, FdInv, HasFile
  <2>1. fd[s] \in Inode /\ WritePos(s) \in Nat
    BY SMT, <2>0 DEF WritePos, Content
  <2>2. WriteAt(data[fd[s]], WritePos(s), s) \in Content
    BY <2>1, WriteAtType
  <2>3. WritePos(s) + 1 \in Nat
    BY SMT, <2>1
  <2> QED
    BY <1>14, <2>1, <2>2, <2>3 DEF Recv
<1>15. ASSUME NEW s \in Session, RecvDone(s) PROVE TypeOK'
  BY <1>15 DEF RecvDone
<1>16. ASSUME NEW s \in Session, RecvFails(s) PROVE TypeOK'
  <2>1. PICK r \in Reply : reply' = [reply EXCEPT ![s] = r]
    BY <1>16 DEF RecvFails
  <2> QED
    BY <1>16, <2>1 DEF RecvFails
<1>17. ASSUME NEW s \in Session, CheckSpool(s) PROVE TypeOK'
  BY <1>17 DEF CheckSpool
<1>18. ASSUME NEW s \in Session, ReadSpool(s) PROVE TypeOK'
  BY <1>18 DEF ReadSpool
<1>19. ASSUME NEW s \in Session, Post(s) PROVE TypeOK'
  BY <1>19 DEF Post
<1>20. ASSUME NEW s \in Session, PostFails(s) PROVE TypeOK'
  <2>1. [data |-> snap[s].data, whole |-> FALSE]
          \in [data : Content, whole : BOOLEAN]
    OBVIOUS
  <2> QED
    BY <1>20, <2>1 DEF PostFails
<1>21. ASSUME NEW s \in Session, PurgeRetry(s) PROVE TypeOK'
  <2>1. tries[s] - 1 \in 0 .. 2
    BY SMT, <1>21 DEF PurgeRetry
  <2> QED
    BY <1>21, <2>1 DEF PurgeRetry
<1>22. ASSUME NEW s \in Session, PurgeGiveUp(s) PROVE TypeOK'
  BY <1>22 DEF PurgeGiveUp
<1>23. ASSUME NEW s \in Session, Respond(s) PROVE TypeOK'
  BY <1>23 DEF Respond
<1>24. ASSUME NEW s \in Session, UnlinkSpool(s) PROVE TypeOK'
  BY <1>24 DEF UnlinkSpool
<1>25. ASSUME NEW s \in Session, Cleanup(s) PROVE TypeOK'
  BY <1>25 DEF Cleanup
<1>26. ASSUME NEW s \in Session, Close(s) PROVE TypeOK'
  BY <1>26 DEF Close, Leave
<1>27. ASSUME NEW s \in Session, Die(s) PROVE TypeOK'
  BY <1>27 DEF Die, Leave
<1>28. CASE UNCHANGED vars
  BY <1>28 DEF vars
<1> QED
  BY <1>1, <1>2, <1>3, <1>4, <1>5, <1>6, <1>7, <1>8, <1>9, <1>10,
     <1>11, <1>12, <1>13, <1>14, <1>15, <1>16, <1>17, <1>18, <1>19, <1>20,
     <1>21, <1>22, <1>23, <1>24, <1>25, <1>26, <1>27, <1>28
     DEF Next, Step, Transfer, Store

\* The open file of every session stays consistent with its program point.
LEMMA FdNext ==
  TypeOK /\ FdInv /\ [Next]_vars => FdInv'
<1> SUFFICES ASSUME TypeOK, FdInv, [Next]_vars
             PROVE  FdInv'
  OBVIOUS
<1>0. /\ pc \in [Session -> PC] /\ fd \in [Session -> Inode \cup {None}]
      /\ success \in [Session -> BOOLEAN] /\ reply \in [Session -> Reply]
      /\ path \in Inode \cup {None} /\ lock \in [Inode -> Session \cup {None}]
  BY DEF TypeOK
<1> USE <1>0, UploadAssumption DEF FdInv, Locked, HasFile, Goto, Answer,
        sessVars, fsVars, cosVars
<1>1. ASSUME NEW s \in Session, Begin(s) PROVE FdInv'
  BY <1>1 DEF Begin
<1>2. ASSUME NEW s \in Session, Reject(s) PROVE FdInv'
  BY <1>2 DEF Reject
<1>3. ASSUME NEW s \in Session, OpenExisting(s) PROVE FdInv'
  BY <1>3 DEF OpenExisting
<1>4. ASSUME NEW s \in Session, OpenNew(s) PROVE FdInv'
  BY SMT, <1>4 DEF OpenNew, Free
<1>5. ASSUME NEW s \in Session, OpenFails(s) PROVE FdInv'
  BY <1>5 DEF OpenFails
<1>6. ASSUME NEW s \in Session, Fstat(s) PROVE FdInv'
  BY <1>6 DEF Fstat
<1>7. ASSUME NEW s \in Session, LockGranted(s) PROVE FdInv'
  BY <1>7 DEF LockGranted
<1>8. ASSUME NEW s \in Session, LockRefused(s) PROVE FdInv'
  BY <1>8 DEF LockRefused
<1>9. ASSUME NEW s \in Session, Truncate(s) PROVE FdInv'
  BY <1>9 DEF Truncate
<1>10. ASSUME NEW s \in Session, Seek(s) PROVE FdInv'
  BY <1>10 DEF Seek
<1>11. ASSUME NEW s \in Session, OutOfBounds(s) PROVE FdInv'
  BY <1>11 DEF OutOfBounds
<1>12. ASSUME NEW s \in Session, Connect(s) PROVE FdInv'
  BY <1>12 DEF Connect
<1>13. ASSUME NEW s \in Session, ConnectFails(s) PROVE FdInv'
  BY <1>13 DEF ConnectFails
<1>14. ASSUME NEW s \in Session, Recv(s) PROVE FdInv'
  BY <1>14 DEF Recv
<1>15. ASSUME NEW s \in Session, RecvDone(s) PROVE FdInv'
  BY <1>15 DEF RecvDone
<1>16. ASSUME NEW s \in Session, RecvFails(s) PROVE FdInv'
  BY <1>16 DEF RecvFails
<1>17. ASSUME NEW s \in Session, CheckSpool(s) PROVE FdInv'
  BY SMT, <1>17 DEF CheckSpool
<1>18. ASSUME NEW s \in Session, ReadSpool(s) PROVE FdInv'
  BY <1>18 DEF ReadSpool
<1>19. ASSUME NEW s \in Session, Post(s) PROVE FdInv'
  BY <1>19 DEF Post
<1>20. ASSUME NEW s \in Session, PostFails(s) PROVE FdInv'
  BY <1>20 DEF PostFails
<1>21. ASSUME NEW s \in Session, PurgeRetry(s) PROVE FdInv'
  BY <1>21 DEF PurgeRetry
<1>22. ASSUME NEW s \in Session, PurgeGiveUp(s) PROVE FdInv'
  BY <1>22 DEF PurgeGiveUp
<1>23. ASSUME NEW s \in Session, Respond(s) PROVE FdInv'
  BY <1>23 DEF Respond
<1>24. ASSUME NEW s \in Session, UnlinkSpool(s) PROVE FdInv'
  BY <1>24 DEF UnlinkSpool
<1>25. ASSUME NEW s \in Session, Cleanup(s) PROVE FdInv'
  BY <1>25 DEF Cleanup
<1>26. ASSUME NEW s \in Session, Close(s) PROVE FdInv'
  BY <1>26 DEF Close, Leave
<1>27. ASSUME NEW s \in Session, Die(s) PROVE FdInv'
  BY <1>27 DEF Die, Leave
<1>28. CASE UNCHANGED vars
  BY <1>28 DEF vars
<1> QED
  BY <1>1, <1>2, <1>3, <1>4, <1>5, <1>6, <1>7, <1>8, <1>9, <1>10,
     <1>11, <1>12, <1>13, <1>14, <1>15, <1>16, <1>17, <1>18, <1>19, <1>20,
     <1>21, <1>22, <1>23, <1>24, <1>25, <1>26, <1>27, <1>28
     DEF Next, Step, Transfer, Store

\* success and the refusal stay consistent with the program point.
LEMMA SuccessNext ==
  TypeOK /\ SuccessInv /\ [Next]_vars => SuccessInv'
<1> SUFFICES ASSUME TypeOK, SuccessInv, [Next]_vars
             PROVE  SuccessInv'
  OBVIOUS
<1>0. /\ pc \in [Session -> PC] /\ fd \in [Session -> Inode \cup {None}]
      /\ success \in [Session -> BOOLEAN] /\ reply \in [Session -> Reply]
      /\ path \in Inode \cup {None} /\ lock \in [Inode -> Session \cup {None}]
  BY DEF TypeOK
<1> USE <1>0, UploadAssumption DEF SuccessInv, Refused, Locked, HasFile,
        Goto, Answer, sessVars, fsVars, cosVars
<1>1. ASSUME NEW s \in Session, Begin(s) PROVE SuccessInv'
  BY <1>1 DEF Begin
<1>2. ASSUME NEW s \in Session, Reject(s) PROVE SuccessInv'
  BY <1>2 DEF Reject
<1>3. ASSUME NEW s \in Session, OpenExisting(s) PROVE SuccessInv'
  BY <1>3 DEF OpenExisting
<1>4. ASSUME NEW s \in Session, OpenNew(s) PROVE SuccessInv'
  BY <1>4 DEF OpenNew, Free
<1>5. ASSUME NEW s \in Session, OpenFails(s) PROVE SuccessInv'
  BY <1>5 DEF OpenFails
<1>6. ASSUME NEW s \in Session, Fstat(s) PROVE SuccessInv'
  BY <1>6 DEF Fstat
<1>7. ASSUME NEW s \in Session, LockGranted(s) PROVE SuccessInv'
  BY <1>7 DEF LockGranted
<1>8. ASSUME NEW s \in Session, LockRefused(s) PROVE SuccessInv'
  BY <1>8 DEF LockRefused
<1>9. ASSUME NEW s \in Session, Truncate(s) PROVE SuccessInv'
  BY <1>9 DEF Truncate
<1>10. ASSUME NEW s \in Session, Seek(s) PROVE SuccessInv'
  BY <1>10 DEF Seek
<1>11. ASSUME NEW s \in Session, OutOfBounds(s) PROVE SuccessInv'
  BY <1>11 DEF OutOfBounds
<1>12. ASSUME NEW s \in Session, Connect(s) PROVE SuccessInv'
  BY <1>12 DEF Connect
<1>13. ASSUME NEW s \in Session, ConnectFails(s) PROVE SuccessInv'
  BY <1>13 DEF ConnectFails
<1>14. ASSUME NEW s \in Session, Recv(s) PROVE SuccessInv'
  BY <1>14 DEF Recv
<1>15. ASSUME NEW s \in Session, RecvDone(s) PROVE SuccessInv'
  BY <1>15 DEF RecvDone
<1>16. ASSUME NEW s \in Session, RecvFails(s) PROVE SuccessInv'
  BY <1>16 DEF RecvFails
<1>17. ASSUME NEW s \in Session, CheckSpool(s) PROVE SuccessInv'
  BY SMT, <1>17 DEF CheckSpool
<1>18. ASSUME NEW s \in Session, ReadSpool(s) PROVE SuccessInv'
  BY <1>18 DEF ReadSpool
<1>19. ASSUME NEW s \in Session, Post(s) PROVE SuccessInv'
  BY <1>19 DEF Post
<1>20. ASSUME NEW s \in Session, PostFails(s) PROVE SuccessInv'
  BY <1>20 DEF PostFails
<1>21. ASSUME NEW s \in Session, PurgeRetry(s) PROVE SuccessInv'
  BY <1>21 DEF PurgeRetry
<1>22. ASSUME NEW s \in Session, PurgeGiveUp(s) PROVE SuccessInv'
  BY <1>22 DEF PurgeGiveUp
<1>23. ASSUME NEW s \in Session, Respond(s) PROVE SuccessInv'
  BY <1>23 DEF Respond
<1>24. ASSUME NEW s \in Session, UnlinkSpool(s) PROVE SuccessInv'
  BY <1>24 DEF UnlinkSpool
<1>25. ASSUME NEW s \in Session, Cleanup(s) PROVE SuccessInv'
  BY <1>25 DEF Cleanup
<1>26. ASSUME NEW s \in Session, Close(s) PROVE SuccessInv'
  BY <1>26 DEF Close, Leave
<1>27. ASSUME NEW s \in Session, Die(s) PROVE SuccessInv'
  BY <1>27 DEF Die, Leave
<1>28. CASE UNCHANGED vars
  BY <1>28 DEF vars
<1> QED
  BY <1>1, <1>2, <1>3, <1>4, <1>5, <1>6, <1>7, <1>8, <1>9, <1>10,
     <1>11, <1>12, <1>13, <1>14, <1>15, <1>16, <1>17, <1>18, <1>19, <1>20,
     <1>21, <1>22, <1>23, <1>24, <1>25, <1>26, <1>27, <1>28
     DEF Next, Step, Transfer, Store

\* Locks are owned by exactly the sessions that obtained them.
LEMMA LockNext ==
  TypeOK /\ FdInv /\ SuccessInv /\ LockInv /\ [Next]_vars => LockInv'
<1> SUFFICES ASSUME TypeOK, FdInv, SuccessInv, LockInv, [Next]_vars
             PROVE  LockInv'
  OBVIOUS
<1>0. /\ pc \in [Session -> PC] /\ fd \in [Session -> Inode \cup {None}]
      /\ success \in [Session -> BOOLEAN] /\ reply \in [Session -> Reply]
      /\ path \in Inode \cup {None} /\ lock \in [Inode -> Session \cup {None}]
  BY DEF TypeOK
<1> USE <1>0, UploadAssumption DEF FdInv, SuccessInv, LockInv, Refused,
        Locked, HasFile, Goto, Answer, sessVars, fsVars, cosVars
<1>1. ASSUME NEW s \in Session, Begin(s) PROVE LockInv'
  BY SMT, <1>1 DEF Begin
<1>2. ASSUME NEW s \in Session, Reject(s) PROVE LockInv'
  BY SMT, <1>2 DEF Reject
<1>3. ASSUME NEW s \in Session, OpenExisting(s) PROVE LockInv'
  BY SMTT(30), <1>3 DEF OpenExisting
<1>4. ASSUME NEW s \in Session, OpenNew(s) PROVE LockInv'
  BY SMT, <1>4 DEF OpenNew, Free
<1>5. ASSUME NEW s \in Session, OpenFails(s) PROVE LockInv'
  BY SMT, <1>5 DEF OpenFails
<1>6. ASSUME NEW s \in Session, Fstat(s) PROVE LockInv'
  BY SMTT(30), <1>6 DEF Fstat
<1>7. ASSUME NEW s \in Session, LockGranted(s) PROVE LockInv'
  BY SMTT(30), <1>7 DEF LockGranted
<1>8. ASSUME NEW s \in Session, LockRefused(s) PROVE LockInv'
  BY SMTT(30), <1>8 DEF LockRefused
<1>9. ASSUME NEW s \in Session, Truncate(s) PROVE LockInv'
  BY SMT, <1>9 DEF Truncate
<1>10. ASSUME NEW s \in Session, Seek(s) PROVE LockInv'
  BY SMT, <1>10 DEF Seek
<1>11. ASSUME NEW s \in Session, OutOfBounds(s) PROVE LockInv'
  BY SMT, <1>11 DEF OutOfBounds
<1>12. ASSUME NEW s \in Session, Connect(s) PROVE LockInv'
  BY SMT, <1>12 DEF Connect
<1>13. ASSUME NEW s \in Session, ConnectFails(s) PROVE LockInv'
  BY SMTT(30), <1>13 DEF ConnectFails
<1>14. ASSUME NEW s \in Session, Recv(s) PROVE LockInv'
  BY SMTT(30), <1>14 DEF Recv
<1>15. ASSUME NEW s \in Session, RecvDone(s) PROVE LockInv'
  BY SMT, <1>15 DEF RecvDone
<1>16. ASSUME NEW s \in Session, RecvFails(s) PROVE LockInv'
  BY SMT, <1>16 DEF RecvFails
<1>17. ASSUME NEW s \in Session, CheckSpool(s) PROVE LockInv'
  BY SMT, <1>17 DEF CheckSpool
<1>18. ASSUME NEW s \in Session, ReadSpool(s) PROVE LockInv'
  BY SMT, <1>18 DEF ReadSpool
<1>19. ASSUME NEW s \in Session, Post(s) PROVE LockInv'
  BY SMT, <1>19 DEF Post
<1>20. ASSUME NEW s \in Session, PostFails(s) PROVE LockInv'
  BY SMT, <1>20 DEF PostFails
<1>21. ASSUME NEW s \in Session, PurgeRetry(s) PROVE LockInv'
  BY SMT, <1>21 DEF PurgeRetry
<1>22. ASSUME NEW s \in Session, PurgeGiveUp(s) PROVE LockInv'
  BY SMT, <1>22 DEF PurgeGiveUp
<1>23. ASSUME NEW s \in Session, Respond(s) PROVE LockInv'
  BY SMTT(30), <1>23 DEF Respond
<1>24. ASSUME NEW s \in Session, UnlinkSpool(s) PROVE LockInv'
  BY SMT, <1>24 DEF UnlinkSpool
<1>25. ASSUME NEW s \in Session, Cleanup(s) PROVE LockInv'
  BY SMTT(30), <1>25 DEF Cleanup
<1>26. ASSUME NEW s \in Session, Close(s) PROVE LockInv'
  BY SMTT(30), <1>26 DEF Close, Leave
<1>27. ASSUME NEW s \in Session, Die(s) PROVE LockInv'
  BY SMT, <1>27 DEF Die, Leave
<1>28. CASE UNCHANGED vars
  BY SMT, <1>28 DEF vars
<1> QED
  BY <1>1, <1>2, <1>3, <1>4, <1>5, <1>6, <1>7, <1>8, <1>9, <1>10,
     <1>11, <1>12, <1>13, <1>14, <1>15, <1>16, <1>17, <1>18, <1>19, <1>20,
     <1>21, <1>22, <1>23, <1>24, <1>25, <1>26, <1>27, <1>28
     DEF Next, Step, Transfer, Store

\* A session past its unlink never finds its own file under the path again.
LEMMA GoneNext ==
  TypeOK /\ FdInv /\ SuccessInv /\ GoneInv /\ [Next]_vars => GoneInv'
<1> SUFFICES ASSUME TypeOK, FdInv, SuccessInv, GoneInv, [Next]_vars
             PROVE  GoneInv'
  OBVIOUS
<1>0. /\ pc \in [Session -> PC] /\ fd \in [Session -> Inode \cup {None}]
      /\ success \in [Session -> BOOLEAN] /\ reply \in [Session -> Reply]
      /\ path \in Inode \cup {None} /\ lock \in [Inode -> Session \cup {None}]
  BY DEF TypeOK
<1> USE <1>0, UploadAssumption DEF FdInv, SuccessInv, GoneInv, Refused,
        Locked, HasFile, Goto, Answer, sessVars, fsVars, cosVars
<1>1. ASSUME NEW s \in Session, Begin(s) PROVE GoneInv'
  BY <1>1 DEF Begin
<1>2. ASSUME NEW s \in Session, Reject(s) PROVE GoneInv'
  BY SMT, <1>2 DEF Reject
<1>3. ASSUME NEW s \in Session, OpenExisting(s) PROVE GoneInv'
  BY <1>3 DEF OpenExisting
<1>4. ASSUME NEW s \in Session, OpenNew(s) PROVE GoneInv'
  BY SMT, <1>4 DEF OpenNew, Free
<1>5. ASSUME NEW s \in Session, OpenFails(s) PROVE GoneInv'
  BY <1>5 DEF OpenFails
<1>6. ASSUME NEW s \in Session, Fstat(s) PROVE GoneInv'
  BY <1>6 DEF Fstat
<1>7. ASSUME NEW s \in Session, LockGranted(s) PROVE GoneInv'
  BY <1>7 DEF LockGranted
<1>8. ASSUME NEW s \in Session, LockRefused(s) PROVE GoneInv'
  BY <1>8 DEF LockRefused
<1>9. ASSUME NEW s \in Session, Truncate(s) PROVE GoneInv'
  BY <1>9 DEF Truncate
<1>10. ASSUME NEW s \in Session, Seek(s) PROVE GoneInv'
  BY <1>10 DEF Seek
<1>11. ASSUME NEW s \in Session, OutOfBounds(s) PROVE GoneInv'
  BY <1>11 DEF OutOfBounds
<1>12. ASSUME NEW s \in Session, Connect(s) PROVE GoneInv'
  BY <1>12 DEF Connect
<1>13. ASSUME NEW s \in Session, ConnectFails(s) PROVE GoneInv'
  BY <1>13 DEF ConnectFails
<1>14. ASSUME NEW s \in Session, Recv(s) PROVE GoneInv'
  BY <1>14 DEF Recv
<1>15. ASSUME NEW s \in Session, RecvDone(s) PROVE GoneInv'
  BY <1>15 DEF RecvDone
<1>16. ASSUME NEW s \in Session, RecvFails(s) PROVE GoneInv'
  BY SMT, <1>16 DEF RecvFails
<1>17. ASSUME NEW s \in Session, CheckSpool(s) PROVE GoneInv'
  BY SMT, <1>17 DEF CheckSpool
<1>18. ASSUME NEW s \in Session, ReadSpool(s) PROVE GoneInv'
  BY <1>18 DEF ReadSpool
<1>19. ASSUME NEW s \in Session, Post(s) PROVE GoneInv'
  BY <1>19 DEF Post
<1>20. ASSUME NEW s \in Session, PostFails(s) PROVE GoneInv'
  BY <1>20 DEF PostFails
<1>21. ASSUME NEW s \in Session, PurgeRetry(s) PROVE GoneInv'
  BY <1>21 DEF PurgeRetry
<1>22. ASSUME NEW s \in Session, PurgeGiveUp(s) PROVE GoneInv'
  BY <1>22 DEF PurgeGiveUp
<1>23. ASSUME NEW s \in Session, Respond(s) PROVE GoneInv'
  BY <1>23 DEF Respond
<1>24. ASSUME NEW s \in Session, UnlinkSpool(s) PROVE GoneInv'
  BY SMT, <1>24 DEF UnlinkSpool
<1>25. ASSUME NEW s \in Session, Cleanup(s) PROVE GoneInv'
  BY <1>25 DEF Cleanup
<1>26. ASSUME NEW s \in Session, Close(s) PROVE GoneInv'
  BY <1>26 DEF Close, Leave
<1>27. ASSUME NEW s \in Session, Die(s) PROVE GoneInv'
  BY <1>27 DEF Die, Leave
<1>28. CASE UNCHANGED vars
  BY <1>28 DEF vars
<1> QED
  BY <1>1, <1>2, <1>3, <1>4, <1>5, <1>6, <1>7, <1>8, <1>9, <1>10,
     <1>11, <1>12, <1>13, <1>14, <1>15, <1>16, <1>17, <1>18, <1>19, <1>20,
     <1>21, <1>22, <1>23, <1>24, <1>25, <1>26, <1>27, <1>28
     DEF Next, Step, Transfer, Store

\* Whoever leaves a linked file without removing it leaves it to its owner.
LEMMA SpoolNext ==
  TypeOK /\ FdInv /\ SuccessInv /\ LockInv /\ GoneInv /\ SpoolHasOwner /\ [Next]_vars => SpoolHasOwner'
<1> SUFFICES ASSUME TypeOK, FdInv, SuccessInv, LockInv, GoneInv, SpoolHasOwner, [Next]_vars
             PROVE  SpoolHasOwner'
  OBVIOUS
<1>0. /\ pc \in [Session -> PC] /\ fd \in [Session -> Inode \cup {None}]
      /\ success \in [Session -> BOOLEAN] /\ reply \in [Session -> Reply]
      /\ path \in Inode \cup {None} /\ lock \in [Inode -> Session \cup {None}]
  BY DEF TypeOK
<1> USE <1>0, UploadAssumption DEF FdInv, SuccessInv, SpoolHasOwner,
        WillUnlink, Refused, Locked, HasFile, Goto, Answer, sessVars, fsVars,
        cosVars
<1>1. ASSUME NEW s \in Session, Begin(s) PROVE SpoolHasOwner'
  BY <1>1 DEF Begin
<1>2. ASSUME NEW s \in Session, Reject(s) PROVE SpoolHasOwner'
  BY <1>2 DEF Reject
<1>3. ASSUME NEW s \in Session, OpenExisting(s) PROVE SpoolHasOwner'
  BY <1>3 DEF OpenExisting
<1>4. ASSUME NEW s \in Session, OpenNew(s) PROVE SpoolHasOwner'
  <2>1. fd'[s] = path' /\ pc'[s] = "stat" /\ ~Refused(s)'
    BY <1>4 DEF OpenNew
  <2> QED
    BY <2>1
<1>5. ASSUME NEW s \in Session, OpenFails(s) PROVE SpoolHasOwner'
  BY <1>5 DEF OpenFails
<1>6. ASSUME NEW s \in Session, Fstat(s) PROVE SpoolHasOwner'
  BY <1>6 DEF Fstat
<1>7. ASSUME NEW s \in Session, LockGranted(s) PROVE SpoolHasOwner'
  BY <1>7 DEF LockGranted
<1>8. ASSUME NEW s \in Session, LockRefused(s) PROVE SpoolHasOwner'
  <2>1. CASE path = fd[s]
    <3>1. PICK t \in Session : lock[fd[s]] = t
      BY <1>8 DEF LockRefused
    <3>2. fd[t] = path /\ WillUnlink(t) /\ t # s
      BY SMT, <1>8, <2>1, <3>1 DEF LockRefused, LockInv, GoneInv
    <3>3. (fd[t] = path /\ WillUnlink(t))'
      BY <1>8, <3>2 DEF LockRefused
    <3> QED
      BY <3>3
  <2>2. CASE path # fd[s]
    BY <1>8, <2>2 DEF LockRefused
  <2> QED
    BY <2>1, <2>2
<1>9. ASSUME NEW s \in Session, Truncate(s) PROVE SpoolHasOwner'
  BY <1>9 DEF Truncate
<1>10. ASSUME NEW s \in Session, Seek(s) PROVE SpoolHasOwner'
  BY <1>10 DEF Seek
<1>11. ASSUME NEW s \in Session, OutOfBounds(s) PROVE SpoolHasOwner'
  BY <1>11 DEF OutOfBounds
<1>12. ASSUME NEW s \in Session, Connect(s) PROVE SpoolHasOwner'
  BY <1>12 DEF Connect
<1>13. ASSUME NEW s \in Session, ConnectFails(s) PROVE SpoolHasOwner'
  BY <1>13 DEF ConnectFails
<1>14. ASSUME NEW s \in Session, Recv(s) PROVE SpoolHasOwner'
  BY <1>14 DEF Recv
<1>15. ASSUME NEW s \in Session, RecvDone(s) PROVE SpoolHasOwner'
  BY <1>15 DEF RecvDone
<1>16. ASSUME NEW s \in Session, RecvFails(s) PROVE SpoolHasOwner'
  BY SMT, <1>16 DEF RecvFails
<1>17. ASSUME NEW s \in Session, CheckSpool(s) PROVE SpoolHasOwner'
  BY SMT, <1>17 DEF CheckSpool
<1>18. ASSUME NEW s \in Session, ReadSpool(s) PROVE SpoolHasOwner'
  BY <1>18 DEF ReadSpool
<1>19. ASSUME NEW s \in Session, Post(s) PROVE SpoolHasOwner'
  BY <1>19 DEF Post
<1>20. ASSUME NEW s \in Session, PostFails(s) PROVE SpoolHasOwner'
  BY <1>20 DEF PostFails
<1>21. ASSUME NEW s \in Session, PurgeRetry(s) PROVE SpoolHasOwner'
  BY <1>21 DEF PurgeRetry
<1>22. ASSUME NEW s \in Session, PurgeGiveUp(s) PROVE SpoolHasOwner'
  BY SMT, <1>22 DEF PurgeGiveUp
<1>23. ASSUME NEW s \in Session, Respond(s) PROVE SpoolHasOwner'
  BY <1>23 DEF Respond
<1>24. ASSUME NEW s \in Session, UnlinkSpool(s) PROVE SpoolHasOwner'
  BY <1>24 DEF UnlinkSpool
<1>25. ASSUME NEW s \in Session, Cleanup(s) PROVE SpoolHasOwner'
  BY SMT, <1>25 DEF Cleanup
<1>26. ASSUME NEW s \in Session, Close(s) PROVE SpoolHasOwner'
  BY SMT, <1>26 DEF Close, Leave, GoneInv, LockInv
<1>27. ASSUME NEW s \in Session, Die(s) PROVE SpoolHasOwner'
  BY SMT, <1>27 DEF Die, Leave
<1>28. CASE UNCHANGED vars
  BY <1>28 DEF vars
<1> QED
  BY <1>1, <1>2, <1>3, <1>4, <1>5, <1>6, <1>7, <1>8, <1>9, <1>10,
     <1>11, <1>12, <1>13, <1>14, <1>15, <1>16, <1>17, <1>18, <1>19, <1>20,
     <1>21, <1>22, <1>23, <1>24, <1>25, <1>26, <1>27, <1>28
     DEF Next, Step, Transfer, Store

-----------------------------------------------------------------------------
(* The part of the invariant about contents, and the theorems.             *)

\* What a step of one session leaves alone of another session's view.
SameView(t) ==
  /\ pc'[t] = pc[t] /\ pos'[t] = pos[t] /\ offset'[t] = offset[t]
  /\ fd'[t] = fd[t] /\ snap'[t] = snap[t]

\* A step of s leaves the view of every other session alone.
LEMMA OthersSame ==
  ASSUME TypeOK, NEW s \in Session, Step(s) \/ Die(s),
         NEW t \in Session, t # s
  PROVE  SameView(t)
<1> DEFINE Snap == [ino : Inode \cup {None}, data : Content]
<1>0. /\ pc \in [Session -> PC] /\ pos \in [Session -> Nat]
      /\ offset \in [Session -> Nat] /\ fd \in [Session -> Inode \cup {None}]
      /\ snap \in [Session -> Snap]
  BY DEF TypeOK
<1> HIDE DEF Snap
<1> USE <1>0 DEF SameView, Goto, sessVars
<1>1. CASE Begin(s)
  BY <1>1 DEF Begin
<1>2. CASE Reject(s)
  BY <1>2 DEF Reject
<1>3. CASE OpenExisting(s)
  BY <1>3 DEF OpenExisting
<1>4. CASE OpenNew(s)
  BY <1>4 DEF OpenNew
<1>5. CASE OpenFails(s)
  BY <1>5 DEF OpenFails
<1>6. CASE Fstat(s)
  BY <1>6 DEF Fstat
<1>7. CASE LockGranted(s)
  BY <1>7 DEF LockGranted
<1>8. CASE LockRefused(s)
  BY <1>8 DEF LockRefused
<1>9. CASE Truncate(s)
  BY <1>9 DEF Truncate
<1>10. CASE Seek(s)
  BY <1>10 DEF Seek
<1>11. CASE OutOfBounds(s)
  BY <1>11 DEF OutOfBounds
<1>12. CASE Connect(s)
  BY <1>12 DEF Connect
<1>13. CASE ConnectFails(s)
  BY <1>13 DEF ConnectFails
<1>14. CASE Recv(s)
  BY <1>14 DEF Recv
<1>15. CASE RecvDone(s)
  BY <1>15 DEF RecvDone
<1>16. CASE RecvFails(s)
  BY <1>16 DEF RecvFails
<1>17. CASE CheckSpool(s)
  BY <1>17 DEF CheckSpool
<1>18. CASE ReadSpool(s)
  BY <1>18 DEF ReadSpool
<1>19. CASE Post(s)
  BY <1>19 DEF Post
<1>20. CASE PostFails(s)
  BY <1>20 DEF PostFails
<1>21. CASE PurgeRetry(s)
  BY <1>21 DEF PurgeRetry
<1>22. CASE PurgeGiveUp(s)
  BY <1>22 DEF PurgeGiveUp
<1>23. CASE Respond(s)
  BY <1>23 DEF Respond
<1>24. CASE UnlinkSpool(s)
  BY <1>24 DEF UnlinkSpool
<1>25. CASE Cleanup(s)
  BY <1>25 DEF Cleanup
<1>26. CASE Close(s)
  BY <1>26 DEF Close, Leave
<1>27. CASE Die(s)
  BY <1>27 DEF Die, Leave
<1> QED
  BY <1>1, <1>2, <1>3, <1>4, <1>5, <1>6, <1>7, <1>8, <1>9, <1>10, <1>11,
     <1>12, <1>13, <1>14, <1>15, <1>16, <1>17, <1>18, <1>19, <1>20, <1>21,
     <1>22, <1>23, <1>24, <1>25, <1>26, <1>27
  DEF Step, Transfer, Store

\* A session whose view and whose file did not change keeps its part.
LEMMA DataKeep ==
  ASSUME NEW t \in Session, DataOf(t), SameView(t),
         pc[t] \in Holding => data'[fd[t]] = data[fd[t]]
  PROVE  DataOf(t)'
BY DEF DataOf, SameView

\* A step that changes no file: only its own session has to be looked at.
LEMMA DataLocal ==
  ASSUME TypeOK, DataInv, NEW s \in Session, Step(s) \/ Die(s),
         data' = data, DataOf(s)'
  PROVE  DataInv'
<1>1. ASSUME NEW t \in Session, t # s PROVE DataOf(t)'
  <2>1. SameView(t)
    BY <1>1, OthersSame
  <2>2. DataOf(t)
    BY DEF DataInv
  <2> QED BY <2>1, <2>2, DataKeep
<1> QED BY <1>1 DEF DataInv

\* A step that changes one file, by the owner of its lock.
LEMMA DataOwner ==
  ASSUME TypeOK, FdInv, SuccessInv, LockInv, DataInv,
         NEW s \in Session, Step(s) \/ Die(s),
         pc[s] \in {"position", "recv"},
         \A i \in Inode : i # fd[s] => data'[i] = data[i],
         DataOf(s)'
  PROVE  DataInv'
<1>1. ASSUME NEW t \in Session, t # s PROVE DataOf(t)'
  <2>1. SameView(t)
    BY <1>1, OthersSame
  <2>2. DataOf(t)
    BY DEF DataInv
  <2>3. lock[fd[s]] = s
    BY DEF LockInv, SuccessInv, Locked
  <2>4. ASSUME pc[t] \in Holding PROVE data'[fd[t]] = data[fd[t]]
    <3>1. pc[t] \in Locked /\ ~Refused(t)
      BY <2>4 DEF Holding, Locked, SuccessInv
    <3>2. lock[fd[t]] = t /\ fd[t] \in Inode
      BY <3>1 DEF LockInv, FdInv, HasFile
    <3> QED BY <1>1, <2>3, <3>2
  <2> QED BY <2>1, <2>2, <2>4, DataKeep
<1> QED BY <1>1 DEF DataInv

\* What a session wrote stays what its file holds.
LEMMA DataNext ==
  TypeOK /\ FdInv /\ SuccessInv /\ LockInv /\ DataInv /\ [Next]_vars => DataInv'
<1> SUFFICES ASSUME TypeOK, FdInv, SuccessInv, LockInv, DataInv, [Next]_vars
             PROVE  DataInv'
  OBVIOUS
<1>0. \A s \in Session : DataOf(s)
  BY DEF DataInv
<1>1. ASSUME NEW s \in Session, Begin(s) PROVE DataInv'
  <2>0. Step(s) \/ Die(s)
    BY <1>1 DEF Step, Transfer, Store
  <2>1. pc[s] = "idle" /\ pc'[s] = "open"
    BY <1>1 DEF Begin, Goto, TypeOK
  <2>2. data' = data
    BY <1>1 DEF Begin, fsVars
  <2>3. pos'[s] = pos[s]
    BY <1>1 DEF Begin, sessVars
  <2>4. DataOf(s)'
    BY <1>0, <2>1, <2>3 DEF DataOf, Early, Holding, Snapped
  <2> QED BY <2>0, <2>2, <2>4, DataLocal
<1>2. ASSUME NEW s \in Session, Reject(s) PROVE DataInv'
  <2>0. Step(s) \/ Die(s)
    BY <1>2 DEF Step, Transfer, Store
  <2>1. pc[s] = "idle" /\ pc'[s] = "done"
    BY <1>2 DEF Reject, Goto, TypeOK
  <2>2. data' = data
    BY <1>2 DEF Reject, fsVars
  <2>3. DataOf(s)'
    BY <2>1 DEF DataOf, Early, Holding, Snapped
  <2> QED BY <2>0, <2>2, <2>3, DataLocal
<1>3. ASSUME NEW s \in Session, OpenExisting(s) PROVE DataInv'
  <2>0. Step(s) \/ Die(s)
    BY <1>3 DEF Step, Transfer, Store
  <2>1. pc[s] = "open" /\ pc'[s] = "stat"
    BY <1>3 DEF OpenExisting, Goto, TypeOK
  <2>2. data' = data
    BY <1>3 DEF OpenExisting, fsVars
  <2>3. pos'[s] = pos[s]
    BY <1>3 DEF OpenExisting, sessVars
  <2>4. DataOf(s)'
    BY <1>0, <2>1, <2>3 DEF DataOf, Early, Holding, Snapped
  <2> QED BY <2>0, <2>2, <2>4, DataLocal
<1>4. ASSUME NEW s \in Session, OpenNew(s) PROVE DataInv'
  <2>0. Step(s) \/ Die(s)
    BY <1>4 DEF Step, Transfer, Store
  <2>1. pc[s] = "open" /\ pc'[s] = "stat" /\ pos'[s] = pos[s]
    BY <1>4 DEF OpenNew, Goto, TypeOK
  <2>2. PICK i \in Free : data' = [data EXCEPT ![i] = <<>>]
    BY <1>4 DEF OpenNew
  <2>3. ASSUME NEW t \in Session, t # s PROVE DataOf(t)'
    <3>1. SameView(t)
      BY <2>0, <2>3, OthersSame
    <3>2. fd[t] # i
      BY <2>2 DEF Free
    <3>3. pc[t] \in Holding => data'[fd[t]] = data[fd[t]]
      BY <2>2, <3>2 DEF TypeOK, FdInv, HasFile, Holding, Locked
    <3> QED BY <1>0, <3>1, <3>3, DataKeep
  <2>4. DataOf(s)'
    BY <1>0, <2>1 DEF DataOf, Early, Holding, Snapped
  <2> QED BY <2>3, <2>4 DEF DataInv
<1>5. ASSUME NEW s \in Session, OpenFails(s) PROVE DataInv'
  <2>0. Step(s) \/ Die(s)
    BY <1>5 DEF Step, Transfer, Store
  <2>1. pc[s] = "open" /\ pc'[s] = "done"
    BY <1>5 DEF OpenFails, Goto, TypeOK
  <2>2. data' = data
    BY <1>5 DEF OpenFails, fsVars
  <2>3. DataOf(s)'
    BY <2>1 DEF DataOf, Early, Holding, Snapped
  <2> QED BY <2>0, <2>2, <2>3, DataLocal
<1>6. ASSUME NEW s \in Session, Fstat(s) PROVE DataInv'
  <2>0. Step(s) \/ Die(s)
    BY <1>6 DEF Step, Transfer, Store
  <2>1. pc[s] = "stat" /\ pc'[s] = "lock"
    BY <1>6 DEF Fstat, Goto, TypeOK
  <2>2. data' = data
    BY <1>6 DEF Fstat, fsVars
  <2>3. pos'[s] = pos[s]
    BY <1>6 DEF Fstat, sessVars
  <2>4. DataOf(s)'
    BY <1>0, <2>1, <2>3 DEF DataOf, Early, Holding, Snapped
  <2> QED BY <2>0, <2>2, <2>4, DataLocal
<1>7. ASSUME NEW s \in Session, LockGranted(s) PROVE DataInv'
  <2>0. Step(s) \/ Die(s)
    BY <1>7 DEF Step, Transfer, Store
  <2>1. pc[s] = "lock" /\ pc'[s] = "position"
    BY <1>7 DEF LockGranted, Goto, TypeOK
  <2>2. data' = data
    BY <1>7 DEF LockGranted, fsVars
  <2>3. pos'[s] = pos[s]
    BY <1>7 DEF LockGranted, sessVars
  <2>4. DataOf(s)'
    BY <1>0, <2>1, <2>3 DEF DataOf, Early, Holding, Snapped
  <2> QED BY <2>0, <2>2, <2>4, DataLocal
<1>8. ASSUME NEW s \in Session, LockRefused(s) PROVE DataInv'
  <2>0. Step(s) \/ Die(s)
    BY <1>8 DEF Step, Transfer, Store
  <2>1. pc[s] = "lock" /\ pc'[s] = "cleanup"
    BY <1>8 DEF LockRefused, Goto, TypeOK
  <2>2. data' = data
    BY <1>8 DEF LockRefused, fsVars
  <2>3. DataOf(s)'
    BY <2>1 DEF DataOf, Early, Holding, Snapped
  <2> QED BY <2>0, <2>2, <2>3, DataLocal
<1>9. ASSUME NEW s \in Session, Truncate(s) PROVE DataInv'
  <2>0. Step(s) \/ Die(s)
    BY <1>9 DEF Step, Transfer, Store
  <2>1. pc[s] = "position" /\ pc'[s] = "connect" /\ fd[s] \in Inode
    BY <1>9 DEF Truncate, Goto, TypeOK, FdInv, HasFile, Locked
  <2>2. /\ pos'[s] = pos[s] /\ offset'[s] = offset[s]
        /\ fd'[s] = fd[s] /\ snap'[s] = snap[s]
    BY <1>9 DEF Truncate, sessVars
  <2>3. pos[s] = 0
    BY <1>0, <2>1 DEF DataOf, Early
  <2>4. s \notin Exclusive => data'[fd[s]] = Chunks(s, 0)
    <3>1. Chunks(s, 0) = <<>>
      BY SMT DEF Chunks
    <3> QED BY <1>9, <2>1, <3>1 DEF Truncate, TypeOK
  <2>5. \A i \in Inode : i # fd[s] => data'[i] = data[i]
    BY <1>9 DEF Truncate, TypeOK
  <2>6. DataOf(s)'
    BY <2>1, <2>2, <2>3, <2>4 DEF DataOf, Early, Holding, Snapped
  <2> QED BY <2>0, <2>1, <2>5, <2>6, DataOwner
<1>10. ASSUME NEW s \in Session, Seek(s) PROVE DataInv'
  <2>0. Step(s) \/ Die(s)
    BY <1>10 DEF Step, Transfer, Store
  <2>1. pc[s] = "position" /\ pc'[s] = "connect"
    BY <1>10 DEF Seek, Goto, TypeOK
  <2>2. data' = data
    BY <1>10 DEF Seek, fsVars
  <2>3. offset'[s] = offset[s] /\ offset[s] # 0
    BY <1>10 DEF Seek
  <2>4. DataOf(s)'
    BY <2>1, <2>3 DEF DataOf, Early, Holding, Snapped
  <2> QED BY <2>0, <2>2, <2>4, DataLocal
<1>11. ASSUME NEW s \in Session, OutOfBounds(s) PROVE DataInv'
  <2>0. Step(s) \/ Die(s)
    BY <1>11 DEF Step, Transfer, Store
  <2>1. pc[s] = "position" /\ pc'[s] = "cleanup"
    BY <1>11 DEF OutOfBounds, Goto, TypeOK
  <2>2. data' = data
    BY <1>11 DEF OutOfBounds, fsVars
  <2>3. DataOf(s)'
    BY <2>1 DEF DataOf, Early, Holding, Snapped
  <2> QED BY <2>0, <2>2, <2>3, DataLocal
<1>12. ASSUME NEW s \in Session, Connect(s) PROVE DataInv'
  <2>0. Step(s) \/ Die(s)
    BY <1>12 DEF Step, Transfer, Store
  <2>1. pc[s] = "connect" /\ pc'[s] = "recv"
    BY <1>12 DEF Connect, Goto, TypeOK
  <2>2. data' = data
    BY <1>12 DEF Connect, fsVars
  <2>3. /\ pos'[s] = pos[s] /\ offset'[s] = offset[s]
        /\ fd'[s] = fd[s] /\ snap'[s] = snap[s]
    BY <1>12 DEF Connect, sessVars
  <2>4. DataOf(s)'
    BY <1>0, <2>1, <2>2, <2>3 DEF DataOf, Early, Holding, Snapped
  <2> QED BY <2>0, <2>2, <2>4, DataLocal
<1>13. ASSUME NEW s \in Session, ConnectFails(s) PROVE DataInv'
  <2>0. Step(s) \/ Die(s)
    BY <1>13 DEF Step, Transfer, Store
  <2>1. pc[s] = "connect" /\ pc'[s] = "cleanup"
    BY <1>13 DEF ConnectFails, Goto, TypeOK
  <2>2. data' = data
    BY <1>13 DEF ConnectFails, fsVars
  <2>3. DataOf(s)'
    BY <2>1 DEF DataOf, Early, Holding, Snapped
  <2> QED BY <2>0, <2>2, <2>3, DataLocal
<1>14. ASSUME NEW s \in Session, Recv(s) PROVE DataInv'
  <2>0. Step(s) \/ Die(s)
    BY <1>14 DEF Step, Transfer, Store
  <2>1. pc[s] = "recv" /\ pc'[s] = "recv" /\ fd[s] \in Inode
    BY <1>14 DEF Recv, Goto, TypeOK, FdInv, HasFile, Locked
  <2>2. offset'[s] = offset[s] /\ fd'[s] = fd[s] /\ snap'[s] = snap[s]
    BY <1>14 DEF Recv
  <2>3. offset[s] = 0 /\ s \notin Exclusive
          => data'[fd[s]] = Chunks(s, pos'[s])
    <3> SUFFICES ASSUME offset[s] = 0, s \notin Exclusive
                 PROVE  data'[fd[s]] = Chunks(s, pos'[s])
      OBVIOUS
    <3>1. data[fd[s]] = Chunks(s, pos[s])
      BY <1>0, <2>1 DEF DataOf, Holding
    <3>2. pos'[s] = pos[s] + 1 /\ pos[s] \in Nat
      BY <1>14 DEF Recv, WritePos, TypeOK
    <3>3. data'[fd[s]] = WriteAt(data[fd[s]], pos[s], s)
      BY <1>14, <2>1 DEF Recv, WritePos, TypeOK
    <3> QED BY <3>1, <3>2, <3>3, WriteChunks
  <2>4. \A i \in Inode : i # fd[s] => data'[i] = data[i]
    BY <1>14 DEF Recv, TypeOK
  <2>5. DataOf(s)'
    BY <2>1, <2>2, <2>3 DEF DataOf, Early, Holding, Snapped
  <2> QED BY <2>0, <2>1, <2>4, <2>5, DataOwner
<1>15. ASSUME NEW s \in Session, RecvDone(s) PROVE DataInv'
  <2>0. Step(s) \/ Die(s)
    BY <1>15 DEF Step, Transfer, Store
  <2>1. pc[s] = "recv" /\ pc'[s] = "check"
    BY <1>15 DEF RecvDone, Goto, TypeOK
  <2>2. data' = data
    BY <1>15 DEF RecvDone, fsVars
  <2>3. /\ pos'[s] = pos[s] /\ offset'[s] = offset[s]
        /\ fd'[s] = fd[s] /\ snap'[s] = snap[s]
    BY <1>15 DEF RecvDone, sessVars
  <2>4. DataOf(s)'
    BY <1>0, <2>1, <2>2, <2>3 DEF DataOf, Early, Holding, Snapped
  <2> QED BY <2>0, <2>2, <2>4, DataLocal
<1>16. ASSUME NEW s \in Session, RecvFails(s) PROVE DataInv'
  <2>0. Step(s) \/ Die(s)
    BY <1>16 DEF Step, Transfer, Store
  <2>1. pc[s] = "recv" /\ pc'[s] = "cleanup"
    BY <1>16 DEF RecvFails, Goto, TypeOK
  <2>2. data' = data
    BY <1>16 DEF RecvFails, fsVars
  <2>3. DataOf(s)'
    BY <2>1 DEF DataOf, Early, Holding, Snapped
  <2> QED BY <2>0, <2>2, <2>3, DataLocal
<1>17. ASSUME NEW s \in Session, CheckSpool(s) PROVE DataInv'
  <2>0. Step(s) \/ Die(s)
    BY <1>17 DEF Step, Transfer, Store
  <2>1. pc[s] = "check" /\ pc'[s] \in {"read", "purge"}
    BY <1>17 DEF CheckSpool, Goto, TypeOK
  <2>2. data' = data
    BY <1>17 DEF CheckSpool, fsVars
  <2>3. /\ pos'[s] = pos[s] /\ offset'[s] = offset[s]
        /\ fd'[s] = fd[s] /\ snap'[s] = snap[s]
    BY <1>17 DEF CheckSpool, sessVars
  <2>4. DataOf(s)'
    BY <1>0, <2>1, <2>2, <2>3 DEF DataOf, Early, Holding, Snapped
  <2> QED BY <2>0, <2>2, <2>4, DataLocal
<1>18. ASSUME NEW s \in Session, ReadSpool(s) PROVE DataInv'
  <2>0. Step(s) \/ Die(s)
    BY <1>18 DEF Step, Transfer, Store
  <2>1. pc[s] = "read" /\ pc'[s] = "post" /\ data' = data /\ fd[s] \in Inode
    BY <1>18 DEF ReadSpool, Goto, TypeOK, fsVars, FdInv, HasFile, Locked
  <2>2. pos'[s] = pos[s] /\ offset'[s] = offset[s] /\ fd'[s] = fd[s]
    BY <1>18 DEF ReadSpool
  <2>3. snap'[s] = IF path = None THEN NoSnap
                   ELSE [ino |-> path, data |-> data[path]]
    BY <1>18 DEF ReadSpool, TypeOK
  <2>4. snap'[s].ino = fd[s] => snap'[s].data = data[fd[s]]
    <3>1. CASE path = None
      <4>0. snap'[s] = NoSnap
        BY <2>3, <3>1
      <4>1. snap'[s].ino = None
        BY SMT, <4>0 DEF NoSnap
      <4> QED BY <2>1, <4>1, UploadAssumption
    <3>2. CASE path # None
      <4>1. snap'[s].ino = path /\ snap'[s].data = data[path]
        BY SMT, <2>3, <3>2
      <4> QED BY <4>1
    <3> QED BY <3>1, <3>2
  <2>5. DataOf(s)'
    BY <1>0, <2>1, <2>2, <2>4 DEF DataOf, Early, Holding, Snapped
  <2> QED BY <2>0, <2>1, <2>5, DataLocal
<1>19. ASSUME NEW s \in Session, Post(s) PROVE DataInv'
  <2>0. Step(s) \/ Die(s)
    BY <1>19 DEF Step, Transfer, Store
  <2>1. pc[s] = "post" /\ pc'[s] = "respond"
    BY <1>19 DEF Post, Goto, TypeOK
  <2>2. data' = data
    BY <1>19 DEF Post, fsVars
  <2>3. /\ pos'[s] = pos[s] /\ offset'[s] = offset[s]
        /\ fd'[s] = fd[s] /\ snap'[s] = snap[s]
    BY <1>19 DEF Post, sessVars
  <2>4. DataOf(s)'
    BY <1>0, <2>1, <2>2, <2>3 DEF DataOf, Early, Holding, Snapped
  <2> QED BY <2>0, <2>2, <2>4, DataLocal
<1>20. ASSUME NEW s \in Session, PostFails(s) PROVE DataInv'
  <2>0. Step(s) \/ Die(s)
    BY <1>20 DEF Step, Transfer, Store
  <2>1. pc[s] = "post" /\ pc'[s] = "purge"
    BY <1>20 DEF PostFails, Goto, TypeOK
  <2>2. data' = data
    BY <1>20 DEF PostFails, fsVars
  <2>3. /\ pos'[s] = pos[s] /\ offset'[s] = offset[s]
        /\ fd'[s] = fd[s] /\ snap'[s] = snap[s]
    BY <1>20 DEF PostFails, sessVars
  <2>4. DataOf(s)'
    BY <1>0, <2>1, <2>2, <2>3 DEF DataOf, Early, Holding, Snapped
  <2> QED BY <2>0, <2>2, <2>4, DataLocal
<1>21. ASSUME NEW s \in Session, PurgeRetry(s) PROVE DataInv'
  <2>0. Step(s) \/ Die(s)
    BY <1>21 DEF Step, Transfer, Store
  <2>1. pc[s] = "purge" /\ pc'[s] = "check"
    BY <1>21 DEF PurgeRetry, Goto, TypeOK
  <2>2. data' = data
    BY <1>21 DEF PurgeRetry, fsVars
  <2>3. /\ pos'[s] = pos[s] /\ offset'[s] = offset[s]
        /\ fd'[s] = fd[s] /\ snap'[s] = snap[s]
    BY <1>21 DEF PurgeRetry, sessVars
  <2>4. DataOf(s)'
    BY <1>0, <2>1, <2>2, <2>3 DEF DataOf, Early, Holding, Snapped
  <2> QED BY <2>0, <2>2, <2>4, DataLocal
<1>22. ASSUME NEW s \in Session, PurgeGiveUp(s) PROVE DataInv'
  <2>0. Step(s) \/ Die(s)
    BY <1>22 DEF Step, Transfer, Store
  <2>1. pc[s] = "purge" /\ pc'[s] = "cleanup"
    BY <1>22 DEF PurgeGiveUp, Goto, TypeOK
  <2>2. data' = data
    BY <1>22 DEF PurgeGiveUp, fsVars
  <2>3. DataOf(s)'
    BY <2>1 DEF DataOf, Early, Holding, Snapped
  <2> QED BY <2>0, <2>2, <2>3, DataLocal
<1>23. ASSUME NEW s \in Session, Respond(s) PROVE DataInv'
  <2>0. Step(s) \/ Die(s)
    BY <1>23 DEF Step, Transfer, Store
  <2>1. pc[s] = "respond" /\ pc'[s] = "unlink"
    BY <1>23 DEF Respond, Goto, TypeOK
  <2>2. data' = data
    BY <1>23 DEF Respond, fsVars
  <2>3. /\ pos'[s] = pos[s] /\ offset'[s] = offset[s]
        /\ fd'[s] = fd[s] /\ snap'[s] = snap[s]
    BY <1>23 DEF Respond, sessVars
  <2>4. DataOf(s)'
    BY <1>0, <2>1, <2>2, <2>3 DEF DataOf, Early, Holding, Snapped
  <2> QED BY <2>0, <2>2, <2>4, DataLocal
<1>24. ASSUME NEW s \in Session, UnlinkSpool(s) PROVE DataInv'
  <2>0. Step(s) \/ Die(s)
    BY <1>24 DEF Step, Transfer, Store
  <2>1. pc[s] = "unlink" /\ pc'[s] = "cleanup"
    BY <1>24 DEF UnlinkSpool, Goto, TypeOK
  <2>2. data' = data
    BY <1>24 DEF UnlinkSpool, fsVars
  <2>3. DataOf(s)'
    BY <2>1 DEF DataOf, Early, Holding, Snapped
  <2> QED BY <2>0, <2>2, <2>3, DataLocal
<1>25. ASSUME NEW s \in Session, Cleanup(s) PROVE DataInv'
  <2>0. Step(s) \/ Die(s)
    BY <1>25 DEF Step, Transfer, Store
  <2>1. pc[s] = "cleanup" /\ pc'[s] = "close"
    BY <1>25 DEF Cleanup, Goto, TypeOK
  <2>2. data' = data
    BY <1>25 DEF Cleanup, fsVars
  <2>3. DataOf(s)'
    BY <2>1 DEF DataOf, Early, Holding, Snapped
  <2> QED BY <2>0, <2>2, <2>3, DataLocal
<1>26. ASSUME NEW s \in Session, Close(s) PROVE DataInv'
  <2>0. Step(s) \/ Die(s)
    BY <1>26 DEF Step, Transfer, Store
  <2>1. pc[s] = "close" /\ pc'[s] = "done"
    BY <1>26 DEF Close, Goto, TypeOK
  <2>2. data' = data
    BY <1>26 DEF Close, fsVars
  <2>3. DataOf(s)'
    BY <2>1 DEF DataOf, Early, Holding, Snapped
  <2> QED BY <2>0, <2>2, <2>3, DataLocal
<1>27. ASSUME NEW s \in Session, Die(s) PROVE DataInv'
  <2>0. Step(s) \/ Die(s)
    BY <1>27 DEF Step, Transfer, Store
  <2>1. pc'[s] = "dead"
    BY <1>27 DEF Die, Goto, TypeOK
  <2>2. data' = data
    BY <1>27 DEF Die, fsVars
  <2>3. DataOf(s)'
    BY <2>1 DEF DataOf, Early, Holding, Snapped
  <2> QED BY <2>0, <2>2, <2>3, DataLocal
<1>28. CASE UNCHANGED vars
  <2>1. \A s \in Session : SameView(s) /\ data' = data
    BY <1>28 DEF vars, sessVars, fsVars, SameView
  <2> QED BY <1>0, <2>1, DataKeep DEF DataInv
<1> QED
  BY <1>1, <1>2, <1>3, <1>4, <1>5, <1>6, <1>7, <1>8, <1>9, <1>10, <1>11,
     <1>12, <1>13, <1>14, <1>15, <1>16, <1>17, <1>18, <1>19, <1>20, <1>21,
     <1>22, <1>23, <1>24, <1>25, <1>26, <1>27, <1>28
  DEF Next, Step, Transfer, Store

-----------------------------------------------------------------------------
(***************************************************************************)
(* The theorems.                                                            *)
(***************************************************************************)
\* The initial state satisfies the inductive invariant.
LEMMA InvInit == Init => IInv
<1> SUFFICES ASSUME Init PROVE IInv
  OBVIOUS
<1>1. TypeOK
  BY TypeInit
<1>2. FdInv /\ SuccessInv /\ GoneInv /\ SpoolHasOwner
  BY UploadAssumption DEF Init, FdInv, SuccessInv, GoneInv, SpoolHasOwner,
                          HasFile, Locked, Refused
<1>3. LockInv
  BY UploadAssumption DEF Init, LockInv, Locked
<1>4. DataInv
  BY DEF Init, DataInv, DataOf, Early, Holding, Snapped
<1> QED
  BY <1>1, <1>2, <1>3, <1>4 DEF IInv

\* Every step keeps the inductive invariant.
LEMMA InvNext == IInv /\ [Next]_vars => IInv'
BY TypeNext, FdNext, SuccessNext, LockNext, GoneNext, SpoolNext, DataNext
   DEF IInv

\* The inductive invariant holds in every state of every behaviour.
THEOREM Invariance == Spec => []IInv
BY InvInit, InvNext, PTL DEF Spec

\* Type correctness of the handler's and the shared state.
THEOREM TypeCorrect == Spec => []TypeOK
<1>1. IInv => TypeOK
  BY DEF IInv
<1> QED
  BY <1>1, Invariance, PTL

\* No spool file is left behind by a session that did not die: whatever the
\* interleaving of opens, refusals, failures and unlinks by name, a file that
\* still has its name has an owner that will remove it.
THEOREM SpoolSafe == Spec => []SpoolHasOwner
<1>1. IInv => SpoolHasOwner
  BY DEF IInv
<1> QED
  BY <1>1, Invariance, PTL

\* A 226 for an upload whose own file was read means that COS accepted exactly
\* the chunks that client sent.
THEOREM StoredSafe == Spec => []StoredIsSent
<1>1. IInv => StoredIsSent
  BY DEF IInv, DataInv, DataOf, Snapped, StoredIsSent
<1> QED
  BY <1>1, Invariance, PTL

\* The contents of a locked file change by steps of the lock's owner only.
THEOREM LockSafe == Spec => LockProtectsData
<1>1. IInv /\ [Next]_vars =>
        [\A i \in Inode, s \in Session :
           lock[i] = s /\ data'[i] # data[i] => Truncate(s) \/ Recv(s)]_vars
  <2> SUFFICES ASSUME IInv, Next,
                      NEW i \in Inode, NEW s \in Session,
                      lock[i] = s, data'[i] # data[i]
               PROVE  Truncate(s) \/ Recv(s)
    BY DEF vars
  <2>1. PICK t \in Session : Step(t) \/ Die(t)
    BY DEF Next
  <2> USE DEF IInv, TypeOK, fsVars, Goto
  <2>2. ASSUME OpenNew(t) PROVE FALSE
    BY SMT, <2>2, UploadAssumption DEF OpenNew, Free, LockInv
  <2>3. ASSUME Truncate(t) \/ Recv(t) PROVE t = s
    <3>1. pc[t] \in Locked /\ ~Refused(t) /\ i = fd[t]
      BY <2>3 DEF Truncate, Recv, SuccessInv, Locked
    <3> QED
      BY <3>1 DEF LockInv
  <2>4. data' = data \/ OpenNew(t) \/ Truncate(t) \/ Recv(t)
    BY <2>1 DEF Step, Transfer, Store, Begin, Reject, OpenExisting, OpenFails,
                Fstat, LockGranted, LockRefused, Seek, OutOfBounds, Connect,
                ConnectFails, RecvDone, RecvFails, CheckSpool, ReadSpool, Post,
                PostFails, PurgeRetry, PurgeGiveUp, Respond, UnlinkSpool,
                Cleanup, Close, Die
  <2> QED
    BY <2>2, <2>3, <2>4
<1> QED
  BY <1>1, Invariance, PTL DEF Spec, LockProtectsData

\* A name is removed only by a session that owns the lock of its own file; in
\* particular never by a session that was told the file is busy.
THEOREM UnlinkSafe == Spec => OnlyOwnersUnlink
<1>1. IInv /\ [Next]_vars =>
        [path' # path /\ path' = None =>
           \E s \in Session : /\ pc[s] \in {"unlink", "cleanup"}
                              /\ pc'[s] # pc[s]
                              /\ lock[fd[s]] = s]_vars
  <2> SUFFICES ASSUME IInv, Next, path' # path, path' = None
               PROVE  \E s \in Session : /\ pc[s] \in {"unlink", "cleanup"}
                                         /\ pc'[s] # pc[s]
                                         /\ lock[fd[s]] = s
    BY DEF vars
  <2>1. PICK t \in Session : Step(t) \/ Die(t)
    BY DEF Next
  <2> USE DEF IInv, TypeOK
  <2>2. ~OpenNew(t)
    BY UploadAssumption DEF OpenNew, Free
  <2>3. path' = path \/ OpenNew(t) \/ UnlinkSpool(t) \/ Cleanup(t)
    BY <2>1 DEF Step, Transfer, Store, Begin, Reject, OpenExisting, OpenFails,
                Fstat, LockGranted, LockRefused, Truncate, Seek, OutOfBounds,
                Connect, ConnectFails, Recv, RecvDone, RecvFails, CheckSpool,
                ReadSpool, Post, PostFails, PurgeRetry, PurgeGiveUp, Respond,
                Close, Die, fsVars
  <2>4. /\ pc[t] \in {"unlink", "cleanup"} /\ pc'[t] # pc[t]
        /\ pc[t] \in Locked /\ ~Refused(t)
    BY <2>2, <2>3 DEF UnlinkSpool, Cleanup, Goto, SuccessInv, Locked
  <2> QED
    BY <2>4 DEF LockInv
<1> QED
  BY <1>1, Invariance, PTL DEF Spec, OnlyOwnersUnlink

-----------------------------------------------------------------------------
(* Every session creates its spool file exclusively: no two of them are    *)
(* ever under way, and what is confirmed is what was sent.                 *)

\* Has its file open and will still remove the name.
Standing(s) ==
  \/ pc[s] \in (HasFile \ {"cleanup", "close"})
  \/ pc[s] = "cleanup" /\ ~success[s]

\* No inode is open twice, and the path names the file of every session that
\* will still remove it; a session that goes on to unlink has success set.
AloneInv ==
  /\ \A s, t \in Session : fd[s] = fd[t] /\ fd[s] # None => s = t
  /\ \A s \in Session : Standing(s) => path = fd[s]
  /\ \A s \in Session : pc[s] \in {"respond", "unlink"} => success[s]

\* The file was new and holds what the session wrote; fstat saw it empty; the
\* SDK read this file.
OwnFile(s) ==
  /\ pc[s] \in {"stat", "lock", "position"} => pos[s] = 0
  /\ pc[s] \in {"stat", "lock", "position"} \cup Holding => data[fd[s]] = Chunks(s, pos[s])
  /\ pc[s] \in {"lock", "position"} => fileLen[s] = 0
  /\ pc[s] \in Snapped => snap[s].ino = fd[s] /\ snap[s].data = Chunks(s, pos[s])

OwnInv == \A s \in Session : OwnFile(s)

\* A step never opens an inode twice, and never unlinks the file of another
\* session.
LEMMA AloneNext ==
  ASSUME Exclusive = Session, TypeOK, FdInv, AloneInv, [Next]_vars
  PROVE  AloneInv'
<1>0. /\ pc \in [Session -> PC] /\ fd \in [Session -> Inode \cup {None}]
      /\ success \in [Session -> BOOLEAN] /\ path \in Inode \cup {None}
  BY DEF TypeOK
<1> USE <1>0, UploadAssumption DEF FdInv, AloneInv, Standing, Locked, HasFile,
        Goto, sessVars, fsVars, cosVars
<1>1. ASSUME NEW s \in Session, Begin(s) PROVE AloneInv'
  BY <1>1 DEF Begin
<1>2. ASSUME NEW s \in Session, Reject(s) PROVE AloneInv'
  BY <1>2 DEF Reject
<1>3. ASSUME NEW s \in Session, OpenExisting(s) PROVE AloneInv'
  BY <1>3 DEF OpenExisting
<1>4. ASSUME NEW s \in Session, OpenNew(s) PROVE AloneInv'
  BY SMT, <1>4 DEF OpenNew, Free
<1>5. ASSUME NEW s \in Session, OpenFails(s) PROVE AloneInv'
  BY <1>5 DEF OpenFails
<1>6. ASSUME NEW s \in Session, Fstat(s) PROVE AloneInv'
  BY <1>6 DEF Fstat
<1>7. ASSUME NEW s \in Session, LockGranted(s) PROVE AloneInv'
  BY <1>7 DEF LockGranted
<1>8. ASSUME NEW s \in Session, LockRefused(s) PROVE AloneInv'
  BY <1>8 DEF LockRefused
<1>9. ASSUME NEW s \in Session, Truncate(s) PROVE AloneInv'
  BY <1>9 DEF Truncate
<1>10. ASSUME NEW s \in Session, Seek(s) PROVE AloneInv'
  BY <1>10 DEF Seek
<1>11. ASSUME NEW s \in Session, OutOfBounds(s) PROVE AloneInv'
  BY <1>11 DEF OutOfBounds
<1>12. ASSUME NEW s \in Session, Connect(s) PROVE AloneInv'
  BY <1>12 DEF Connect
<1>13. ASSUME NEW s \in Session, ConnectFails(s) PROVE AloneInv'
  BY <1>13 DEF ConnectFails
<1>14. ASSUME NEW s \in Session, Recv(s) PROVE AloneInv'
  BY <1>14 DEF Recv, WritePos
<1>15. ASSUME NEW s \in Session, RecvDone(s) PROVE AloneInv'
  BY <1>15 DEF RecvDone
<1>16. ASSUME NEW s \in Session, RecvFails(s) PROVE AloneInv'
  BY <1>16 DEF RecvFails
<1>17. ASSUME NEW s \in Session, CheckSpool(s) PROVE AloneInv'
  BY SMT, <1>17 DEF CheckSpool
<1>18. ASSUME NEW s \in Session, ReadSpool(s) PROVE AloneInv'
  BY <1>18 DEF ReadSpool, NoSnap
<1>19. ASSUME NEW s \in Session, Post(s) PROVE AloneInv'
  BY <1>19 DEF Post
<1>20. ASSUME NEW s \in Session, PostFails(s) PROVE AloneInv'
  BY <1>20 DEF PostFails
<1>21. ASSUME NEW s \in Session, PurgeRetry(s) PROVE AloneInv'
  BY <1>21 DEF PurgeRetry
<1>22. ASSUME NEW s \in Session, PurgeGiveUp(s) PROVE AloneInv'
  BY <1>22 DEF PurgeGiveUp
<1>23. ASSUME NEW s \in Session, Respond(s) PROVE AloneInv'
  BY <1>23 DEF Respond
<1>24. ASSUME NEW s \in Session, UnlinkSpool(s) PROVE AloneInv'
  BY <1>24 DEF UnlinkSpool
<1>25. ASSUME NEW s \in Session, Cleanup(s) PROVE AloneInv'
  BY <1>25 DEF Cleanup
<1>26. ASSUME NEW s \in Session, Close(s) PROVE AloneInv'
  BY <1>26 DEF Close, Leave
<1>27. ASSUME NEW s \in Session, Die(s) PROVE AloneInv'
  BY <1>27 DEF Die, Leave
<1>28. CASE UNCHANGED vars
  BY <1>28 DEF vars
<1> QED
  BY <1>1, <1>2, <1>3, <1>4, <1>5, <1>6, <1>7, <1>8, <1>9, <1>10,
     <1>11, <1>12, <1>13, <1>14, <1>15, <1>16, <1>17, <1>18, <1>19,
     <1>20, <1>21, <1>22, <1>23, <1>24, <1>25, <1>26, <1>27, <1>28
     DEF Next, Step, Transfer, Store

\* A session's own file stays its own.
LEMMA OwnNext ==
  ASSUME Exclusive = Session, TypeOK, FdInv, DataInv, AloneInv, OwnInv, [Next]_vars
  PROVE  OwnInv'
<1>0. /\ pc \in [Session -> PC] /\ fd \in [Session -> Inode \cup {None}]
      /\ pos \in [Session -> Nat] /\ offset \in [Session -> Nat] /\ fileLen \in [Session -> Nat]
      /\ snap \in [Session -> [ino : Inode \cup {None}, data : Content]]
      /\ data \in [Inode -> Content]
  BY DEF TypeOK
<1> USE <1>0, UploadAssumption DEF FdInv, OwnInv, OwnFile, Holding, Snapped, Locked, HasFile,
        Goto, sessVars, fsVars, cosVars
<1>1. ASSUME NEW s \in Session, Begin(s) PROVE OwnInv'
  BY <1>1 DEF Begin
<1>2. ASSUME NEW s \in Session, Reject(s) PROVE OwnInv'
  BY <1>2 DEF Reject
<1>3. ASSUME NEW s \in Session, OpenExisting(s) PROVE OwnInv'
  BY <1>3 DEF OpenExisting
<1>4. ASSUME NEW s \in Session, OpenNew(s) PROVE OwnInv'
  <2>1. Chunks(s, 0) = <<>>
    BY SMT DEF Chunks
  <2>2. PICK i \in Free : /\ fd' = [fd EXCEPT ![s] = i]
                        /\ data' = [data EXCEPT ![i] = <<>>]
    BY <1>4 DEF OpenNew
  <2>3. i \in Inode /\ \A t \in Session : fd[t] # i
    BY <2>2 DEF Free
  <2>4. pos[s] = 0
    BY <1>4 DEF OpenNew, DataInv, DataOf, Early
  <2>5. OwnFile(s)'
    BY <1>4, <2>1, <2>2, <2>3, <2>4 DEF OpenNew
  <2>6. ASSUME NEW t \in Session, t # s PROVE OwnFile(t)'
    BY <1>4, <2>2, <2>3, <2>6 DEF OpenNew
  <2> QED
    BY <2>5, <2>6
<1>5. ASSUME NEW s \in Session, OpenFails(s) PROVE OwnInv'
  BY <1>5 DEF OpenFails
<1>6. ASSUME NEW s \in Session, Fstat(s) PROVE OwnInv'
  <2>1. Len(data[fd[s]]) = 0
    BY SMT, <1>6, ChunksType DEF Fstat
  <2> QED
    BY <1>6, <2>1 DEF Fstat
<1>7. ASSUME NEW s \in Session, LockGranted(s) PROVE OwnInv'
  BY <1>7 DEF LockGranted
<1>8. ASSUME NEW s \in Session, LockRefused(s) PROVE OwnInv'
  BY <1>8 DEF LockRefused
<1>9. ASSUME NEW s \in Session, Truncate(s) PROVE OwnInv'
  BY <1>9 DEF Truncate
<1>10. ASSUME NEW s \in Session, Seek(s) PROVE OwnInv'
  BY SMT, <1>10 DEF Seek
<1>11. ASSUME NEW s \in Session, OutOfBounds(s) PROVE OwnInv'
  BY <1>11 DEF OutOfBounds
<1>12. ASSUME NEW s \in Session, Connect(s) PROVE OwnInv'
  BY <1>12 DEF Connect
<1>13. ASSUME NEW s \in Session, ConnectFails(s) PROVE OwnInv'
  BY <1>13 DEF ConnectFails
<1>14. ASSUME NEW s \in Session, Recv(s) PROVE OwnInv'
  <2>1. data[fd[s]] = Chunks(s, pos[s]) /\ Len(data[fd[s]]) = pos[s]
    BY SMT, <1>14, ChunksType DEF Recv
  <2>2. WriteAt(data[fd[s]], WritePos(s), s) = Chunks(s, pos[s] + 1)
    BY SMT, <2>1, WriteChunks DEF WritePos
  <2>3. WritePos(s) = pos[s]
    BY <2>1 DEF WritePos
  <2>4. \A t \in Session : t # s /\ fd[t] \in Inode => fd[t] # fd[s]
    BY SMT, UploadAssumption DEF AloneInv
  <2> QED
    BY SMTT(30), <1>14, <2>2, <2>3, <2>4 DEF Recv
<1>15. ASSUME NEW s \in Session, RecvDone(s) PROVE OwnInv'
  BY <1>15 DEF RecvDone
<1>16. ASSUME NEW s \in Session, RecvFails(s) PROVE OwnInv'
  BY <1>16 DEF RecvFails
<1>17. ASSUME NEW s \in Session, CheckSpool(s) PROVE OwnInv'
  BY SMT, <1>17 DEF CheckSpool
<1>18. ASSUME NEW s \in Session, ReadSpool(s) PROVE OwnInv'
  <2>1. path = fd[s]
    BY <1>18 DEF ReadSpool, AloneInv, Standing
  <2> QED
    BY <1>18, <2>1 DEF ReadSpool
<1>19. ASSUME NEW s \in Session, Post(s) PROVE OwnInv'
  BY <1>19 DEF Post
<1>20. ASSUME NEW s \in Session, PostFails(s) PROVE OwnInv'
  BY <1>20 DEF PostFails
<1>21. ASSUME NEW s \in Session, PurgeRetry(s) PROVE OwnInv'
  BY <1>21 DEF PurgeRetry
<1>22. ASSUME NEW s \in Session, PurgeGiveUp(s) PROVE OwnInv'
  BY <1>22 DEF PurgeGiveUp
<1>23. ASSUME NEW s \in Session, Respond(s) PROVE OwnInv'
  BY <1>23 DEF Respond
<1>24. ASSUME NEW s \in Session, UnlinkSpool(s) PROVE OwnInv'
  BY <1>24 DEF UnlinkSpool
<1>25. ASSUME NEW s \in Session, Cleanup(s) PROVE OwnInv'
  BY <1>25 DEF Cleanup
<1>26. ASSUME NEW s \in Session, Close(s) PROVE OwnInv'
  BY <1>26 DEF Close, Leave
<1>27. ASSUME NEW s \in Session, Die(s) PROVE OwnInv'
  BY <1>27 DEF Die, Leave
<1>28. CASE UNCHANGED vars
  BY <1>28 DEF vars
<1> QED
  BY <1>1, <1>2, <1>3, <1>4, <1>5, <1>6, <1>7, <1>8, <1>9, <1>10,
     <1>11, <1>12, <1>13, <1>14, <1>15, <1>16, <1>17, <1>18, <1>19,
     <1>20, <1>21, <1>22, <1>23, <1>24, <1>25, <1>26, <1>27, <1>28
     DEF Next, Step, Transfer, Store

\* All of it holds from the start.
LEMMA ExclusiveInit == Init => AloneInv /\ OwnInv
BY DEF Init, AloneInv, Standing, OwnInv, OwnFile, Holding, Snapped, HasFile, Locked

\* The invariant of exclusive uploads.
THEOREM ExclusiveInvariance == Exclusive = Session /\ Spec => [](IInv /\ AloneInv /\ OwnInv)
<1> SUFFICES ASSUME Exclusive = Session PROVE Spec => [](IInv /\ AloneInv /\ OwnInv)
  OBVIOUS
<1>1. IInv /\ AloneInv /\ OwnInv /\ [Next]_vars => IInv' /\ AloneInv' /\ OwnInv'
  BY InvNext, AloneNext, OwnNext DEF IInv
<1> QED
  BY <1>1, InvInit, ExclusiveInit, PTL DEF Spec

\* With exclusive creation the lock does what the README promises of it: at
\* most one session is between its lock and its unlink.
THEOREM OneAtATime == Exclusive = Session /\ Spec => []OneUploader
<1>1. IInv /\ AloneInv => OneUploader
  BY SMT, UploadAssumption
  DEF IInv, TypeOK, FdInv, AloneInv, Standing, OneUploader, Uploading, HasFile, Locked
<1> QED
  BY <1>1, ExclusiveInvariance, PTL

\* With exclusive creation a 226 means that COS has what the client sent.
THEOREM ExclusiveSafe == Exclusive = Session /\ Spec => []ExclusiveStored
<1>1. OwnInv => ExclusiveStored
  BY UploadAssumption DEF OwnInv, OwnFile, Snapped, ExclusiveStored
<1> QED
  BY <1>1, ExclusiveInvariance, PTL
=============================================================================
