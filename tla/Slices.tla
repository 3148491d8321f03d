------------------------------- MODULE Slices -------------------------------
(***************************************************************************)
(* The SDK's transfers with a pool of threads: FileOp::FileUpload with its *)
(* slices, and FileOp::FileDownload with its ranges as cos_download_file   *)
(* calls it.  The calling thread fills buffers and posts tasks, the threads*)
(* of the pool take them, send requests and answer through the task        *)
(* object, and the calling thread waits for all of them.                   *)
(*                                                                         *)
(* A file is a number of blocks; data is where in the file it comes from   *)
(* and how long it is.  COS keeps the slices of an upload until Finish,    *)
(* which it refuses while one is missing.  Other sessions do not touch the *)
(* spool file (LockProtectsData of module Upload); they may replace or     *)
(* remove the object that is being downloaded.                             *)
(***************************************************************************)
EXTENDS Naturals, FiniteSets

CONSTANTS
  Lens,       \* bound: lengths of files and objects, in blocks
  SingleSize, \* SINGLE_FILE_SIZE: shorter files go in one request
  SliceSize,  \* slice_size that COS answers to Init
  RangeSize,  \* DEFAULT_DOWN_RANGE_SIZE
  BufSize,    \* the buffer of RETR
  Pool,       \* THREAD_POOL_SIZE_UPLOAD_SLICE
  Cores,      \* hardware_concurrency()
  MaxTasks,   \* bound: ranges of one download
  MaxFaults   \* bound: requests that go wrong

ASSUME SlicesAssumption ==
  /\ Lens \subseteq Nat
  /\ {SingleSize, SliceSize, RangeSize, BufSize, Pool, Cores, MaxTasks} \subseteq Nat \ {0}
  /\ BufSize <= RangeSize * MaxTasks /\ Pool <= MaxTasks
  /\ MaxFaults \in Nat

VARIABLES
  kind,     \* "up" or "down"
  valid,    \* isParaValid() of the request
  pc,       \* the calling thread
  len,      \* blocks of the local file, or of the object when RETR asked for its size
  offset,   \* offset
  index,    \* task_index, and then the number of tasks of the round
  pool,     \* pool_size, or the threads of a download
  task,     \* the task objects with their buffers
  taskResp, \* taskResp
  parts,    \* the slices COS has
  object,   \* the object at COS
  got,      \* what each range put into the download buffer
  total,    \* total_download_len
  trytime,  \* trytime of cos_download_file
  result,   \* what the caller gets
  faults,   \* requests that went wrong
  doubt,    \* an answer to a slice could not be read (history)
  changed   \* the object was changed by another session (history)

vars == <<kind, valid, pc, len, offset, index, pool, task, taskResp, parts, object, got, total, trytime,
          result, faults, doubt, changed>>

Slot == 0 .. MaxTasks - 1
Data == [from : Nat, len : Nat]
NoData == [from |-> 0, len |-> 0]
Fresh == [st |-> "idle", off |-> 0, buf |-> NoData, param |-> 0, loop |-> 0, resp |-> "none"]

\* The object: none, another one, the whole file, or something else; for a
\* download its version and its length.
Absent == [ver |-> "absent", len |-> 0]
Version(v, n) == [ver |-> v, len |-> n]

Init ==
  /\ kind \in {"up", "down"} /\ valid \in BOOLEAN
  /\ pc = "start" /\ offset = 0 /\ index = 0 /\ pool = 0
  /\ len \in Lens
  /\ task = [w \in Slot |-> Fresh] /\ taskResp = "none" /\ parts = {}
  /\ object \in IF kind = "up" THEN {Absent, Version("old", 1)} ELSE {Version("old", len)}
  /\ got = [w \in Slot |-> NoData] /\ total = 0 /\ trytime = 2
  /\ result = "none" /\ faults = 0 /\ doubt = FALSE /\ changed = FALSE

Min2(a, b) == IF a < b THEN a ELSE b
Answered == UNCHANGED faults
Fault == faults < MaxFaults /\ faults' = faults + 1
Commit == object' = Version("new", len)

\* The answer that FileUpload is left with has code 0, or has not, and then
\* the object is deleted.
Good == pc' = "done" /\ result' = "ok"
Bad == pc' = "purge" /\ UNCHANGED result

-----------------------------------------------------------------------------
(* Uploads.                                                                *)

download == <<got, total, trytime, changed>>
transfer == <<download, doubt>>

\* A request with an illegal path, slice size or file is not sent.
Invalid ==
  /\ pc = "start" /\ ~valid
  /\ IF kind = "up" THEN Bad ELSE pc' = "done" /\ result' = "failed"
  /\ UNCHANGED <<kind, valid, len, offset, index, pool, task, taskResp, parts, object, transfer, faults>>

\* FileUploadSingle: one request, whose answer may be lost.
Single ==
  /\ kind = "up" /\ pc = "start" /\ valid /\ len < SingleSize
  /\ \/ Answered /\ Commit /\ Good
     \/ Fault /\ (Commit \/ UNCHANGED object) /\ Bad
  /\ UNCHANGED <<kind, valid, len, offset, index, pool, task, taskResp, parts, transfer>>

\* FileUploadSliceInit, and what FileUploadSliceData takes from its answer:
\* COS has the file already, wants the slices one by one, or in parallel.
SliceInit ==
  /\ kind = "up" /\ pc = "start" /\ valid /\ len >= SingleSize
  /\ \/ Answered /\ Commit /\ Good /\ UNCHANGED <<pool, parts>>
     \/ /\ Answered /\ pool' \in {1, Pool} /\ pc' = "read"
        /\ UNCHANGED <<object, result, parts>>
     \/ Fault /\ Bad /\ UNCHANGED <<object, pool, parts>>
  /\ UNCHANGED <<kind, valid, len, offset, index, task, taskResp, transfer>>

\* Mutant: the offset of the next slice is not moved on.
ReadSliceStuck ==
  /\ pc = "read" /\ index < pool
  /\ LET n == Min2(SliceSize, len - offset)
     IN /\ n > 0 /\ index' = index + 1 /\ UNCHANGED offset
        /\ task' = [task EXCEPT ![index] = [@ EXCEPT !.st = "queued", !.off = offset,
                                            !.buf = [from |-> offset, len |-> n]]]
  /\ UNCHANGED <<kind, valid, pc, len, pool, taskResp, parts, object, transfer, result, faults>>

\* Mutant: all tasks share one buffer.
ReadSliceShared ==
  /\ pc = "read" /\ index < pool
  /\ LET n == Min2(SliceSize, len - offset)
         data == [from |-> offset, len |-> n]
     IN /\ n > 0 /\ index' = index + 1 /\ offset' = offset + n
        /\ task' = [w \in Slot |-> IF w = index
                     THEN [task[w] EXCEPT !.st = "queued", !.off = offset, !.buf = data]
                     ELSE [task[w] EXCEPT !.buf = data]]
  /\ UNCHANGED <<kind, valid, pc, len, pool, taskResp, parts, object, transfer, result, faults>>

\* One turn of the inner loop of FileUploadSliceData: a slice is read into the
\* buffer of the next task, and the task is posted.
ReadSlice ==
  /\ pc = "read" /\ index < pool
  /\ LET n == Min2(SliceSize, len - offset)
     IN /\ n > 0 /\ index' = index + 1 /\ offset' = offset + n
        /\ task' = [task EXCEPT ![index] = [@ EXCEPT !.st = "queued", !.off = offset,
                                            !.buf = [from |-> offset, len |-> n]]]
  /\ UNCHANGED <<kind, valid, pc, len, pool, taskResp, parts, object, transfer, result, faults>>
\* All tasks have work, or the file is read.
ReadOver ==
  /\ pc = "read" /\ (index = pool \/ offset = len)
  /\ pc' = "wait"
  /\ UNCHANGED <<kind, valid, len, offset, index, pool, task, taskResp, parts, object, transfer, result, faults>>

-----------------------------------------------------------------------------
(* The threads of the pool.                                                *)

Running == {w \in Slot : task[w].st = "running"}

\* A thread takes the oldest task and starts it: run(), and the parameters of
\* the request, which are made once.
Take(w) ==
  /\ task[w].st = "queued" /\ \A v \in Slot : task[v].st = "queued" => w <= v
  /\ Cardinality(Running) < pool
  /\ task' = [task EXCEPT ![w] = [@ EXCEPT !.st = "running", !.param = task[w].off, !.loop = 0, !.resp = "none"]]
  /\ UNCHANGED <<kind, valid, pc, len, offset, index, pool, taskResp, parts, object, transfer, result, faults>>

Slice(w) == [off |-> task[w].param, data |-> task[w].buf]

\* The task after an answer: done, to be repeated once, or failed.
Noted(t, resp) ==
  LET st == IF resp # "error" THEN "ok" ELSE IF t.loop < 1 THEN "running" ELSE "bad"
  IN [t EXCEPT !.resp = resp, !.loop = t.loop + 1, !.st = st]

\* One turn of uploadTask.  An answer that cannot be parsed has no code, and
\* asInt() makes 0 of that.
UploadTask(w) ==
  /\ kind = "up" /\ task[w].st = "running"
  /\ \E resp \in {"good", "error", "garbage"} :
       /\ IF resp = "good" THEN Answered ELSE Fault
       /\ doubt' = (doubt \/ resp = "garbage")
       /\ parts' = parts \cup {Slice(w)} \/ (resp # "good" /\ UNCHANGED parts)
       /\ task' = [task EXCEPT ![w] = Noted(task[w], resp)]
  /\ UNCHANGED <<kind, valid, pc, len, offset, index, pool, taskResp, object, download, result>>

\* FileDownloadTask::run: the part of the range that the object has now.
DownloadTask(w) ==
  /\ kind = "down" /\ task[w].st = "running"
  /\ LET a == task[w].param
         n == Min2(task[w].buf.len, object.len - a)
     IN \/ /\ Answered /\ a < object.len
           /\ got' = [got EXCEPT ![w] = [from |-> a, len |-> n]]
           /\ task' = [task EXCEPT ![w] = [@ EXCEPT !.st = "ok", !.resp = object.ver]]
        \/ /\ (a >= object.len /\ Answered) \/ Fault
           /\ got' = [got EXCEPT ![w] = NoData]
           /\ task' = [task EXCEPT ![w] = [@ EXCEPT !.st = "bad"]]
  /\ UNCHANGED <<kind, valid, pc, len, offset, index, pool, taskResp, parts, object, total, trytime, doubt, changed, result>>

Idle == \A w \in Slot : task[w].st \notin {"queued", "running"}
Used == {w \in Slot : w < index}
Failed == {w \in Used : task[w].st = "bad"}

\* wait_for_all, and the results of the round.  The answer that is kept is the
\* error of the first task that failed, or the last answer of the first round.
Collect ==
  /\ kind = "up" /\ pc = "wait" /\ Idle
  /\ taskResp' = IF Failed # {} THEN "error"
                 ELSE IF taskResp = "none" THEN task[index - 1].resp ELSE taskResp
  /\ index' = 0
  /\ pc' = IF Failed # {} \/ offset >= len THEN "finish" ELSE "read"
  /\ UNCHANGED <<kind, valid, len, offset, pool, task, parts, object, transfer, result, faults>>

\* COS puts the slices together; it has been told how long the file is.
Complete == \A p \in 0 .. len - 1 : \E s \in parts : s.off <= p /\ p < s.off + s.data.len
Assembled ==
  IF \A s \in parts : s.off = s.data.from THEN Version("new", len) ELSE Version("damaged", len)

\* FileUploadSliceFinish, unless the answer that was kept has no code 0.
SliceFinish ==
  /\ kind = "up" /\ pc = "finish"
  /\ \/ taskResp # "good" /\ Answered /\ UNCHANGED object /\ Bad
     \/ taskResp = "good" /\ Complete /\ Answered /\ object' = Assembled /\ Good
     \/ taskResp = "good" /\ ~Complete /\ Answered /\ UNCHANGED object /\ Bad
     \/ /\ taskResp = "good" /\ Fault /\ Bad
        /\ UNCHANGED object \/ (Complete /\ object' = Assembled)
  /\ UNCHANGED <<kind, valid, len, offset, index, pool, task, taskResp, parts, transfer>>

\* The end of FileUpload after a failure: the object is deleted.
Purge ==
  /\ kind = "up" /\ pc = "purge"
  /\ (Answered /\ object' = Absent) \/ (Fault /\ object' \in {object, Absent})
  /\ pc' = "done" /\ result' = "failed"
  /\ UNCHANGED <<kind, valid, len, offset, index, pool, task, taskResp, parts, transfer>>

-----------------------------------------------------------------------------
(* Downloads.                                                              *)

\* cos_download_file asks for what the buffer takes of the file.
Wanted == Min2(BufSize, len)

\* Mutant: the next range starts with the last block of this one.
SplitOverlapping ==
  /\ kind = "down" /\ pc = "start" /\ valid /\ Wanted > 0
  /\ LET next == offset + RangeSize
         end == Min2(next, Wanted)
     IN /\ offset' = IF next >= Wanted THEN Wanted ELSE next - 1
        /\ task' = [task EXCEPT ![index] = [Fresh EXCEPT !.st = "queued", !.off = offset,
                                            !.buf = [from |-> offset, len |-> end - offset]]]
        /\ index' = index + 1
        /\ pc' = IF next >= Wanted THEN "wait" ELSE "start"
  /\ pool' = Cores
  /\ UNCHANGED <<kind, valid, len, taskResp, parts, object, transfer, result, faults>>

\* One turn of the loop of FileDownload: a task for the next range is posted.
Split ==
  /\ kind = "down" /\ pc = "start" /\ valid /\ Wanted > 0
  /\ LET next == offset + RangeSize
         end == Min2(next, Wanted)
     IN /\ offset' = end
        /\ task' = [task EXCEPT ![index] = [Fresh EXCEPT !.st = "queued", !.off = offset,
                                            !.buf = [from |-> offset, len |-> end - offset]]]
        /\ index' = index + 1
        /\ pc' = IF end = Wanted THEN "wait" ELSE "start"
  /\ pool' = Cores
  /\ UNCHANGED <<kind, valid, len, taskResp, parts, object, transfer, result, faults>>

\* RETR of an empty object asks for nothing.
NothingToFetch ==
  /\ kind = "down" /\ pc = "start" /\ valid /\ Wanted = 0
  /\ pc' = "done" /\ result' = "ok"
  /\ UNCHANGED <<kind, valid, len, offset, index, pool, task, taskResp, parts, object, transfer, faults>>

Sum3(f, S) == LET sum[w \in 0 .. MaxTasks] == IF w = 0 THEN 0
                                             ELSE sum[w - 1] + (IF w - 1 \in S THEN f[w - 1].len ELSE 0)
              IN sum[MaxTasks]

\* The tasks are over: their lengths are added up, or the whole is tried again.
Fetch ==
  /\ kind = "down" /\ pc = "wait" /\ Idle
  /\ \/ /\ Failed = {}
        /\ total' = Sum3(got, Used) /\ pc' = "done" /\ result' = "ok"
        /\ UNCHANGED <<offset, index, task, got, trytime>>
     \/ /\ Failed # {} /\ trytime > 1
        /\ trytime' = trytime - 1 /\ pc' = "start" /\ offset' = 0 /\ index' = 0
        /\ UNCHANGED <<task, got, total, result>>
     \/ /\ Failed # {} /\ trytime = 1
        /\ pc' = "done" /\ result' = "failed"
        /\ UNCHANGED <<offset, index, task, got, total, trytime>>
  /\ UNCHANGED <<kind, valid, len, pool, taskResp, parts, object, doubt, changed, faults>>

\* Another session replaces or removes the object.
Replace ==
  /\ kind = "down" /\ pc # "done" /\ ~changed
  /\ object' \in {Version("new", n) : n \in Lens} \cup {Absent}
  /\ changed' = TRUE
  /\ UNCHANGED <<kind, valid, pc, len, offset, index, pool, task, taskResp, parts, got, total, trytime, result, faults, doubt>>

-----------------------------------------------------------------------------
Main ==
  \/ Invalid \/ Single \/ SliceInit \/ ReadSlice \/ ReadOver \/ Collect \/ SliceFinish \/ Purge
  \/ Split \/ NothingToFetch \/ Fetch
Worker(w) == Take(w) \/ UploadTask(w) \/ DownloadTask(w)

Next == Main \/ (\E w \in Slot : Worker(w)) \/ Replace
Spec == Init /\ [][Next]_vars
FairSpec == Spec /\ WF_vars(Main) /\ \A w \in Slot : WF_vars(Worker(w))

-----------------------------------------------------------------------------
(* The values of the variables.                                            *)
TypeOK ==
  /\ kind \in {"up", "down"} /\ valid \in BOOLEAN
  /\ pc \in {"start", "read", "wait", "finish", "purge", "done"}
  /\ len \in Lens /\ offset \in Nat /\ index \in 0 .. MaxTasks /\ pool \in Nat
  /\ kind = "up" => index <= pool
  /\ task \in [Slot -> [st : {"idle", "queued", "running", "ok", "bad"}, off : Nat, buf : Data,
                        param : Nat, loop : 0 .. 2,
                        resp : {"none", "good", "error", "garbage", "old", "new"}]]
  /\ taskResp \in {"none", "good", "error", "garbage"}
  /\ parts \subseteq [off : Nat, data : Data]
  /\ object \in [ver : {"absent", "old", "new", "damaged"}, len : Nat]
  /\ got \in [Slot -> Data] /\ total \in Nat /\ trytime \in 1 .. 2
  /\ result \in {"none", "ok", "failed"}
  /\ faults \in 0 .. MaxFaults /\ doubt \in BOOLEAN /\ changed \in BOOLEAN

(* A slice reaches COS with the data of its own offset, although buffers   *)
(* and task objects are used again in every round and requests are         *)
(* repeated.                                                               *)
SlicesInPlace == \A s \in parts : s.off = s.data.from /\ s.off + s.data.len <= len

(* When Finish is asked for, the file has been read to its end and each    *)
(* slice is at COS, unless an answer of COS could not be read: such an     *)
(* answer passes for an acknowledgement, and only Finish can tell.         *)
Acknowledged ==
  kind = "up" /\ pc = "finish" /\ taskResp = "good" =>
    /\ offset = len
    /\ Complete \/ doubt

(* The buffer that a download hands to RETR holds the range asked for,     *)
(* block by block, when the object was left alone; when it was not, each   *)
(* range still has blocks of its own place, and the length is never more   *)
(* than what was asked for.                                                *)
Fetched ==
  kind = "down" /\ pc = "done" /\ result = "ok" =>
    /\ total <= Wanted
    /\ ~changed => total = Wanted
    /\ total = Wanted /\ Wanted > 0 =>
         \A p \in 0 .. Wanted - 1 : \E w \in Used : got[w].from <= p /\ p < got[w].from + got[w].len
    /\ \A w \in Used : got[w].from = task[w].off /\ got[w].len <= task[w].buf.len

(* A download, whatever its ranges and threads, fills the buffer it was    *)
(* given as the caller asked, within its bounds.                           *)
Received == TypeOK /\ Fetched

(* Every transfer ends, whatever fails.                                    *)
TransferEnds == <>(pc = "done")

(* An upload keeps the promise of Transfer.                                *)
Promise == INSTANCE Transfer WITH
  Absent <- "absent", Other <- "old", Whole <- "new",
  object <- IF kind = "up" THEN object.ver ELSE "absent",
  outcome <- IF kind = "up" /\ pc = "done" THEN result ELSE "running"
ImplementsTransfer == Promise!Spec
=============================================================================
