---------------------------- MODULE SlicesProofs ----------------------------
(***************************************************************************)
(* The slices of an upload and the ranges of a download, for every length  *)
(* of the file, of a slice and of a range, every number of threads and     *)
(* every number of requests that go wrong.                                 *)
(***************************************************************************)
EXTENDS Slices, WellFoundedInduction, TLAPS

\* The steps are about sets and functions, save where arithmetic is named SMT.
USE ZenonT(60)

Tasks == [st : {"idle", "queued", "running", "ok", "bad"}, off : Nat, buf : Data, param : Nat,
          loop : Nat, resp : {"none", "good", "error", "garbage"}]

Values ==
  /\ len \in Nat /\ offset \in Nat /\ index \in Nat /\ pool \in Nat
  /\ task \in [Slot -> Tasks] /\ parts \subseteq [off : Nat, data : Data]

Busy(w) == task[w].st \in {"queued", "running"}

\* A task that is posted has its own offset, a task that runs has made its
\* parameters of it, and the tasks from index on are free.
Placed ==
  /\ offset <= len
  /\ \A w \in Slot : Busy(w) => /\ task[w].off = task[w].buf.from
                                /\ task[w].off + task[w].buf.len <= len
  /\ \A w \in Slot : task[w].st = "running" => task[w].param = task[w].off
  /\ pc \in {"start", "read"} => \A w \in Slot : w >= index => ~Busy(w)
  /\ pc = "start" => index = 0 /\ offset = 0 /\ taskResp = "none"
  /\ pc \in {"read", "wait"} => pool <= MaxTasks

\* Only an upload sends slices.
SInv ==
  /\ kind \in {"up", "down"}
  /\ kind = "down" => parts = {}
  /\ kind = "up" => Values /\ Placed /\ SlicesInPlace

\* A block that was read is at COS, or its task is under way or has failed.
At(p) == \E s \in parts : s.off <= p /\ p < s.off + s.data.len
Pending(p) ==
  \E w \in Slot : /\ w < index
                  /\ Busy(w) \/ task[w].st = "bad"
                  /\ task[w].off <= p /\ p < task[w].off + task[w].buf.len
Covered == \A p \in Nat : p < offset => At(p) \/ Pending(p)

Ledger ==
  /\ pc \in {"start", "read", "wait"} => doubt \/ Covered
  /\ pc = "finish" /\ taskResp = "good" => offset = len /\ (Complete \/ doubt)
LInv == SInv /\ (kind = "up" => Ledger)

-----------------------------------------------------------------------------
LEMMA SlotsAreNumbers == Slot \subseteq Nat /\ MaxTasks \in Nat
BY SMT, SlicesAssumption DEF Slot

\* A task object after a turn of uploadTask.
LEMMA AnsweredTask ==
  ASSUME NEW t \in Tasks, NEW resp \in {"good", "error", "garbage"}
  PROVE  /\ Noted(t, resp) \in Tasks /\ Noted(t, resp).resp = resp
         /\ Noted(t, resp).st = IF resp # "error" THEN "ok" ELSE IF t.loop < 1 THEN "running" ELSE "bad"
         /\ Noted(t, resp).off = t.off /\ Noted(t, resp).param = t.param /\ Noted(t, resp).buf = t.buf
<1> DEFINE n == t.loop + 1
           x == IF resp # "error" THEN "ok" ELSE IF t.loop < 1 THEN "running" ELSE "bad"
<1>1. n \in Nat /\ x \in {"ok", "running", "bad"}
  BY SMT DEF Tasks
<1>2. Noted(t, resp) = [t EXCEPT !.resp = resp, !.loop = n, !.st = x]
  BY DEF Noted
<1>3. x = IF resp # "error" THEN "ok" ELSE IF t.loop < 1 THEN "running" ELSE "bad"
  OBVIOUS
<1> HIDE DEF n, x
<1>4. Noted(t, resp) \in Tasks
  BY <1>1, <1>2 DEF Tasks
<1>5. /\ Noted(t, resp).resp = resp /\ Noted(t, resp).st = x
      /\ Noted(t, resp).off = t.off /\ Noted(t, resp).param = t.param /\ Noted(t, resp).buf = t.buf
  BY <1>1, <1>2 DEF Tasks
<1>. QED
  BY <1>3, <1>4, <1>5

\* A turn of the inner loop of FileUploadSliceData.
LEMMA ReadSliceEffect ==
  ASSUME Values, Placed, ReadSlice
  PROVE  \E n \in Nat :
           /\ n > 0 /\ offset + n <= len /\ index \in Slot /\ pc = "read"
           /\ offset' = offset + n /\ index' = index + 1
           /\ task' \in [Slot -> Tasks]
           /\ task'[index].st = "queued" /\ task'[index].off = offset
           /\ task'[index].buf.from = offset /\ task'[index].buf.len = n
           /\ \A w \in Slot : w # index => task'[w] = task[w]
           /\ UNCHANGED <<kind, pc, len, pool, taskResp, parts, doubt>>
<1> DEFINE n == Min2(SliceSize, len - offset)
           new == [task[index] EXCEPT !.st = "queued", !.off = offset,
                                      !.buf = [from |-> offset, len |-> n]]
<1>1. n \in Nat /\ n > 0 /\ offset + n <= len /\ index \in Slot
  <2>1. n > 0 /\ offset <= len /\ index < pool /\ pool <= MaxTasks
    BY DEF ReadSlice, Placed
  <2>2. offset \in Nat /\ len \in Nat /\ index \in Nat /\ pool \in Nat
    BY DEF Values
  <2>3. SliceSize \in Nat /\ MaxTasks \in Nat
    BY SlicesAssumption
  <2>. QED
    BY SMT, <2>1, <2>2, <2>3 DEF Min2, Slot
<1>2. /\ offset' = offset + n /\ index' = index + 1 /\ task' = [task EXCEPT ![index] = new]
      /\ UNCHANGED <<kind, pc, len, pool, taskResp, parts, doubt>> /\ pc = "read"
  BY DEF ReadSlice, transfer
<1>3. /\ new \in Tasks /\ new.st = "queued" /\ new.off = offset
      /\ new.buf.from = offset /\ new.buf.len = n
  BY <1>1 DEF Values, Tasks, Data
<1> HIDE DEF n, new
<1>4. task' \in [Slot -> Tasks] /\ task'[index] = new
  BY <1>1, <1>2, <1>3 DEF Values
<1>5. \A w \in Slot : w # index => task'[w] = task[w]
  BY <1>1, <1>2 DEF Values
<1>. QED
  BY <1>1, <1>2, <1>3, <1>4, <1>5

\* A thread takes a task.
LEMMA TakeEffect ==
  ASSUME Values, NEW w \in Slot, Take(w)
  PROVE  /\ task[w].st = "queued" /\ task' \in [Slot -> Tasks]
         /\ task'[w].st = "running" /\ task'[w].off = task[w].off
         /\ task'[w].param = task[w].off /\ task'[w].buf = task[w].buf
         /\ \A v \in Slot : v # w => task'[v] = task[v]
         /\ UNCHANGED <<kind, pc, len, offset, index, pool, taskResp, parts, doubt>>
<1> DEFINE new == [task[w] EXCEPT !.st = "running", !.param = task[w].off, !.loop = 0, !.resp = "none"]
<1>1. /\ task' = [task EXCEPT ![w] = new] /\ task[w].st = "queued"
      /\ UNCHANGED <<kind, pc, len, offset, index, pool, taskResp, parts, doubt>>
  BY DEF Take, transfer
<1>2. /\ new \in Tasks /\ new.st = "running" /\ new.off = task[w].off
      /\ new.param = task[w].off /\ new.buf = task[w].buf
  BY DEF Values, Tasks
<1> HIDE DEF new
<1>. QED
  BY <1>1, <1>2 DEF Values

\* A turn of uploadTask.
LEMMA UploadTaskEffect ==
  ASSUME Values, NEW w \in Slot, UploadTask(w)
  PROVE  \E resp \in {"good", "error", "garbage"} :
           /\ parts' = parts \cup {Slice(w)} \/ (resp # "good" /\ parts' = parts)
           /\ resp = "garbage" => doubt'
           /\ doubt => doubt'
           /\ task[w].st = "running" /\ task' \in [Slot -> Tasks]
           /\ task'[w].st \in {"ok", "running", "bad"} /\ (resp = "error" => task'[w].st # "ok")
           /\ task'[w].off = task[w].off /\ task'[w].param = task[w].param /\ task'[w].buf = task[w].buf
           /\ \A v \in Slot : v # w => task'[v] = task[v]
           /\ UNCHANGED <<kind, pc, len, offset, index, pool, taskResp>>
<1>1. PICK resp \in {"good", "error", "garbage"} :
        /\ parts' = parts \cup {Slice(w)} \/ (resp # "good" /\ parts' = parts)
        /\ doubt' = (doubt \/ resp = "garbage")
        /\ task' = [task EXCEPT ![w] = Noted(task[w], resp)]
  BY DEF UploadTask
<1>2. task[w].st = "running" /\ UNCHANGED <<kind, pc, len, offset, index, pool, taskResp>>
  BY DEF UploadTask
<1> DEFINE new == Noted(task[w], resp)
<1>3. task[w] \in Tasks
  BY DEF Values
<1>4. /\ new \in Tasks /\ new.off = task[w].off /\ new.param = task[w].param /\ new.buf = task[w].buf
      /\ new.st = IF resp # "error" THEN "ok" ELSE IF task[w].loop < 1 THEN "running" ELSE "bad"
  BY <1>3, AnsweredTask
<1>5. task' = [task EXCEPT ![w] = new]
  BY <1>1
<1> HIDE DEF new
<1>6. new.st \in {"ok", "running", "bad"} /\ (resp = "error" => new.st # "ok")
  BY <1>4
<1>7. task' \in [Slot -> Tasks] /\ task'[w] = new /\ \A v \in Slot : v # w => task'[v] = task[v]
  BY <1>4, <1>5 DEF Values
<1>8. (resp = "garbage" => doubt') /\ (doubt => doubt')
  BY <1>1
<1>. QED
  BY <1>1, <1>2, <1>4, <1>6, <1>7, <1>8

LEMMA PlacedInit == Init => SInv
<1> SUFFICES ASSUME Init, kind = "up" PROVE Values /\ Placed /\ SlicesInPlace
  BY DEF Init, SInv
<1>1. Values
  BY SlicesAssumption DEF Init, Values, Tasks, Fresh, NoData, Data
<1>2. Placed
  <2>1. offset = 0 /\ index = 0 /\ pc = "start" /\ taskResp = "none" /\ \A w \in Slot : task[w].st = "idle"
    BY DEF Init, Fresh
  <2>2. 0 <= len
    BY SMT, <1>1 DEF Values
  <2>. QED
    BY <2>1, <2>2 DEF Placed, Busy
<1>3. SlicesInPlace
  BY DEF Init, SlicesInPlace
<1>. QED
  BY <1>1, <1>2, <1>3

\* What the actions of a download leave alone.
LEMMA OnlyUploads ==
  ASSUME kind = "down", [Next]_vars
  PROVE  kind' = kind /\ parts' = parts
BY DEF Next, vars, Main, Worker, Invalid, Single, SliceInit, ReadSlice, ReadOver, Collect,
   SliceFinish, Purge, Split, NothingToFetch, Fetch, Take, UploadTask, DownloadTask, Replace

\* A slice is sent with the data of its own offset, although buffers and tasks
\* are used again in every round.
LEMMA PlacedNext == SInv /\ [Next]_vars => SInv'
<1> SUFFICES ASSUME SInv, [Next]_vars PROVE SInv'
  OBVIOUS
<1>a. CASE kind = "down"
  <2>1. "down" # "up"
    OBVIOUS
  <2>. QED
    BY <1>a, <2>1, OnlyUploads DEF SInv
<1>b. CASE kind = "up"
  <2> SUFFICES kind' = kind /\ (Values /\ Placed /\ SlicesInPlace)'
    BY <1>b DEF SInv
  <2>0. Values /\ Placed /\ SlicesInPlace
    BY <1>b DEF SInv
  <2>z. Slot \subseteq Nat /\ MaxTasks \in Nat /\ SliceSize \in Nat /\ Pool \in Nat /\ Pool <= MaxTasks /\ 1 <= MaxTasks
    BY SMT, SlicesAssumption DEF Slot
  <2>1. CASE Invalid
    BY <1>b, <2>1, <2>0, <2>z DEF Invalid, Bad, transfer, download, Values, Placed, Busy, SlicesInPlace
  <2>2. CASE Single
    BY <1>b, <2>2, <2>0, <2>z DEF Single, Good, Bad, transfer, download, Values, Placed, Busy, SlicesInPlace
  <2>3. CASE SliceInit
    BY SMTT(30), <1>b, <2>3, <2>0, <2>z DEF SliceInit, Good, Bad, transfer, download, Values, Placed, Busy, SlicesInPlace
  <2>4. CASE ReadOver
    BY <1>b, <2>4, <2>0, <2>z DEF ReadOver, transfer, download, Values, Placed, Busy, SlicesInPlace
  <2>5. CASE Collect
    BY <1>b, <2>5, <2>0, <2>z DEF Collect, Idle, transfer, download, Values, Placed, Busy, SlicesInPlace
  <2>6. CASE SliceFinish
    BY <1>b, <2>6, <2>0, <2>z DEF SliceFinish, Good, Bad, transfer, download, Values, Placed, Busy, SlicesInPlace
  <2>7. CASE Purge
    BY <1>b, <2>7, <2>0, <2>z DEF Purge, transfer, download, Values, Placed, Busy, SlicesInPlace
  <2>8. CASE ReadSlice
    <3>1. PICK n \in Nat :
            /\ n > 0 /\ offset + n <= len /\ index \in Slot /\ pc = "read"
            /\ offset' = offset + n /\ index' = index + 1
            /\ task' \in [Slot -> Tasks]
            /\ task'[index].st = "queued" /\ task'[index].off = offset
            /\ task'[index].buf.from = offset /\ task'[index].buf.len = n
            /\ \A w \in Slot : w # index => task'[w] = task[w]
            /\ UNCHANGED <<kind, pc, len, pool, taskResp, parts, doubt>>
      BY <2>0, <2>8, ReadSliceEffect
    <3>2. Values'
      BY SMT, <2>0, <3>1 DEF Values
    <3>3. Placed'
      <4>1. /\ len \in Nat /\ offset \in Nat /\ index \in Nat /\ pc' = "read" /\ pool' <= MaxTasks
            /\ \A w \in Slot : w \in Nat
        BY SMT, <2>0, <3>1 DEF Values, Placed, Slot
      <4>2. \A w \in Slot : /\ Busy(w)' => /\ task'[w].off = task'[w].buf.from
                                          /\ task'[w].off + task'[w].buf.len <= len'
                            /\ task'[w].st = "running" => task'[w].param = task'[w].off
        BY <2>0, <3>1 DEF Placed, Busy
      <4>3. ASSUME NEW w \in Slot, w >= index + 1 PROVE w # index /\ w >= index
        BY SMT, <4>1, <4>3
      <4>4. offset' <= len'
        BY <3>1
      <4>. QED
        BY <2>0, <3>1, <4>1, <4>2, <4>3, <4>4 DEF Placed, Busy
    <3>. QED
      BY <2>0, <3>1, <3>2, <3>3 DEF SlicesInPlace
  <2>9. ASSUME NEW w \in Slot, Take(w) PROVE kind' = kind /\ (Values /\ Placed /\ SlicesInPlace)'
    <3>1. /\ task[w].st = "queued" /\ task' \in [Slot -> Tasks]
          /\ task'[w].st = "running" /\ task'[w].off = task[w].off
          /\ task'[w].param = task[w].off /\ task'[w].buf = task[w].buf
          /\ \A v \in Slot : v # w => task'[v] = task[v]
          /\ UNCHANGED <<kind, pc, len, offset, index, pool, taskResp, parts, doubt>>
      BY <2>0, <2>9, TakeEffect
    <3>2. Values'
      BY <2>0, <3>1 DEF Values
    <3>3. Placed'
      BY <2>0, <2>z, <3>1 DEF Placed, Busy
    <3>. QED
      BY <2>0, <3>1, <3>2, <3>3 DEF SlicesInPlace
  <2>10. ASSUME NEW w \in Slot, UploadTask(w) PROVE kind' = kind /\ (Values /\ Placed /\ SlicesInPlace)'
    <3>1. /\ parts' \subseteq parts \cup {Slice(w)}
          /\ task[w].st = "running" /\ task' \in [Slot -> Tasks]
          /\ task'[w].st \in {"ok", "running", "bad"}
          /\ task'[w].off = task[w].off /\ task'[w].param = task[w].param /\ task'[w].buf = task[w].buf
          /\ \A v \in Slot : v # w => task'[v] = task[v]
          /\ UNCHANGED <<kind, pc, len, offset, index, pool, taskResp>>
      BY <2>0, <2>10, UploadTaskEffect
    <3>2. /\ Slice(w) \in [off : Nat, data : Data] /\ Slice(w).off = Slice(w).data.from
          /\ Slice(w).off + Slice(w).data.len <= len
      BY <2>0, <3>1 DEF Values, Tasks, Slice, Placed, Busy
    <3>3. Values'
      BY <2>0, <3>1, <3>2 DEF Values
    <3>4. Placed'
      BY <2>0, <2>z, <3>1 DEF Placed, Busy
    <3>. QED
      BY <2>0, <3>1, <3>2, <3>3, <3>4 DEF SlicesInPlace
  <2>11. CASE UNCHANGED vars
    BY <2>11, <2>0 DEF vars, Values, Placed, Busy, SlicesInPlace
  <2>12. ~(\/ Split \/ NothingToFetch \/ Fetch \/ Replace \/ \E w \in Slot : DownloadTask(w))
    BY <1>b DEF Split, NothingToFetch, Fetch, Replace, DownloadTask
  <2>. QED
    BY <2>1, <2>2, <2>3, <2>4, <2>5, <2>6, <2>7, <2>8, <2>9, <2>10, <2>11, <2>12
       DEF Next, Main, Worker
<1>. QED
  BY <1>a, <1>b DEF SInv

LEMMA LedgerInit == Init => LInv
<1> SUFFICES ASSUME Init, kind = "up" PROVE Ledger
  BY PlacedInit DEF LInv
<1>. QED
  BY SMT DEF Init, Ledger, Covered

\* No block that was read is forgotten: a task that failed is seen by Collect.
LEMMA LedgerNext == LInv /\ [Next]_vars => LInv'
<1> SUFFICES ASSUME LInv, [Next]_vars, kind' = "up" PROVE Ledger'
  BY PlacedNext DEF LInv
<1>b. kind = "up"
  BY OnlyUploads DEF LInv, SInv
<1>0. Values /\ Placed /\ SlicesInPlace /\ Ledger
  BY <1>b DEF LInv, SInv
<1>z. Slot \subseteq Nat /\ MaxTasks \in Nat
  BY SlotsAreNumbers
<1>1. CASE Invalid
  BY <1>b, <1>1 DEF Invalid, Bad, Ledger
<1>2. CASE Single
  BY <1>2 DEF Single, Good, Bad, Ledger
<1>3. CASE SliceInit
  BY SMT, <1>0, <1>3 DEF SliceInit, Good, Bad, transfer, Ledger, Covered, Placed, Values
<1>4. CASE ReadOver
  BY <1>0, <1>4 DEF ReadOver, transfer, Ledger, Covered, At, Pending, Busy
<1>5. CASE Collect
  <2>1. ASSUME Failed = {} PROVE \A p \in Nat : ~Pending(p)
    BY <1>5, <2>1 DEF Collect, Idle, Pending, Busy, Failed, Used
  <2>2. CASE Failed # {}
    BY <1>5, <2>2 DEF Collect, Ledger
  <2>3. CASE Failed = {} /\ offset >= len
    <3>1. offset = len
      BY SMT, <1>0, <2>3 DEF Placed, Values
    <3>2. doubt \/ Complete
      BY SMT, <1>0, <1>5, <2>1, <2>3, <3>1 DEF Collect, Ledger, Covered, At, Complete, Values
    <3>. QED
      BY <1>5, <2>3, <3>1, <3>2 DEF Collect, transfer, Ledger, Complete
  <2>4. CASE Failed = {} /\ ~(offset >= len)
    <3>1. doubt \/ \A p \in Nat : p < offset => At(p)
      BY <1>0, <1>5, <2>1, <2>4 DEF Collect, Ledger, Covered
    <3>2. pc' = "read" /\ UNCHANGED <<offset, parts, doubt>>
      BY <1>5, <2>4 DEF Collect, transfer
    <3>. QED
      BY <3>1, <3>2 DEF Ledger, Covered, At
  <2>. QED
    BY <2>2, <2>3, <2>4
<1>6. CASE SliceFinish
  BY <1>6 DEF SliceFinish, Good, Bad, Ledger
<1>7. CASE Purge
  BY <1>7 DEF Purge, Ledger
<1>8. CASE ReadSlice
  <2>1. PICK n \in Nat :
          /\ index \in Slot /\ offset' = offset + n /\ index' = index + 1 /\ pc = "read" /\ pc' = pc
          /\ task'[index].st = "queued" /\ task'[index].off = offset /\ task'[index].buf.len = n
          /\ \A w \in Slot : w # index => task'[w] = task[w]
          /\ UNCHANGED <<parts, doubt>>
    BY <1>0, <1>8, ReadSliceEffect
  <2>2. ASSUME NEW p \in Nat, p < offset', Covered PROVE At(p)' \/ Pending(p)'
    <3>1. CASE p < offset /\ At(p)
      BY <2>1, <3>1 DEF At
    <3>2. CASE p < offset /\ Pending(p)
      <4>1. PICK v \in Slot : /\ v < index /\ (Busy(v) \/ task[v].st = "bad")
                             /\ task[v].off <= p /\ p < task[v].off + task[v].buf.len
        BY <3>2 DEF Pending
      <4>2. v < index' /\ task'[v] = task[v]
        BY SMTT(30), <1>0, <1>z, <2>1, <4>1 DEF Values
      <4>. QED
        BY <4>1, <4>2 DEF Pending, Busy
    <3>3. CASE ~(p < offset)
      <4>1. index < index' /\ offset <= p /\ p < offset + n
        BY SMT, <1>0, <1>z, <2>1, <2>2, <3>3 DEF Values
      <4>. QED
        BY <2>1, <4>1 DEF Pending, Busy
    <3>. QED
      BY <2>2, <3>1, <3>2, <3>3 DEF Covered
  <2>. QED
    BY <1>0, <2>1, <2>2 DEF Ledger, Covered
<1>9. ASSUME NEW w \in Slot, Take(w) PROVE Ledger'
  <2>1. /\ task[w].st = "queued" /\ task'[w].st = "running" /\ task'[w].off = task[w].off
        /\ task'[w].buf = task[w].buf
        /\ \A v \in Slot : v # w => task'[v] = task[v]
        /\ UNCHANGED <<pc, len, offset, index, taskResp, parts, doubt>>
    BY <1>0, <1>9, TakeEffect
  <2>2. ASSUME NEW p \in Nat PROVE (At(p) => At(p)') /\ (Pending(p) => Pending(p)')
    BY <2>1 DEF At, Pending, Busy
  <2>. QED
    BY <1>0, <2>1, <2>2 DEF Ledger, Covered, Complete
<1>10. ASSUME NEW w \in Slot, UploadTask(w) PROVE Ledger'
  <2>1. PICK resp \in {"good", "error", "garbage"} :
          /\ parts' = parts \cup {Slice(w)} \/ (resp # "good" /\ parts' = parts)
          /\ resp = "garbage" => doubt'
          /\ doubt => doubt'
          /\ task[w].st = "running"
          /\ task'[w].st \in {"ok", "running", "bad"} /\ (resp = "error" => task'[w].st # "ok")
          /\ task'[w].off = task[w].off /\ task'[w].buf = task[w].buf
          /\ \A v \in Slot : v # w => task'[v] = task[v]
          /\ UNCHANGED <<pc, len, offset, index, taskResp>>
    BY <1>0, <1>10, UploadTaskEffect
  <2>2. ASSUME NEW p \in Nat, At(p) PROVE At(p)'
    BY <2>1, <2>2 DEF At
  <2>3. ASSUME NEW p \in Nat, Pending(p), ~doubt' PROVE At(p)' \/ Pending(p)'
    <3>1. PICK v \in Slot : /\ v < index /\ (Busy(v) \/ task[v].st = "bad")
                           /\ task[v].off <= p /\ p < task[v].off + task[v].buf.len
      BY <2>3 DEF Pending
    <3>2. CASE v # w
      BY <2>1, <3>1, <3>2 DEF Pending, Busy
    <3>3. CASE v = w /\ resp = "error"
      BY <2>1, <3>1, <3>3 DEF Pending, Busy
    <3>4. CASE v = w /\ resp = "good"
      <4>1. Slice(w).off = task[w].off /\ Slice(w).data = task[w].buf
        BY <1>0, <2>1 DEF Slice, Placed
      <4>2. Slice(w) \in parts'
        BY <2>1, <3>4
      <4>. QED
        BY <3>1, <3>4, <4>1, <4>2 DEF At
    <3>. QED
      BY <2>1, <2>3, <3>2, <3>3, <3>4
  <2>4. Complete => Complete'
    BY <2>1 DEF Complete
  <2>. QED
    BY <1>0, <2>1, <2>2, <2>3, <2>4 DEF Ledger, Covered
<1>11. CASE UNCHANGED vars
  BY <1>0, <1>11 DEF vars, Ledger, Covered, At, Pending, Busy, Complete
<1>12. ~(\/ Split \/ NothingToFetch \/ Fetch \/ Replace \/ \E w \in Slot : DownloadTask(w))
  BY <1>b DEF Split, NothingToFetch, Fetch, Replace, DownloadTask
<1>. QED
  BY <1>1, <1>2, <1>3, <1>4, <1>5, <1>6, <1>7, <1>8, <1>9, <1>10, <1>11, <1>12
     DEF Next, Main, Worker

\* Both invariants hold of every reachable state.
THEOREM LedgerInvariance == Spec => []LInv
<1>1. Init => LInv
  BY LedgerInit
<1>2. LInv /\ [Next]_vars => LInv'
  BY LedgerNext
<1>. QED
  BY <1>1, <1>2, PTL DEF Spec

\* FileUploadSliceData and its threads send each slice with the data of its own
\* offset, whatever is repeated and however the tasks are scheduled.
THEOREM EachSliceInPlace == Spec => []SlicesInPlace
<1>1. LInv => SlicesInPlace
  BY DEF LInv, SInv, SlicesInPlace
<1>. QED
  BY <1>1, LedgerInvariance, PTL

\* FileUploadSliceFinish is asked for only when the whole file is at COS, or an
\* answer of COS could not be read.
THEOREM NoSliceForgotten == Spec => []Acknowledged
<1>1. LInv => Acknowledged
  BY DEF LInv, Ledger, Acknowledged
<1>. QED
  BY <1>1, LedgerInvariance, PTL

-----------------------------------------------------------------------------
(* The refinement of Transfer.                                             *)

LEMMA PromiseInit == Init => Promise!Init
<1> SUFFICES ASSUME Init PROVE Promise!Init
  OBVIOUS
<1>1. CASE kind = "up"
  BY SMT, <1>1 DEF Init, Promise!Init, Absent, Version
<1>2. CASE kind = "down"
  BY <1>2 DEF Init, Promise!Init
<1>. QED
  BY <1>1, <1>2 DEF Init

\* The object becomes the whole file, once; success says so, and a failure
\* leaves it or removes it.
LEMMA PromiseNext == LInv /\ [Next]_vars => [Promise!Next]_(Promise!vars)
<1> SUFFICES ASSUME LInv, [Next]_vars PROVE [Promise!Next]_(Promise!vars)
  OBVIOUS
<1>a. CASE kind = "down"
  <2>1. kind' # "up" /\ kind # "up"
    BY <1>a, OnlyUploads
  <2>. QED
    BY <2>1 DEF Promise!vars
<1>b. CASE kind = "up"
  <2>1. CASE Invalid
    BY <1>b, <2>1 DEF Invalid, Bad, Promise!vars
  <2>2. CASE Single
    BY SMT, <1>b, <2>2 DEF Single, Good, Bad, Commit, Version, Promise!vars, Promise!Next, Promise!Commit, Promise!Succeed
  <2>3. CASE SliceInit
    BY SMT, <1>b, <2>3 DEF SliceInit, Good, Bad, Commit, Version, Promise!vars, Promise!Next, Promise!Succeed
  <2>4. CASE SliceFinish
    <3>1. Assembled = Version("new", len)
      BY <1>b DEF Assembled, LInv, SInv, SlicesInPlace
    <3>. QED
      BY SMT, <1>b, <2>4, <3>1 DEF SliceFinish, Good, Bad, Version, Promise!vars, Promise!Next, Promise!Commit,
         Promise!Succeed
  <2>5. CASE Purge
    BY SMT, <1>b, <2>5 DEF Purge, Absent, Promise!vars, Promise!Next, Promise!Fail
  <2>6. CASE ReadSlice \/ ReadOver \/ Collect
    BY <1>b, <2>6 DEF ReadSlice, ReadOver, Collect, Promise!vars
  <2>7. ASSUME NEW w \in Slot, Take(w) \/ UploadTask(w) PROVE UNCHANGED Promise!vars
    BY <2>7 DEF Take, UploadTask, Promise!vars
  <2>8. CASE UNCHANGED vars
    BY <2>8 DEF vars, Promise!vars
  <2>9. ~(\/ Split \/ NothingToFetch \/ Fetch \/ Replace \/ \E w \in Slot : DownloadTask(w))
    BY <1>b DEF Split, NothingToFetch, Fetch, Replace, DownloadTask
  <2>. QED
    BY <2>1, <2>2, <2>3, <2>4, <2>5, <2>6, <2>7, <2>8, <2>9 DEF Next, Main, Worker
<1>. QED
  BY <1>a, <1>b DEF LInv, SInv

\* FileOp::FileUpload keeps what Transfer promises its caller: success means
\* that the object is the whole file.
THEOREM UploadKeepsPromise == Spec => ImplementsTransfer
<1>1. Init => Promise!Init
  BY PromiseInit
<1>2. LInv /\ [Next]_vars => [Promise!Next]_(Promise!vars)
  BY PromiseNext
<1>. QED
  BY <1>1, <1>2, LedgerInvariance, PTL DEF Spec, ImplementsTransfer, Promise!Spec

-----------------------------------------------------------------------------
(***************************************************************************)
(* The values of the variables, and what a download puts into the buffer.  *)
(***************************************************************************)

\* Where range w of a download of n blocks starts.
Edge(n, w) == Min2(w * RangeSize, Min2(BufSize, n))

\* Task w of a download is for its own range and what it got comes from there:
\* all of the range when the object is the one that RETR asked about.
Ranged(w) ==
  /\ task[w].off = Edge(len, w) /\ task[w].buf.len = Edge(len, w + 1) - Edge(len, w)
  /\ task[w].st # "idle"
  /\ task[w].st = "running" => task[w].param = task[w].off
  /\ task[w].st = "ok" => /\ got[w].from = task[w].off /\ got[w].len <= task[w].buf.len
                          /\ ~changed => got[w].len = task[w].buf.len

Ranges ==
  /\ pc \in {"start", "wait", "done"}
  /\ offset = Edge(len, index)
  /\ pc = "start" => offset < Wanted \/ (Wanted = 0 /\ index = 0)
  /\ pc = "wait" => offset = Wanted
  /\ \A w \in Slot : w < index => Ranged(w)
  /\ \A w \in Slot : w >= index => ~Busy(w)
  /\ object.len # 0 => object.ver \in {"old", "new"}
  /\ ~changed => object.len = len
  /\ pc # "done" => result = "none" /\ total = 0
  /\ pc = "done" /\ result = "ok" =>
       /\ offset = Wanted /\ total = Sum3(got, Used)
       /\ \A w \in Used : task[w].st = "ok"

\* A file that is cut into slices is not empty, so a round has a task.
Rounds ==
  /\ offset <= len
  /\ \A w \in Slot : /\ task[w].resp \notin {"old", "new"}
                     /\ task[w].st = "running" => task[w].loop <= 1
  /\ pc = "start" => index = 0 /\ offset = 0
  /\ pc \in {"read", "wait"} => pool \in 1 .. MaxTasks
  /\ pc = "read" => offset < len \/ index > 0
  /\ pc = "wait" => index > 0

RInv == TypeOK /\ IF kind = "down" THEN Ranges ELSE Rounds

-----------------------------------------------------------------------------
\* Induction, with a set in the place of the property.
LEMMA SetInduction ==
  ASSUME NEW T \in SUBSET Nat, 0 \in T, \A n \in T : n + 1 \in T
  PROVE  T = Nat
<1> DEFINE R == {ss \in Nat \X Nat : ss[1] < ss[2]}
           U == Nat \ T
<1>1. IsWellFoundedOn(R, Nat)
  BY NatLessThanWellFounded DEF OpToRel
<1>2. ASSUME U # {} PROVE FALSE
  <2>1. U \subseteq Nat
    OBVIOUS
  <2> HIDE DEF R, U
  <2>2. PICK x \in U : \A y \in U : ~ (<<y, x>> \in R)
    BY <1>1, <1>2, <2>1, WFMin
  <2> USE DEF R, U
  <2>3. x \in Nat /\ x \notin T /\ x # 0
    OBVIOUS
  <2>4. x - 1 \in Nat /\ x - 1 < x /\ (x - 1) + 1 = x
    BY SMT, <2>3
  <2>5. x - 1 \in U
    BY <2>3, <2>4
  <2>6. <<x - 1, x>> \in R
    BY <2>3, <2>4
  <2>. QED
    BY <2>2, <2>5, <2>6
<1>. QED
  BY <1>2

\* The ranges follow each other and end with what the buffer takes.
LEMMA Edges ==
  ASSUME NEW n \in Nat
  PROVE  LET W == Min2(BufSize, n)
         IN /\ W \in Nat /\ W <= n /\ Edge(n, 0) = 0 /\ Edge(n, MaxTasks) = W
            /\ \A w \in Nat : /\ Edge(n, w) \in Nat /\ Edge(n, w) <= W
                              /\ Edge(n, w + 1) = Min2(Edge(n, w) + RangeSize, W)
                              /\ Edge(n, w) < W => w < MaxTasks
<1> DEFINE W == Min2(BufSize, n)
<1>1. W \in Nat /\ W <= n /\ W <= BufSize /\ BufSize \in Nat /\ RangeSize \in Nat /\ RangeSize > 0 /\ MaxTasks \in Nat
      /\ BufSize <= RangeSize * MaxTasks
  BY SMT, SlicesAssumption DEF Min2
<1> HIDE DEF W
<1>2. \A w \in Nat : Edge(n, w) = IF w * RangeSize < W THEN w * RangeSize ELSE W
  BY DEF Edge, Min2, W
<1>3. Edge(n, 0) = 0
  BY SMT, <1>1, <1>2
<1>4. Edge(n, MaxTasks) = W
  <2>1. MaxTasks * RangeSize = RangeSize * MaxTasks /\ MaxTasks * RangeSize \in Nat
    BY SMT, <1>1
  <2>. QED
    BY SMT, <1>1, <1>2, <2>1
<1>5. ASSUME NEW w \in Nat
      PROVE  /\ Edge(n, w) \in Nat /\ Edge(n, w) <= W
             /\ Edge(n, w + 1) = Min2(Edge(n, w) + RangeSize, W)
             /\ Edge(n, w) < W => w < MaxTasks
  <2> DEFINE a == w * RangeSize
             b == (w + 1) * RangeSize
  <2>1. a \in Nat /\ b = a + RangeSize
    BY SMT, <1>1
  <2>2. Edge(n, w) = (IF a < W THEN a ELSE W) /\ Edge(n, w + 1) = IF b < W THEN b ELSE W
    BY SMT, <1>2
  <2>3. w >= MaxTasks => a >= RangeSize * MaxTasks
    <3>1. SUFFICES ASSUME w >= MaxTasks PROVE a >= RangeSize * MaxTasks
      OBVIOUS
    <3> DEFINE d == w - MaxTasks
    <3>2. d \in Nat /\ w = MaxTasks + d
      BY SMT, <1>1, <3>1
    <3>3. a = RangeSize * MaxTasks + d * RangeSize /\ d * RangeSize \in Nat /\ RangeSize * MaxTasks \in Nat
      BY SMT, <1>1, <3>2
    <3>. QED
      BY SMT, <3>3
  <2> HIDE DEF a, b
  <2>. QED
    BY SMT, <1>1, <2>1, <2>2, <2>3 DEF Min2
<1>. QED
  BY <1>1, <1>3, <1>4, <1>5 DEF W

\* Sum3 adds up, task by task.
LEMMA SumOfParts ==
  ASSUME NEW f \in [Slot -> Data], NEW S \in SUBSET Slot
  PROVE  \E sum \in [0 .. MaxTasks -> Nat] :
           /\ sum[0] = 0 /\ Sum3(f, S) = sum[MaxTasks]
           /\ \A w \in Slot : sum[w + 1] = sum[w] + (IF w \in S THEN f[w].len ELSE 0)
<1> DEFINE term(w) == IF w \in S THEN f[w].len ELSE 0
           Fill(s) == [w \in 0 .. MaxTasks |-> IF w = 0 THEN 0 ELSE s[w - 1] + term(w - 1)]
           sum == CHOOSE s : s = Fill(s)
<1>1. Sum3(f, S) = sum[MaxTasks]
  BY DEF Sum3
<1>2. MaxTasks \in Nat /\ \A w \in Slot : term(w) \in Nat
  BY SlicesAssumption DEF Data
<1>3. \A w \in 0 .. MaxTasks : w # 0 => w - 1 \in Slot /\ w - 1 \in 0 .. MaxTasks
  BY SMT, <1>2 DEF Slot
<1>3b. \A w \in Slot : w + 1 \in 0 .. MaxTasks /\ w + 1 # 0 /\ (w + 1) - 1 = w
  BY SMT, <1>2 DEF Slot
<1> HIDE DEF term
<1>4. \E s : s = Fill(s)
  <2> DEFINE T == {n \in Nat : n <= MaxTasks =>
                     \E s \in [0 .. MaxTasks -> Nat] :
                       \A w \in 0 .. MaxTasks : w <= n => s[w] = IF w = 0 THEN 0 ELSE s[w - 1] + term(w - 1)}
  <2>1. 0 \in T
    <3> DEFINE s == [w \in 0 .. MaxTasks |-> 0]
    <3>1. s \in [0 .. MaxTasks -> Nat] /\ \A w \in 0 .. MaxTasks : w <= 0 => s[w] = IF w = 0 THEN 0 ELSE s[w - 1] + term(w - 1)
      BY SMT, <1>2
    <3>. QED
      BY <3>1
  <2>2. ASSUME NEW n \in T, n + 1 <= MaxTasks
        PROVE  \E s \in [0 .. MaxTasks -> Nat] :
                 \A w \in 0 .. MaxTasks : w <= n + 1 => s[w] = IF w = 0 THEN 0 ELSE s[w - 1] + term(w - 1)
    <3>1. n \in Nat /\ n <= MaxTasks /\ n \in Slot
      BY SMT, <1>2, <2>2 DEF Slot
    <3>2. PICK s \in [0 .. MaxTasks -> Nat] :
            \A w \in 0 .. MaxTasks : w <= n => s[w] = IF w = 0 THEN 0 ELSE s[w - 1] + term(w - 1)
      BY <2>2, <3>1
    <3> DEFINE x == s[n] + term(n)
               t == [s EXCEPT ![n + 1] = x]
    <3>3. x \in Nat
      BY SMTT(30), <1>2, <3>1
    <3>4. t \in [0 .. MaxTasks -> Nat]
      BY <3>3
    <3>5. \A w \in 0 .. MaxTasks : w <= n => t[w] = s[w]
      BY SMT, <3>1
    <3>6. t[n + 1] = x
      BY SMT, <1>2, <2>2, <3>1
    <3>7. t[n] = s[n]
      BY SMT, <1>2, <3>1, <3>5
    <3> HIDE DEF t
    <3>8. ASSUME NEW w \in 0 .. MaxTasks, w <= n + 1
          PROVE  t[w] = IF w = 0 THEN 0 ELSE t[w - 1] + term(w - 1)
      <4>1. CASE w = n + 1
        <5>1. w - 1 = n /\ w # 0
          BY SMT, <3>1, <4>1
        <5>. QED
          BY <3>6, <3>7, <4>1, <5>1
      <4>2. CASE w = 0
        BY SMT, <3>1, <3>2, <3>5, <4>2
      <4>3. CASE w # 0 /\ w <= n
        <5>1. w - 1 \in 0 .. MaxTasks /\ w - 1 <= n
          BY SMT, <1>3, <3>1, <4>3
        <5>. QED
          BY <3>2, <3>5, <4>3, <5>1
      <4>. QED
        BY SMTT(30), <3>1, <3>8, <4>1, <4>2, <4>3
    <3>. QED
      BY <3>4, <3>8
  <2>3. T \in SUBSET Nat /\ \A n \in T : n + 1 \in T
    BY SMT, <2>2
  <2> HIDE DEF T
  <2>4. T = Nat
    BY <2>1, <2>3, SetInduction
  <2>4a. MaxTasks \in T
    BY <1>2, <2>4
  <2>5. PICK s \in [0 .. MaxTasks -> Nat] :
          \A w \in 0 .. MaxTasks : w <= MaxTasks => s[w] = IF w = 0 THEN 0 ELSE s[w - 1] + term(w - 1)
    BY SMTT(30), <1>2, <2>4a DEF T
  <2>6. s = Fill(s)
    BY SMT, <1>2, <2>5
  <2>. QED
    BY <2>6
<1>5. sum = Fill(sum)
  BY <1>4
<1> HIDE DEF sum
<1>6. sum = [w \in 0 .. MaxTasks |-> sum[w]] /\ sum[0] = 0
  BY SMT, <1>2, <1>5
<1>7. \A w \in Slot : sum[w + 1] = sum[w] + term(w)
  BY <1>3b, <1>5
<1>8. \A w \in 0 .. MaxTasks : sum[w] \in Nat
  <2> DEFINE T == {n \in Nat : n <= MaxTasks => sum[n] \in Nat}
  <2>1. 0 \in T
    BY SMT, <1>6
  <2>2. ASSUME NEW n \in T PROVE n + 1 \in T
    <3>1. SUFFICES ASSUME n + 1 <= MaxTasks PROVE sum[n + 1] \in Nat
      BY SMT
    <3>2. n \in Slot /\ sum[n] \in Nat
      BY SMT, <1>2, <3>1 DEF Slot
    <3>. QED
      BY SMT, <1>2, <1>7, <3>2
  <2> HIDE DEF T
  <2>3. T = Nat
    <3>1. T \in SUBSET Nat
      BY DEF T
    <3>. QED
      BY <2>1, <2>2, <3>1, SetInduction
  <2>. QED
    BY SMT, <1>2, <2>3 DEF T
<1>9. sum \in [0 .. MaxTasks -> Nat]
  BY <1>6, <1>8
<1>. QED
  BY <1>1, <1>6, <1>7, <1>9 DEF term

\* What the ranges got never adds up to more than what was asked for, and to
\* that only if each of them got all of its blocks: then no block is missing.
LEMMA RangesAddUp ==
  ASSUME TypeOK, Edge(len, index) = Wanted,
         \A w \in Used : /\ task[w].off = Edge(len, w) /\ task[w].buf.len = Edge(len, w + 1) - Edge(len, w)
                         /\ got[w].from = task[w].off /\ got[w].len <= task[w].buf.len
  PROVE  LET total3 == Sum3(got, Used)
         IN /\ total3 \in Nat /\ total3 <= Wanted
            /\ (\A w \in Used : got[w].len = task[w].buf.len) => total3 = Wanted
            /\ total3 = Wanted =>
                 \A p \in 0 .. Wanted - 1 : \E w \in Used : got[w].from <= p /\ p < got[w].from + got[w].len
<1> DEFINE E(w) == Edge(len, w)
<1>0. len \in Nat /\ got \in [Slot -> Data] /\ Used \in SUBSET Slot /\ index \in Nat /\ MaxTasks \in Nat
      /\ RangeSize \in Nat
  BY SMT, SlicesAssumption DEF TypeOK, Used
<1>1. /\ Wanted \in Nat /\ E(0) = 0 /\ E(MaxTasks) = Wanted
      /\ \A w \in Nat : /\ E(w) \in Nat /\ E(w) <= Wanted
                        /\ E(w + 1) = Min2(E(w) + RangeSize, Wanted)
  BY <1>0, Edges DEF Wanted
<1> HIDE DEF E
<1>3. \A w \in Nat : w >= index => E(w) = Wanted
  <2> DEFINE T == {n \in Nat : n >= index => E(n) = Wanted}
  <2>1. 0 \in T
    BY SMTT(30), <1>0 DEF E
  <2>2. ASSUME NEW n \in T PROVE n + 1 \in T
    <3>1. CASE n + 1 = index
      BY <1>0, <3>1 DEF E
    <3>2. CASE n >= index
      BY SMTT(30), <1>0, <1>1, <3>2 DEF Min2
    <3>. QED
      BY SMTT(30), <1>0, <3>1, <3>2
  <2> HIDE DEF T
  <2>3. T = Nat
    <3>1. T \in SUBSET Nat
      BY DEF T
    <3>. QED
      BY <2>1, <2>2, <3>1, SetInduction
  <2>. QED
    BY <2>3 DEF T
<1>4. PICK sum \in [0 .. MaxTasks -> Nat] :
           /\ sum[0] = 0 /\ Sum3(got, Used) = sum[MaxTasks]
           /\ \A w \in Slot : sum[w + 1] = sum[w] + (IF w \in Used THEN got[w].len ELSE 0)
  <2>1. got \in [Slot -> Data] /\ Used \in SUBSET Slot
    BY <1>0
  <2>. QED
    BY <2>1, SumOfParts
<1>5. ASSUME NEW w \in Slot
      PROVE  /\ w \in Nat /\ w + 1 \in 0 .. MaxTasks /\ w \in 0 .. MaxTasks
             /\ sum[w] \in Nat /\ sum[w + 1] \in Nat
             /\ sum[w + 1] <= sum[w] + (E(w + 1) - E(w))
             /\ w \in Used => got[w].from = E(w) /\ got[w].len \in Nat /\ sum[w + 1] = sum[w] + got[w].len
             /\ (\A v \in Used : got[v].len = task[v].buf.len) => sum[w + 1] = sum[w] + (E(w + 1) - E(w))
  <2>1. w \in Nat /\ w + 1 \in 0 .. MaxTasks /\ w \in 0 .. MaxTasks
    BY SMT, <1>0 DEF Slot
  <2>2. sum[w] \in Nat /\ sum[w + 1] \in Nat /\ got[w].len \in Nat
    BY <1>0, <2>1 DEF Data
  <2>3. E(w) \in Nat /\ E(w + 1) \in Nat
    BY SMTT(30), <1>1, <2>1
  <2>4. CASE w \in Used
    <3>1. sum[w + 1] = sum[w] + got[w].len /\ got[w].from = E(w) /\ task[w].buf.len = E(w + 1) - E(w)
          /\ got[w].len <= task[w].buf.len
      BY <1>4, <2>4 DEF E
    <3>2. task[w].buf.len \in Int
      BY SMT, <2>3, <3>1
    <3>3. sum[w + 1] <= sum[w] + (E(w + 1) - E(w))
      BY SMT, <2>2, <2>3, <3>1
    <3>. QED
      BY <2>1, <2>2, <2>3, <2>4, <3>1, <3>3
  <2>5. CASE w \notin Used
    <3>1. w >= index /\ w + 1 >= index /\ w + 1 \in Nat
      BY SMTT(30), <1>0, <2>1, <2>5 DEF Used
    <3>2. E(w) = E(w + 1)
      BY <1>3, <2>1, <3>1
    <3>3. sum[w + 1] = sum[w]
      BY SMT, <1>4, <2>2, <2>5
    <3>. QED
      BY SMT, <2>1, <2>2, <2>3, <2>5, <3>2, <3>3
  <2>. QED
    BY <2>4, <2>5
<1>6. \A n \in Nat : n <= MaxTasks => sum[n] <= E(n)
  <2> DEFINE T == {n \in Nat : n <= MaxTasks => sum[n] <= E(n)}
  <2>1. 0 \in T
    BY SMTT(30), <1>1, <1>4
  <2>2. ASSUME NEW n \in T, n + 1 <= MaxTasks PROVE sum[n + 1] <= E(n + 1)
    <3>1. n \in Slot /\ n \in Nat /\ n + 1 \in Nat /\ sum[n] <= E(n)
      BY SMT, <1>0, <2>2 DEF Slot
    <3>2. E(n) \in Nat /\ E(n + 1) \in Nat
      BY <1>1, <3>1
    <3>. QED
      BY SMTT(30), <1>5, <3>1, <3>2
  <2>3. T \in SUBSET Nat /\ \A n \in T : n + 1 \in T
    BY SMT, <2>2
  <2> HIDE DEF T
  <2>4. T = Nat
    BY <2>1, <2>3, SetInduction
  <2>. QED
    BY <2>4 DEF T
<1>7. ASSUME \A w \in Used : got[w].len = task[w].buf.len
      PROVE  sum[MaxTasks] = Wanted
  <2> DEFINE T == {n \in Nat : n <= MaxTasks => sum[n] = E(n)}
  <2>1. 0 \in T
    BY <1>1, <1>4
  <2>2. ASSUME NEW n \in T, n + 1 <= MaxTasks PROVE sum[n + 1] = E(n + 1)
    <3>1. n \in Slot /\ n \in Nat /\ n + 1 \in Nat /\ sum[n] = E(n)
      BY SMT, <1>0, <2>2 DEF Slot
    <3>2. E(n) \in Nat /\ E(n + 1) \in Nat
      BY <1>1, <3>1
    <3>. QED
      BY SMTT(30), <1>5, <1>7, <3>1, <3>2
  <2>3. T \in SUBSET Nat /\ \A n \in T : n + 1 \in T
    BY SMT, <2>2
  <2> HIDE DEF T
  <2>4. T = Nat
    BY <2>1, <2>3, SetInduction
  <2>5. MaxTasks \in T
    BY <1>0, <2>4
  <2>. QED
    BY SMT, <1>0, <1>1, <2>5 DEF T
<1>8. ASSUME sum[MaxTasks] = Wanted
      PROVE  \A n \in Nat : n <= MaxTasks => sum[n] = E(n)
  <2> DEFINE T == {k \in Nat : k <= MaxTasks => sum[MaxTasks - k] = E(MaxTasks - k)}
  <2>1. 0 \in T
    BY SMT, <1>0, <1>1, <1>8
  <2>2. ASSUME NEW k \in T, k + 1 <= MaxTasks PROVE sum[MaxTasks - (k + 1)] = E(MaxTasks - (k + 1))
    <3> DEFINE n == MaxTasks - (k + 1)
    <3>1. n \in Slot /\ n \in Nat /\ n + 1 = MaxTasks - k /\ n <= MaxTasks /\ k <= MaxTasks
      BY SMT, <1>0, <2>2 DEF Slot
    <3>2. sum[n + 1] = E(n + 1)
      BY <2>2, <3>1
    <3> HIDE DEF n
    <3>3. E(n) \in Nat /\ E(n + 1) \in Nat /\ sum[n] <= E(n)
      BY SMTT(30), <1>1, <1>6, <3>1
    <3>4. sum[n] = E(n)
      BY SMTT(30), <1>5, <3>1, <3>2, <3>3
    <3>. QED
      BY <3>4 DEF n
  <2>3. T \in SUBSET Nat /\ \A n \in T : n + 1 \in T
    BY SMT, <2>2
  <2> HIDE DEF T
  <2>4. T = Nat
    BY <2>1, <2>3, SetInduction
  <2>5. ASSUME NEW n \in Nat, n <= MaxTasks PROVE sum[n] = E(n)
    <3>1. MaxTasks - n \in T /\ MaxTasks - (MaxTasks - n) = n /\ MaxTasks - n <= MaxTasks
      BY SMTT(30), <1>0, <2>4, <2>5
    <3>. QED
      BY <3>1 DEF T
  <2>. QED
    BY <2>5
<1>9. \A p \in Nat : p < Wanted => \E w \in Slot : E(w) <= p /\ p < E(w + 1)
  <2> DEFINE Held(p) == \E w \in Slot : E(w) <= p /\ p < E(w + 1)
             T == {n \in Nat : n <= MaxTasks => \A p \in Nat : p < E(n) => Held(p)}
  <2>1. 0 \in T
    BY SMT, <1>1
  <2>2. ASSUME NEW n \in T, n + 1 <= MaxTasks, NEW p \in Nat, p < E(n + 1)
        PROVE  Held(p)
    <3>0. n \in Slot /\ n \in Nat /\ n <= MaxTasks
      BY SMT, <1>0, <2>2 DEF Slot
    <3>1. n \in Slot /\ n \in Nat /\ E(n) \in Nat /\ n <= MaxTasks
      BY <1>1, <3>0
    <3>2. CASE p < E(n)
      BY <2>2, <3>1, <3>2
    <3>3. CASE ~(p < E(n))
      BY SMTT(30), <2>2, <3>1, <3>3
    <3>. QED
      BY <3>2, <3>3
  <2> HIDE DEF Held
  <2>3. T \in SUBSET Nat /\ \A n \in T : n + 1 \in T
    BY SMT, <2>2
  <2> HIDE DEF T
  <2>4. T = Nat
    BY <2>1, <2>3, SetInduction
  <2>5. MaxTasks \in T
    BY <1>0, <2>4
  <2>6. \A p \in Nat : p < Wanted => Held(p)
    BY SMT, <1>0, <1>1, <2>5 DEF T
  <2>. QED
    BY <2>6 DEF Held
<1>10. ASSUME sum[MaxTasks] = Wanted, NEW p \in 0 .. Wanted - 1
       PROVE  \E w \in Used : got[w].from <= p /\ p < got[w].from + got[w].len
  <2>1. p \in Nat /\ p < Wanted
    BY SMT, <1>1
  <2>2. PICK w \in Slot : E(w) <= p /\ p < E(w + 1)
    BY <1>9, <2>1
  <2>3. w \in Nat /\ w <= MaxTasks /\ w + 1 <= MaxTasks /\ w + 1 \in Nat
    BY SMT, <1>0, <2>2 DEF Slot
  <2>4. sum[w] = E(w) /\ sum[w + 1] = E(w + 1) /\ E(w) \in Nat /\ E(w + 1) \in Nat
    BY <1>1, <1>8, <1>10, <2>3
  <2>5. w \in Used
    <3>1. E(w) # Wanted
      BY SMT, <1>1, <2>1, <2>2, <2>4
    <3>. QED
      BY SMTT(30), <1>0, <1>3, <2>3, <3>1 DEF Used
  <2>6. got[w].from = E(w) /\ got[w].len \in Nat /\ E(w + 1) = E(w) + got[w].len
    BY <1>5, <2>4, <2>5
  <2>. QED
    BY <2>1, <2>2, <2>4, <2>5, <2>6
<1>11. sum[MaxTasks] \in Nat /\ sum[MaxTasks] <= Wanted
  BY SMT, <1>0, <1>1, <1>6
<1>. QED
  BY <1>4, <1>7, <1>10, <1>11

-----------------------------------------------------------------------------
TaskType == [st : {"idle", "queued", "running", "ok", "bad"}, off : Nat, buf : Data,
             param : Nat, loop : 0 .. 2,
             resp : {"none", "good", "error", "garbage", "old", "new"}]

LEMMA Flags == TypeOK /\ [Next]_vars => valid' \in BOOLEAN /\ doubt' \in BOOLEAN /\ changed' \in BOOLEAN
<1> SUFFICES ASSUME TypeOK, [Next]_vars PROVE valid' \in BOOLEAN /\ doubt' \in BOOLEAN /\ changed' \in BOOLEAN
  OBVIOUS
<1>0. valid \in BOOLEAN /\ doubt \in BOOLEAN /\ changed \in BOOLEAN
  BY DEF TypeOK
<1>1. CASE Main
  BY <1>0, <1>1 DEF Main, Invalid, Single, SliceInit, ReadSlice, ReadOver, Collect, SliceFinish, Purge,
     Split, NothingToFetch, Fetch, transfer, download
<1>2. CASE \E w \in Slot : Worker(w)
  BY <1>0, <1>2 DEF Worker, Take, UploadTask, DownloadTask, transfer, download
<1>3. CASE Replace
  BY <1>0, <1>3 DEF Replace
<1>4. CASE UNCHANGED vars
  BY <1>0, <1>4 DEF vars
<1>. QED
  BY <1>1, <1>2, <1>3, <1>4 DEF Next

\* A turn of uploadTask is the first or the second of its task.
LEMMA SecondTurn ==
  ASSUME NEW t \in TaskType, t.loop <= 1, NEW resp \in {"good", "error", "garbage"}
  PROVE  /\ Noted(t, resp) \in TaskType /\ Noted(t, resp).resp = resp
         /\ Noted(t, resp).st = "running" => Noted(t, resp).loop <= 1
<1> DEFINE n == t.loop + 1
           x == IF resp # "error" THEN "ok" ELSE IF t.loop < 1 THEN "running" ELSE "bad"
<1>1. n \in 0 .. 2 /\ x \in {"ok", "running", "bad"} /\ (x = "running" => n <= 1)
  BY SMT DEF TaskType
<1>2. Noted(t, resp) = [t EXCEPT !.resp = resp, !.loop = n, !.st = x]
  BY DEF Noted
<1> HIDE DEF n, x
<1>3. Noted(t, resp) \in TaskType
  BY <1>1, <1>2 DEF TaskType
<1>4. Noted(t, resp).resp = resp /\ Noted(t, resp).st = x /\ Noted(t, resp).loop = n
  BY <1>1, <1>2 DEF TaskType
<1>. QED
  BY <1>1, <1>3, <1>4

\* One task object changes.
LEMMA OneTask ==
  ASSUME task \in [Slot -> TaskType], NEW w \in Slot, NEW t \in TaskType, task' = [task EXCEPT ![w] = t]
  PROVE  /\ task' \in [Slot -> TaskType] /\ task'[w] = t
         /\ \A v \in Slot : v # w => task'[v] = task[v]
OBVIOUS

LEMMA ReceivedInit == Init => RInv
<1> SUFFICES ASSUME Init PROVE RInv
  OBVIOUS
<1>1. /\ NoData \in Data /\ 0 \in 0 .. 2 /\ 0 \in 0 .. MaxTasks /\ 2 \in 1 .. 2 /\ 0 \in 0 .. MaxFaults
      /\ MaxTasks \in Nat
  BY SMT, SlicesAssumption DEF NoData, Data
<1>2. Fresh \in TaskType /\ Fresh.st = "idle" /\ Fresh.resp = "none"
  BY <1>1 DEF Fresh, TaskType
<1>3. valid \in BOOLEAN /\ doubt \in BOOLEAN /\ changed \in BOOLEAN
  BY DEF Init
<1>4. task \in [Slot -> TaskType] /\ got \in [Slot -> Data]
  BY <1>1, <1>2 DEF Init
<1>5. object \in [ver : {"absent", "old", "new", "damaged"}, len : Nat]
  BY SMTT(30), SlicesAssumption DEF Init, Absent, Version
<1>6. TypeOK
  BY SMTT(30), <1>1, <1>3, <1>4, <1>5 DEF Init, TypeOK, TaskType
<1>7. ASSUME kind = "down" PROVE Ranges
  <2>1. len \in Nat /\ Wanted \in Nat /\ Edge(len, 0) = 0
    BY Edges, <1>6, SlicesAssumption DEF TypeOK, Wanted
  <2>2. \A w \in Slot : ~(w < 0) /\ task[w].st = "idle"
    BY SMTT(30), <1>2, SlotsAreNumbers DEF Init
  <2>3. object.len = len /\ object.ver = "old"
    BY SMT, <1>7 DEF Init, Version
  <2>. QED
    BY SMTT(30), <1>1, <2>1, <2>2, <2>3 DEF Init, Ranges, Busy
<1>8. ASSUME kind = "up" PROVE Rounds
  <2>1. \A w \in Slot : task[w].resp = "none" /\ task[w].st = "idle"
    BY <1>2 DEF Init
  <2>2. len \in Nat
    BY <1>6, SlicesAssumption DEF TypeOK
  <2>. QED
    BY SMT, <2>1, <2>2 DEF Init, Rounds
<1>. QED
  BY <1>6, <1>7, <1>8 DEF Init, RInv

\* The steps of an upload.
LEMMA RoundsNext ==
  ASSUME TypeOK, kind = "up", Rounds, [Next]_vars
  PROVE  kind' = "up" /\ TypeOK' /\ Rounds'
<1>0. /\ MaxTasks \in Nat /\ len \in Nat /\ offset \in Nat /\ index \in Nat /\ Pool \in Nat /\ Pool <= MaxTasks /\ Pool >= 1
      /\ SingleSize >= 1 /\ SingleSize \in Nat /\ task \in [Slot -> TaskType] /\ pool \in Nat
  BY SMT, SlicesAssumption DEF TypeOK, TaskType
<1>a. valid' \in BOOLEAN /\ doubt' \in BOOLEAN /\ changed' \in BOOLEAN
  BY Flags
<1>b. Absent \in [ver : {"absent", "old", "new", "damaged"}, len : Nat]
      /\ \A v \in {"new", "damaged"} : Version(v, len) \in [ver : {"absent", "old", "new", "damaged"}, len : Nat]
  BY <1>0 DEF Absent, Version
<1>c. Answered \/ Fault => faults' \in 0 .. MaxFaults
  <2>1. faults \in 0 .. MaxFaults /\ MaxFaults \in Nat
    BY SlicesAssumption DEF TypeOK
  <2>. QED
    BY SMT, <2>1 DEF Answered, Fault
<1>1. CASE Invalid
  BY SMT, <1>0, <1>1, <1>a DEF Invalid, Bad, TypeOK, Rounds, transfer, download
<1>2. CASE Single
  BY <1>0, <1>2, <1>a, <1>b, <1>c DEF Single, Good, Bad, Commit, TypeOK, Rounds, transfer, download
<1>3. CASE SliceInit
  <2>1. pool' \in Nat /\ (pc' = "read" => pool' \in 1 .. MaxTasks)
    BY SMT, <1>0, <1>3 DEF SliceInit, Good, Bad, TypeOK
  <2>2. TypeOK'
    <3>1. faults' \in 0 .. MaxFaults
      BY <1>3, <1>c DEF SliceInit
    <3>2. object' \in [ver : {"absent", "old", "new", "damaged"}, len : Nat]
      BY <1>3, <1>b DEF SliceInit, Commit, TypeOK
    <3>3. pc' \in {"read", "purge", "done"} /\ result' \in {"none", "ok", "failed"} /\ parts' = parts
      BY <1>3 DEF SliceInit, Good, Bad, TypeOK
    <3>4. index' <= pool'
      BY SMT, <1>0, <1>3, <2>1 DEF SliceInit, Rounds
    <3>. QED
      BY <1>3, <1>a, <2>1, <3>1, <3>2, <3>3, <3>4 DEF SliceInit, TypeOK, transfer, download
  <2>3. Rounds'
    <3>1. offset < len
      BY SMT, <1>0, <1>3 DEF SliceInit, Rounds
    <3>. QED
      BY <1>0, <1>3, <2>1, <3>1 DEF SliceInit, Good, Bad, Rounds
  <2>. QED
    BY <1>3, <2>2, <2>3 DEF SliceInit
<1>4. CASE ReadSlice
  <2> DEFINE n == Min2(SliceSize, len - offset)
             new == [task[index] EXCEPT !.st = "queued", !.off = offset,
                                        !.buf = [from |-> offset, len |-> n]]
  <2>0. pool <= MaxTasks /\ offset <= len
    BY SMT, <1>0, <1>4 DEF ReadSlice, Rounds
  <2>1. n \in Nat /\ n > 0 /\ offset + n <= len /\ index \in Slot /\ index + 1 <= pool /\ pool <= MaxTasks
    <3>1. n > 0 /\ index < pool
      BY <1>4 DEF ReadSlice
    <3>2. SliceSize \in Nat /\ len \in Nat /\ offset \in Nat /\ index \in Nat /\ pool \in Nat /\ MaxTasks \in Nat
      BY <1>0, SlicesAssumption
    <3>. QED
      BY SMT, <2>0, <3>1, <3>2 DEF Min2, Slot
  <2>2. /\ offset' = offset + n /\ index' = index + 1 /\ task' = [task EXCEPT ![index] = new] /\ pc = "read"
        /\ UNCHANGED <<kind, pc, len, pool, taskResp, parts, object, got, total, trytime, result, faults>>
    BY <1>4 DEF ReadSlice, transfer, download
  <2>3. new \in TaskType /\ new.st = "queued" /\ new.resp = task[index].resp
    BY <1>0, <2>1 DEF TaskType, Data
  <2> HIDE DEF n, new
  <2>4. task' \in [Slot -> TaskType] /\ task'[index] = new /\ \A v \in Slot : v # index => task'[v] = task[v]
    BY <1>0, <2>1, <2>2, <2>3, OneTask
  <2>5. TypeOK'
    BY SMTT(30), <1>0, <1>a, <2>1, <2>2, <2>4 DEF TypeOK, TaskType
  <2>6. Rounds'
    BY SMTT(30), <1>0, <2>1, <2>2, <2>3, <2>4 DEF Rounds
  <2>. QED
    BY <2>2, <2>5, <2>6
<1>5. CASE ReadOver
  <2>1. index > 0
    BY SMTT(30), <1>0, <1>5 DEF ReadOver, Rounds
  <2>. QED
    BY <1>0, <1>5, <1>a, <2>1 DEF ReadOver, TypeOK, Rounds, transfer, download
<1>6. CASE Collect
  <2>1. index > 0 /\ index - 1 \in Slot /\ index <= MaxTasks
    BY SMT, <1>0, <1>6 DEF Collect, Rounds, Slot, TypeOK
  <2>2. task[index - 1].resp \in {"none", "good", "error", "garbage"}
    BY <1>0, <2>1 DEF Rounds, TaskType
  <2>3. taskResp' \in {"none", "good", "error", "garbage"}
    BY <1>6, <2>2 DEF Collect, TypeOK
  <2>4. index' = 0 /\ pc' \in {"finish", "read"} /\ (pc' = "read" => offset < len) /\ pc = "wait"
        /\ UNCHANGED <<kind, len, offset, pool, task, parts, object, got, total, trytime, result, faults>>
    BY SMT, <1>0, <1>6 DEF Collect, transfer, download
  <2>. QED
    BY SMTT(30), <1>0, <1>a, <2>3, <2>4 DEF TypeOK, Rounds
<1>7. CASE SliceFinish
  <2>1. Assembled \in [ver : {"absent", "old", "new", "damaged"}, len : Nat]
    BY <1>b DEF Assembled
  <2>2. /\ faults' \in 0 .. MaxFaults /\ object' \in {object, Assembled}
        /\ (pc' = "done" /\ result' = "ok") \/ (pc' = "purge" /\ result' = result)
        /\ UNCHANGED <<kind, len, offset, index, pool, task, taskResp, parts, got, total, trytime>>
    BY <1>7, <1>c DEF SliceFinish, Good, Bad, transfer, download
  <2>. QED
    BY <1>0, <1>a, <2>1, <2>2 DEF TypeOK, Rounds
<1>8. CASE Purge
  BY <1>0, <1>8, <1>a, <1>b, <1>c DEF Purge, TypeOK, Rounds, transfer, download
<1>9. ASSUME NEW w \in Slot, Take(w) PROVE kind' = "up" /\ TypeOK' /\ Rounds'
  <2> DEFINE new == [task[w] EXCEPT !.st = "running", !.param = task[w].off, !.loop = 0, !.resp = "none"]
  <2>1. task' = [task EXCEPT ![w] = new]
        /\ UNCHANGED <<kind, pc, len, offset, index, pool, taskResp, parts, object, got, total, trytime, result, faults>>
    BY <1>9 DEF Take, transfer, download
  <2>a. task[w] \in TaskType /\ 0 \in 0 .. 2 /\ 0 <= 1
    BY SMT, <1>0
  <2>2. new \in TaskType /\ new.resp = "none" /\ new.loop = 0
    BY <2>a DEF TaskType
  <2> HIDE DEF new
  <2>3. task' \in [Slot -> TaskType] /\ task'[w] = new /\ \A v \in Slot : v # w => task'[v] = task[v]
    BY <1>0, <2>1, <2>2, OneTask
  <2>. QED
    BY SMTT(30), <1>0, <1>a, <2>1, <2>2, <2>3 DEF TypeOK, TaskType, Rounds
<1>10. ASSUME NEW w \in Slot, UploadTask(w) PROVE kind' = "up" /\ TypeOK' /\ Rounds'
  <2>1. PICK resp \in {"good", "error", "garbage"} :
          /\ (IF resp = "good" THEN Answered ELSE Fault)
          /\ parts' = parts \cup {Slice(w)} \/ (resp # "good" /\ UNCHANGED parts)
          /\ task' = [task EXCEPT ![w] = Noted(task[w], resp)]
    BY <1>10 DEF UploadTask
  <2>2. task[w] \in TaskType /\ task[w].loop <= 1
    BY <1>0, <1>10 DEF UploadTask, Rounds
  <2> DEFINE new == Noted(task[w], resp)
  <2>3. new \in TaskType /\ new.resp = resp /\ (new.st = "running" => new.loop <= 1)
    BY <2>2, SecondTurn
  <2>4. task' = [task EXCEPT ![w] = new]
    BY <2>1
  <2> HIDE DEF new
  <2>5. task' \in [Slot -> TaskType] /\ task'[w] = new /\ \A v \in Slot : v # w => task'[v] = task[v]
    BY <1>0, <2>3, <2>4, OneTask
  <2>6. parts' \subseteq [off : Nat, data : Data]
    BY SMT, <2>1, <2>2 DEF TypeOK, Slice, TaskType
  <2>7. faults' \in 0 .. MaxFaults
        /\ UNCHANGED <<kind, pc, len, offset, index, pool, taskResp, object, got, total, trytime, result>>
    BY <1>10, <1>c, <2>1 DEF UploadTask, download
  <2>. QED
    BY SMTT(30), <1>0, <1>a, <2>3, <2>5, <2>6, <2>7 DEF TypeOK, TaskType, Rounds
<1>11. CASE UNCHANGED vars
  BY SMTT(30), <1>0, <1>11, <1>a DEF vars, TypeOK, Rounds
<1>12. ~(\/ Split \/ NothingToFetch \/ Fetch \/ Replace \/ \E w \in Slot : DownloadTask(w))
  BY DEF Split, NothingToFetch, Fetch, Replace, DownloadTask
<1>. QED
  BY <1>1, <1>2, <1>3, <1>4, <1>5, <1>6, <1>7, <1>8, <1>9, <1>10, <1>11, <1>12
     DEF Next, Main, Worker

\* The steps of a download, and of the session that changes the object.
LEMMA RangesNext ==
  ASSUME TypeOK, kind = "down", Ranges, [Next]_vars
  PROVE  kind' = "down" /\ TypeOK' /\ Ranges'
<1>0. /\ MaxTasks \in Nat /\ len \in Nat /\ offset \in Nat /\ index \in Nat /\ RangeSize \in Nat /\ RangeSize >= 1
      /\ task \in [Slot -> TaskType] /\ pool \in Nat /\ got \in [Slot -> Data] /\ Cores \in Nat
  BY SMTT(30), SlicesAssumption DEF TypeOK, TaskType
<1>a. valid' \in BOOLEAN /\ doubt' \in BOOLEAN /\ changed' \in BOOLEAN
  BY Flags
<1>b. /\ Wanted \in Nat /\ Wanted <= len /\ Edge(len, 0) = 0
      /\ \A w \in Nat : /\ Edge(len, w) \in Nat /\ Edge(len, w) <= Wanted
                        /\ Edge(len, w + 1) = Min2(Edge(len, w) + RangeSize, Wanted)
                        /\ Edge(len, w) < Wanted => w < MaxTasks
  BY <1>0, Edges DEF Wanted
<1>c. Answered \/ Fault => faults' \in 0 .. MaxFaults
  BY SMT, SlicesAssumption DEF TypeOK, Answered, Fault
<1>d. len' = len => Wanted' = Wanted
  BY DEF Wanted
<1>e. \A w \in Slot : w \in Nat /\ task[w] \in TaskType /\ got[w] \in Data
  BY <1>0, SlotsAreNumbers
<1>1. CASE Invalid
  BY <1>0, <1>1, <1>a, <1>d DEF Invalid, TypeOK, Ranges, Ranged, Busy, Used, transfer, download
<1>2. CASE NothingToFetch
  <2>1. index = 0 /\ offset = 0 /\ Wanted = 0 /\ total = 0 /\ pc = "start"
    BY SMT, <1>0, <1>2, <1>b DEF NothingToFetch, Ranges
  <2>2. Used = {}
    BY SMT, <1>e, <2>1 DEF Used
  <2>3. Sum3(got, Used) \in Nat /\ Sum3(got, Used) <= Wanted
    BY <1>b, <2>1, <2>2, RangesAddUp
  <2>4. pc' = "done" /\ result' = "ok"
        /\ UNCHANGED <<kind, len, offset, index, pool, task, taskResp, parts, object, got, total, trytime, changed, faults>>
    BY <1>2 DEF NothingToFetch, transfer, download
  <2>5. Used' = Used /\ total' = Sum3(got', Used')
    <3>1. Used' = Used
      BY <2>4 DEF Used
    <3>. QED
      BY SMT, <2>1, <2>3, <2>4, <3>1
  <2>6. TypeOK'
    BY <1>a, <2>4 DEF TypeOK
  <2>7. Ranges'
    BY <1>d, <2>1, <2>2, <2>4, <2>5 DEF Ranges, Ranged, Busy
  <2>. QED
    BY <2>4, <2>6, <2>7
<1>3. CASE Split
  <2> DEFINE end == Min2(offset + RangeSize, Wanted)
             new == [Fresh EXCEPT !.st = "queued", !.off = offset, !.buf = [from |-> offset, len |-> end - offset]]
  <2>1. /\ pc = "start" /\ Wanted > 0 /\ offset' = end /\ task' = [task EXCEPT ![index] = new] /\ index' = index + 1
        /\ pc' = (IF end = Wanted THEN "wait" ELSE "start") /\ pool' = Cores
        /\ UNCHANGED <<kind, len, taskResp, parts, object, got, total, trytime, changed, result, faults>>
    BY <1>3 DEF Split, transfer, download
  <2>2. offset < Wanted /\ index < MaxTasks /\ offset = Edge(len, index)
    BY <1>0, <1>b, <2>1 DEF Ranges
  <2>3. index \in Slot /\ index + 1 \in 0 .. MaxTasks
    BY SMT, <1>0, <2>2 DEF Slot
  <2>4. end = Edge(len, index + 1) /\ end \in Nat /\ end <= Wanted /\ end - offset \in Nat
    <3>1. end = Edge(len, index + 1) /\ end \in Nat
      BY SMT, <1>0, <1>b, <2>2
    <3>. QED
      BY SMTT(30), <1>0, <1>b, <2>2, <3>1 DEF Min2
  <2>5. new \in TaskType /\ new.st = "queued" /\ new.off = offset /\ new.buf.len = end - offset
    <3>1. 0 \in 0 .. 2
      BY SMT
    <3>. QED
      BY <1>0, <2>4, <3>1 DEF Fresh, TaskType, Data, NoData
  <2> HIDE DEF end, new
  <2>6. task' \in [Slot -> TaskType] /\ task'[index] = new /\ \A v \in Slot : v # index => task'[v] = task[v]
    BY <1>0, <2>1, <2>3, <2>5, OneTask
  <2>7. TypeOK'
    BY <1>0, <1>a, <2>1, <2>3, <2>4, <2>6 DEF TypeOK, TaskType
  <2>8. ASSUME NEW w \in Slot, w < index' PROVE Ranged(w)'
    <3>1. CASE w = index
      BY <1>0, <2>1, <2>2, <2>4, <2>5, <2>6, <3>1 DEF Ranged
    <3>2. CASE w # index
      <4>1. w < index /\ task'[w] = task[w]
        BY SMT, <1>0, <1>e, <2>1, <2>6, <2>8, <3>2
      <4>. QED
        BY <2>1, <4>1 DEF Ranges, Ranged
    <3>. QED
      BY <3>1, <3>2
  <2>9. ASSUME NEW w \in Slot, w >= index' PROVE ~Busy(w)'
    <3>1. w >= index /\ w # index
      BY SMTT(30), <1>0, <1>e, <2>1, <2>9
    <3>. QED
      BY <2>6, <3>1 DEF Ranges, Busy
  <2>10. /\ pc' \in {"start", "wait"} /\ (pc' = "wait" => offset' = Wanted') /\ (pc' = "start" => offset' < Wanted')
         /\ offset' = Edge(len', index')
    <3>1. (end = Wanted \/ end < Wanted) /\ Wanted' = Wanted
      BY SMTT(30), <1>b, <1>d, <2>1, <2>4
    <3>. QED
      BY <2>1, <2>4, <3>1
  <2>11. result' = "none" /\ total' = 0 /\ (object'.len # 0 => object'.ver \in {"old", "new"}) /\ (~changed' => object'.len = len')
    BY <2>1 DEF Ranges
  <2>12. Ranges'
    BY <2>8, <2>9, <2>10, <2>11 DEF Ranges
  <2>. QED
    BY <2>1, <2>7, <2>12
<1>4. CASE Fetch
  <2>0. /\ pc = "wait" /\ offset = Wanted /\ result = "none" /\ Idle
        /\ UNCHANGED <<kind, len, pool, taskResp, parts, object, doubt, changed, faults, task, got>>
    BY <1>4 DEF Fetch, Ranges
  <2>1. CASE Failed = {} /\ total' = Sum3(got, Used) /\ pc' = "done" /\ result' = "ok" /\ UNCHANGED <<offset, index, trytime>>
    <3>1. \A w \in Used : task[w].st = "ok"
      BY <1>e, <2>0, <2>1 DEF Failed, Used, Idle, Ranges, Ranged, TaskType
    <3>2. \A w \in Used : /\ task[w].off = Edge(len, w) /\ task[w].buf.len = Edge(len, w + 1) - Edge(len, w)
                          /\ got[w].from = task[w].off /\ got[w].len <= task[w].buf.len
      BY <3>1 DEF Used, Ranges, Ranged
    <3>3. Edge(len, index) = Wanted
      BY <2>0 DEF Ranges
    <3>4. total' \in Nat
      BY <2>1, <3>2, <3>3, RangesAddUp
    <3>5. Used' = Used
      BY <2>1 DEF Used
    <3>6. TypeOK'
      BY <1>a, <2>0, <2>1, <3>4 DEF TypeOK
    <3>7. Ranges'
      BY <1>d, <2>0, <2>1, <3>1, <3>5 DEF Ranges, Ranged, Busy
    <3>. QED
      BY <2>0, <3>6, <3>7
  <2>2. CASE Failed # {} /\ trytime > 1 /\ trytime' = trytime - 1 /\ pc' = "start" /\ offset' = 0 /\ index' = 0
             /\ UNCHANGED <<total, result>>
    <3>1. trytime' \in 1 .. 2 /\ 0 \in 0 .. MaxTasks
      BY SMTT(30), <1>0, <2>2 DEF TypeOK
    <3>2. TypeOK'
      BY <1>a, <2>0, <2>2, <3>1 DEF TypeOK
    <3>3. \A w \in Slot : ~(w < 0) /\ ~Busy(w)
      BY SMTT(30), <1>e, <2>0 DEF Idle, Busy
    <3>4. Ranges'
      BY SMTT(30), <1>b, <1>d, <2>0, <2>2, <3>3 DEF Ranges, Busy
    <3>. QED
      BY <2>0, <3>2, <3>4
  <2>3. CASE Failed # {} /\ trytime = 1 /\ pc' = "done" /\ result' = "failed" /\ UNCHANGED <<offset, index, total, trytime>>
    BY <1>a, <1>d, <2>0, <2>3 DEF TypeOK, Ranges, Ranged, Busy
  <2>. QED
    BY <1>4, <2>1, <2>2, <2>3 DEF Fetch
<1>5. ASSUME NEW w \in Slot, Take(w) PROVE kind' = "down" /\ TypeOK' /\ Ranges'
  <2> DEFINE new == [task[w] EXCEPT !.st = "running", !.param = task[w].off, !.loop = 0, !.resp = "none"]
  <2>1. task' = [task EXCEPT ![w] = new] /\ task[w].st = "queued"
        /\ UNCHANGED <<kind, pc, len, offset, index, pool, taskResp, parts, object, got, total, trytime, result, faults, changed>>
    BY <1>5 DEF Take, transfer, download
  <2>2. task[w] \in TaskType /\ 0 \in 0 .. 2
    BY SMT, <1>0
  <2>3. new \in TaskType /\ new.st = "running" /\ new.off = task[w].off /\ new.buf = task[w].buf /\ new.param = new.off
    BY <2>2 DEF TaskType
  <2> HIDE DEF new
  <2>4. task' \in [Slot -> TaskType] /\ task'[w] = new /\ \A v \in Slot : v # w => task'[v] = task[v]
    BY <1>0, <2>1, <2>3, OneTask
  <2>5. TypeOK'
    BY <1>0, <1>a, <2>1, <2>4 DEF TypeOK, TaskType
  <2>6. w < index
    BY SMT, <1>0, <1>e, <2>1 DEF Ranges, Busy
  <2>7. ASSUME NEW v \in Slot, v < index PROVE Ranged(v)'
    <3>1. CASE v = w
      BY <2>1, <2>3, <2>4, <2>7, <3>1 DEF Ranges, Ranged
    <3>2. CASE v # w
      BY <2>1, <2>4, <2>7, <3>2 DEF Ranges, Ranged
    <3>. QED
      BY <3>1, <3>2
  <2>8. ASSUME NEW v \in Slot, v >= index PROVE ~Busy(v)'
    BY SMTT(30), <1>0, <1>e, <2>4, <2>6, <2>8 DEF Ranges, Busy
  <2>9. ~(pc = "done" /\ result = "ok")
    BY <2>1, <2>6 DEF Ranges, Used
  <2>10. Ranges'
    BY <1>d, <2>1, <2>7, <2>8, <2>9 DEF Ranges
  <2>. QED
    BY <2>1, <2>5, <2>10
<1>6. ASSUME NEW w \in Slot, DownloadTask(w) PROVE kind' = "down" /\ TypeOK' /\ Ranges'
  <2> DEFINE a == task[w].param
             n == Min2(task[w].buf.len, object.len - a)
  <2>1. /\ task[w].st = "running"
        /\ UNCHANGED <<kind, pc, len, offset, index, pool, taskResp, parts, object, total, trytime, changed, result>>
    BY <1>6 DEF DownloadTask
  <2>2. w < index
    BY SMT, <1>0, <1>e, <2>1 DEF Ranges, Busy
  <2>3. a = task[w].off /\ Ranged(w) /\ a \in Nat /\ task[w].buf.len \in Nat /\ object.len \in Nat
    BY <1>e, <2>1, <2>2 DEF Ranges, Ranged, TaskType, Data, TypeOK
  <2>4. a + task[w].buf.len <= len
    <3> DEFINE x == Edge(len, w)
               y == Edge(len, w + 1)
    <3>1. x \in Nat /\ y \in Nat /\ y <= Wanted
      BY SMT, <1>b, <1>e
    <3>2. a = x /\ task[w].buf.len = y - x
      BY <2>3 DEF Ranged
    <3> HIDE DEF x, y
    <3>. QED
      BY SMTT(30), <1>0, <1>b, <2>3, <3>1, <3>2
  <2>5. PICK g \in Data, st \in {"ok", "bad"}, resp \in {"none", "good", "error", "garbage", "old", "new"} :
          /\ got' = [got EXCEPT ![w] = g]
          /\ task' = [task EXCEPT ![w] = [task[w] EXCEPT !.st = st, !.resp = resp]]
          /\ st = "ok" => g.from = a /\ g.len <= task[w].buf.len /\ (~changed => g.len = task[w].buf.len)
          /\ faults' \in 0 .. MaxFaults
    <3>1. CASE /\ Answered /\ a < object.len
               /\ got' = [got EXCEPT ![w] = [from |-> a, len |-> n]]
               /\ task' = [task EXCEPT ![w] = [task[w] EXCEPT !.st = "ok", !.resp = object.ver]]
      <4> DEFINE g == [from |-> a, len |-> n]
      <4>1. n \in Nat /\ n <= task[w].buf.len
        BY SMT, <2>3, <3>1 DEF Min2
      <4>2. ~changed => n = task[w].buf.len
        BY SMTT(30), <1>0, <2>3, <2>4, <3>1 DEF Min2, Ranges
      <4>3. object.ver \in {"old", "new"}
        BY SMT, <2>3, <3>1 DEF Ranges
      <4>4. g \in Data /\ g.from = a /\ g.len = n
        BY <2>3, <4>1 DEF Data
      <4>5. faults' \in 0 .. MaxFaults
        BY <1>c, <3>1
      <4> HIDE DEF n, a
      <4>6. got' = [got EXCEPT ![w] = g]
        BY <3>1
      <4> HIDE DEF g
      <4>. QED
        BY <3>1, <4>1, <4>2, <4>3, <4>4, <4>5, <4>6
    <3>2. CASE /\ (a >= object.len /\ Answered) \/ Fault
               /\ got' = [got EXCEPT ![w] = NoData]
               /\ task' = [task EXCEPT ![w] = [task[w] EXCEPT !.st = "bad"]]
      <4>1. NoData \in Data
        BY DEF NoData, Data
      <4>2. faults' \in 0 .. MaxFaults
        BY <1>c, <3>2
      <4>3. [task[w] EXCEPT !.st = "bad"] = [task[w] EXCEPT !.st = "bad", !.resp = task[w].resp]
            /\ task[w].resp \in {"none", "good", "error", "garbage", "old", "new"}
        BY <1>e DEF TaskType
      <4>4. task' = [task EXCEPT ![w] = [task[w] EXCEPT !.st = "bad", !.resp = task[w].resp]]
        BY <3>2, <4>3
      <4> HIDE DEF n, a
      <4>. QED
        BY <3>2, <4>1, <4>2, <4>3, <4>4
    <3>. QED
      BY <1>6, <3>1, <3>2 DEF DownloadTask
  <2> DEFINE new == [task[w] EXCEPT !.st = st, !.resp = resp]
  <2>6. new \in TaskType /\ new.st = st /\ new.off = task[w].off /\ new.buf = task[w].buf
    BY <1>e DEF TaskType
  <2>7. task' = [task EXCEPT ![w] = new]
    BY <2>5
  <2> HIDE DEF new, n, a
  <2>8. task' \in [Slot -> TaskType] /\ task'[w] = new /\ \A v \in Slot : v # w => task'[v] = task[v]
    BY <1>0, <2>6, <2>7, OneTask
  <2>9. got' \in [Slot -> Data] /\ got'[w] = g /\ \A v \in Slot : v # w => got'[v] = got[v]
    BY <1>0, <2>5
  <2>10. TypeOK'
    BY SMTT(30), <1>0, <1>a, <2>1, <2>5, <2>8, <2>9 DEF TypeOK, TaskType
  <2>11. ASSUME NEW v \in Slot, v < index PROVE Ranged(v)'
    <3>1. CASE v = w
      BY SMTT(30), <2>1, <2>3, <2>5, <2>6, <2>8, <2>9, <2>11, <3>1 DEF Ranges, Ranged
    <3>2. CASE v # w
      BY <2>1, <2>8, <2>9, <2>11, <3>2 DEF Ranges, Ranged
    <3>. QED
      BY <3>1, <3>2
  <2>12. ASSUME NEW v \in Slot, v >= index PROVE ~Busy(v)'
    BY SMT, <1>0, <1>e, <2>2, <2>8, <2>12 DEF Ranges, Busy
  <2>13. ~(pc = "done" /\ result = "ok")
    BY <2>1, <2>2 DEF Ranges, Used
  <2>14. Ranges'
    BY <1>d, <2>1, <2>11, <2>12, <2>13 DEF Ranges
  <2>. QED
    BY <2>1, <2>10, <2>14
<1>7. CASE Replace
  <2>1. object' \in [ver : {"absent", "old", "new", "damaged"}, len : Nat] /\ (object'.len # 0 => object'.ver = "new")
    BY SMT, <1>7, SlicesAssumption DEF Replace, Version, Absent
  <2>2. changed' = TRUE /\ pc # "done"
        /\ UNCHANGED <<kind, pc, len, offset, index, pool, task, taskResp, parts, got, total, trytime, result, faults>>
    BY <1>7 DEF Replace
  <2>3. TypeOK'
    BY <1>a, <2>1, <2>2 DEF TypeOK
  <2>4. \A w \in Slot : Ranged(w) => Ranged(w)'
    BY <2>2 DEF Ranged
  <2>5. Ranges'
    BY <1>d, <2>1, <2>2, <2>4 DEF Ranges, Busy
  <2>. QED
    BY <2>2, <2>3, <2>5
<1>8. CASE UNCHANGED vars
  BY SMTT(30), <1>0, <1>8, <1>a, <1>d DEF vars, TypeOK, Ranges, Ranged, Busy, Used
<1>9. ~(\/ Single \/ SliceInit \/ ReadSlice \/ ReadOver \/ Collect \/ SliceFinish \/ Purge
        \/ \E w \in Slot : UploadTask(w))
  BY DEF Single, SliceInit, ReadSlice, ReadOver, Collect, SliceFinish, Purge, UploadTask, Ranges
<1>. QED
  BY <1>1, <1>2, <1>3, <1>4, <1>5, <1>6, <1>7, <1>8, <1>9 DEF Next, Main, Worker

\* The buffer that a download hands to RETR is right when its tasks are.
LEMMA RangesReceived == RInv => Received
<1> SUFFICES ASSUME RInv, kind = "down", pc = "done", result = "ok" PROVE Fetched
  BY DEF RInv, Received, Fetched
<1>1. /\ TypeOK /\ Ranges /\ Edge(len, index) = Wanted /\ total = Sum3(got, Used)
      /\ \A w \in Used : w \in Slot /\ w < index /\ task[w].st = "ok"
  BY DEF RInv, Ranges, Used
<1>2. \A w \in Used : /\ task[w].off = Edge(len, w) /\ task[w].buf.len = Edge(len, w + 1) - Edge(len, w)
                      /\ got[w].from = task[w].off /\ got[w].len <= task[w].buf.len
                      /\ ~changed => got[w].len = task[w].buf.len
  BY <1>1 DEF Ranges, Ranged
<1>3. /\ total <= Wanted
      /\ (\A w \in Used : got[w].len = task[w].buf.len) => total = Wanted
      /\ total = Wanted =>
           \A p \in 0 .. Wanted - 1 : \E w \in Used : got[w].from <= p /\ p < got[w].from + got[w].len
  BY <1>1, <1>2, RangesAddUp
<1>. QED
  BY <1>2, <1>3 DEF Fetched

\* FileOp::FileDownload with its ranges hands cos_download_file the blocks that
\* RETR asked for, all of them when the object was left alone.
THEOREM DownloadsReceive == Spec => []Received
<1>1. Init => RInv
  BY ReceivedInit
<1>2. RInv /\ [Next]_vars => RInv'
  <2> SUFFICES ASSUME RInv, [Next]_vars PROVE RInv'
    OBVIOUS
  <2>1. CASE kind = "down"
    BY <2>1, RangesNext DEF RInv
  <2>2. CASE kind = "up"
    BY <2>2, RoundsNext DEF RInv
  <2>. QED
    BY <2>1, <2>2 DEF RInv, TypeOK
<1>. QED
  BY <1>1, <1>2, RangesReceived, PTL DEF Spec
=============================================================================
