------------------------------- MODULE Stream -------------------------------
(***************************************************************************)
(* The byte streams of a session, one at a time: a file received from the  *)
(* data connection into the spool file ("recv"), a file sent to it from    *)
(* the download buffer ("send"), a directory list ("list"), the lines of   *)
(* commands on the control connection ("line") and a reply ("reply").      *)
(* Every read and write may move fewer bytes than asked for; whatever the  *)
(* cuts are, what arrives is the same.  EINTR only repeats a call.         *)
(***************************************************************************)
EXTENDS Str

CONSTANTS
  Inputs,     \* for each kind, the streams to run on
  ChunkSize,  \* get_chunk_size()
  BufSize,    \* get_cos_download_chunksize()
  DirBufsize, \* VSFTP_DIR_BUFSIZE
  MaxLine,    \* VSFTP_MAX_COMMAND_LINE
  MaxUpload,  \* max_upload_file_size in bytes, 0 for no limit
  Have        \* bytes of the spool file before the upload

Kind == {"recv", "send", "list", "line", "reply"}

ASSUME StreamAssumption ==
  /\ DOMAIN Inputs = Kind
  /\ {ChunkSize, BufSize, DirBufsize, MaxLine} \subseteq Nat \ {0}
  /\ MaxUpload \in Nat /\ Have \subseteq Nat

VARIABLES
  kind, is_ascii,
  source,      \* what the other side or COS sends, or what is to be written
  pos,         \* how much of it was taken
  offset,      \* offset: how much was downloaded
  have,        \* have_recv_len
  prev_cr,     \* prev_cr
  buf,         \* what waits to be written, or the line read so far
  out,         \* what was written
  lines,       \* the commands that the session got
  transferred, \* ret_struct.transferred
  ret,         \* the return value
  pc

vars == <<kind, is_ascii, source, pos, offset, have, prev_cr, buf, out, lines, transferred, ret, pc>>

Init ==
  /\ kind \in Kind /\ source \in Inputs[kind]
  /\ is_ascii \in IF kind \in {"recv", "send"} THEN BOOLEAN ELSE {FALSE}
  /\ have \in IF kind = "recv" THEN Have ELSE {0}
  /\ pos = 0 /\ offset = 0 /\ prev_cr = FALSE /\ buf = <<>> /\ out = <<>> /\ lines = <<>>
  /\ transferred = 0 /\ ret = 0 /\ pc = "read"

Static == UNCHANGED <<kind, is_ascii, source, have>>
Rest == Len(source) - pos
Taken(k) == SubSeq(source, pos + 1, pos + k)
Return(r) == ret' = r /\ pc' = "done" /\ UNCHANGED <<pos, offset, prev_cr, buf, out, lines, transferred>>
Fails(r) == pc \in {"read", "write"} /\ Return(r) /\ Static

-----------------------------------------------------------------------------
(* ascii.c *)

\* Mutant: a '\r' that ended the buffer before is forgotten.
ascii_to_binForgets(bytes, cr) ==
  LET in_len == Len(bytes)
      kept == {i \in 1 .. in_len : bytes[i] # CR \/ (i < in_len /\ bytes[i + 1] # LF)}
      order == SelectSeq([i \in 1 .. in_len |-> i], LAMBDA i : i \in kept)
  IN [stored |-> [i \in 1 .. Len(order) |-> bytes[order[i]]],
      last_was_cr |-> in_len > 0 /\ bytes[in_len] = CR]
\* vsf_ascii_ascii_to_bin works inside the buffer it reads: the bytes are at
\* 1 .. in_len of it, and 0 is kept free for a '\r' of the buffer before.
vsf_ascii_ascii_to_bin(bytes, cr) ==
  LET in_len == Len(bytes)
      front == cr /\ (in_len = 0 \/ bytes[1] # LF)
      p_buf == [i \in 0 .. in_len |-> IF i = 0 THEN CR ELSE bytes[i]]
      Step(st, i) ==
        LET the_char == st.p_buf[i]
            keep == the_char # CR \/ (i < in_len /\ st.p_buf[i + 1] # LF)
        IN [p_buf |-> IF keep THEN [st.p_buf EXCEPT ![st.p_out] = the_char] ELSE st.p_buf,
            p_out |-> IF keep THEN st.p_out + 1 ELSE st.p_out,
            last_was_cr |-> the_char = CR /\ i = in_len]
      end == FoldLeftDomain(Step, [p_buf |-> p_buf, p_out |-> 1, last_was_cr |-> FALSE], bytes)
      first == IF front THEN 0 ELSE 1
  IN [stored |-> [i \in 1 .. end.p_out - first |-> end.p_buf[first + i - 1]],
      last_was_cr |-> end.last_was_cr]

vsf_ascii_bin_to_ascii(bytes, cr) ==
  LET Step(st, the_char) ==
        [stored |-> st.stored \o (IF the_char = LF /\ ~st.last_was_cr THEN <<CR, LF>> ELSE <<the_char>>),
         last_was_cr |-> the_char = CR]
  IN FoldLeft(Step, [stored |-> <<>>, last_was_cr |-> cr], bytes)

-----------------------------------------------------------------------------
(* do_file_recv *)

\* The limit as the condition is parenthesised: the truth value of the
\* conjunction, 0 or 1, is compared with the limit.
TooBig(n) == (IF MaxUpload > 0 /\ n # 0 THEN 1 ELSE 0) > MaxUpload

\* What is done with the bytes of one read.
Received(bytes) ==
  LET conv == vsf_ascii_ascii_to_bin(bytes, prev_cr)
      n == transferred + Len(bytes)
  IN /\ transferred' = n
     /\ pos' = pos + Len(bytes)
     /\ IF TooBig(n + have)
        THEN ret' = -3 /\ pc' = "done" /\ UNCHANGED <<buf, prev_cr>>
        ELSE /\ pc' = "write" /\ UNCHANGED ret
             /\ buf' = IF is_ascii THEN conv.stored ELSE bytes
             /\ prev_cr' = (is_ascii /\ conv.last_was_cr)
     /\ UNCHANGED <<offset, out, lines>>

RecvData ==
  /\ kind = "recv" /\ pc = "read"
  /\ \E k \in 1 .. ChunkSize : k <= Rest /\ Received(Taken(k))
  /\ Static

\* Mutant: at the end of the stream prev_cr stays set.
RecvEndAgain ==
  /\ kind = "recv" /\ pc = "read" /\ Rest = 0
  /\ IF prev_cr THEN UNCHANGED vars ELSE Return(0) /\ Static
RecvEnd ==
  /\ kind = "recv" /\ pc = "read" /\ Rest = 0
  /\ IF prev_cr THEN Received(<<>>) ELSE Return(0)
  /\ Static

RecvFails == kind = "recv" /\ pc = "read" /\ Fails(-2)

-----------------------------------------------------------------------------
(* do_file_send_rwloop *)

Download ==
  /\ kind = "send" /\ pc = "read" /\ pos = offset /\ offset < Len(source)
  /\ offset' = Min({offset + BufSize, Len(source)})
  /\ UNCHANGED <<pos, prev_cr, buf, out, lines, transferred, ret, pc>> /\ Static

DownloadFails == kind = "send" /\ pc = "read" /\ pos = offset /\ offset < Len(source) /\ Fails(-1)

SendEnd == kind = "send" /\ pc = "read" /\ pos = offset /\ offset = Len(source) /\ Return(0) /\ Static

SendChunk ==
  /\ kind = "send" /\ pc = "read" /\ pos < offset
  /\ LET bytes == Taken(Min({ChunkSize, offset - pos}))
         conv == vsf_ascii_bin_to_ascii(bytes, prev_cr)
     IN /\ pos' = pos + Len(bytes)
        /\ buf' = IF is_ascii THEN conv.stored ELSE bytes
        /\ prev_cr' = (is_ascii /\ conv.last_was_cr)
  /\ pc' = "write"
  /\ UNCHANGED <<offset, out, lines, transferred, ret>> /\ Static

-----------------------------------------------------------------------------
(* write_dir_list: entries are gathered until the next one does not fit. *)

ListEntry ==
  /\ kind = "list" /\ pc = "read" /\ Rest > 0
  /\ pos' = pos + 1
  /\ buf' = buf \o source[pos + 1]
  /\ pc' = IF Rest = 1 \/ Len(buf') + Len(source[pos + 2]) > DirBufsize THEN "write" ELSE "read"
  /\ UNCHANGED <<offset, prev_cr, out, lines, transferred, ret>> /\ Static

ListEnd == kind = "list" /\ pc = "read" /\ Rest = 0 /\ Return(0) /\ Static

-----------------------------------------------------------------------------
(* ftp_write_str_common: the text of a reply with the telnet character     *)
(* doubled and line ends replaced, and the end of line.                    *)

IAC == "iac"

Reply ==
  /\ kind = "reply" /\ pc = "read" /\ Rest > 0
  /\ pos' = Len(source)
  /\ pc' = "write"
  /\ \E text \in {str_replace_text(source, <<IAC>>, <<IAC, IAC>>)} :
       buf' = str_replace_char(text, LF, NUL) \o <<CR, LF>>
  /\ UNCHANGED <<offset, prev_cr, out, lines, transferred, ret>> /\ Static

ReplyEnd == kind = "reply" /\ pc = "read" /\ Rest = 0 /\ Return(0) /\ Static

-----------------------------------------------------------------------------
(* vsf_sysutil_write_loop under the writers above *)

Write ==
  /\ pc = "write" /\ buf # <<>>
  /\ \E k \in 1 .. Len(buf) :
       /\ out' = out \o SubSeq(buf, 1, k)
       /\ buf' = SubSeq(buf, k + 1, Len(buf))
  /\ UNCHANGED <<pos, offset, prev_cr, lines, transferred, ret, pc>> /\ Static

Written ==
  /\ pc = "write" /\ buf = <<>>
  /\ pc' = "read"
  /\ transferred' = IF kind = "send" THEN Len(out) ELSE transferred
  /\ UNCHANGED <<pos, offset, prev_cr, buf, out, lines, ret>> /\ Static

\* A failed write, or one that is cut short, ends the transfer; for a reply
\* it ends the session.
WriteFails == pc = "write" /\ buf # <<>> /\ Fails(IF kind = "send" THEN -2 ELSE -1)

-----------------------------------------------------------------------------
(* str_netfd_alloc under control_getline and vsf_cmdio_get_cmd_and_arg *)

RECURSIVE StripCR(_)
StripCR(s) == IF s # <<>> /\ Last(s) = CR THEN StripCR(Front(s)) ELSE s

\* control_getline gives back '\0' as '\n' and strips every '\r' at the end; then
\* the first space ends the command, and a single space is a command.
Command(line) ==
  LET s == str_replace_char(line, NUL, LF)
      split == IF s = <<" ">> THEN [lhs |-> s, rhs |-> <<>>] ELSE str_split_char(s, " ")
  IN [cmd |-> str_upper(split.lhs), arg |-> split.rhs]

\* A peek sees some of what has arrived; what is before a line's end is taken,
\* and no more than that.
Peek ==
  /\ kind = "line" /\ pc = "read" /\ Len(buf) < MaxLine
  /\ \E k \in 1 .. MaxLine - Len(buf) :
       LET bytes == Taken(k)
           i == Place(bytes, LF)
       IN /\ k <= Rest
          /\ IF i > 0
             THEN /\ pos' = pos + i /\ buf' = <<>>
                  /\ \E line \in {StripCR(str_split_char(buf \o bytes, LF).lhs)} :
                       lines' = Append(lines, Command(line))
             ELSE pos' = pos + k /\ buf' = buf \o bytes /\ UNCHANGED lines
  /\ UNCHANGED <<offset, prev_cr, out, transferred, ret, pc>> /\ Static

LineTooLong == kind = "line" /\ pc = "read" /\ Len(buf) = MaxLine /\ Fails(-1)
HungUp == kind = "line" /\ pc = "read" /\ Len(buf) < MaxLine /\ Rest = 0 /\ Fails(0)
PeekFails == kind = "line" /\ pc = "read" /\ Len(buf) < MaxLine /\ Fails(-2)

-----------------------------------------------------------------------------
Progress ==
  \/ RecvData \/ RecvEnd
  \/ Download \/ SendEnd \/ SendChunk
  \/ ListEntry \/ ListEnd
  \/ Reply \/ ReplyEnd
  \/ Write \/ Written
  \/ LineTooLong \/ HungUp \/ Peek

Next == Progress \/ RecvFails \/ DownloadFails \/ WriteFails \/ PeekFails

Spec == Init /\ [][Next]_vars

\* Each loop goes on by itself, and a silent peer is ended by the alarms of
\* module Session, which make the blocked call return.
FairSpec == Spec /\ WF_vars(Progress)

-----------------------------------------------------------------------------
TypeOK ==
  /\ kind \in Kind /\ is_ascii \in BOOLEAN /\ prev_cr \in BOOLEAN
  /\ pos \in 0 .. Len(source) /\ offset \in 0 .. Len(source)
  /\ have \in Have \cup {0} /\ transferred \in Nat
  /\ ret \in {0, -1, -2, -3} /\ pc \in {"read", "write", "done"}

InOrder(at) == SelectSeq([i \in 1 .. Len(source) + Len(out) |-> i], LAMBDA i : i \in at)
Chosen(s, at) == LET order == InOrder(at) IN [i \in 1 .. Len(order) |-> s[order[i]]]

\* The two conversions on a whole stream: every '\r' before a '\n' is gone,
\* and every '\n' without a '\r' before it gets one.
AsBinary(s) == Chosen(s, {i \in 1 .. Len(s) : ~(s[i] = CR /\ i < Len(s) /\ s[i + 1] = LF)})
AsText(s) ==
  FlattenSeq([i \in 1 .. Len(s) |-> IF s[i] = LF /\ (i = 1 \/ s[i - 1] # CR) THEN <<CR, LF>> ELSE <<s[i]>>])

\* do_file_recv and do_file_send_rwloop: wherever reads, downloads, chunks and
\* writes cut the stream, what is written is the conversion of the whole, with
\* nothing lost or doubled at a cut; a '\r' at the end of a buffer is held back
\* until the next byte, and a transfer that returns 0 has written everything.
Converted ==
  kind \in {"recv", "send"} =>
    LET taken == SubSeq(source, 1, pos)
        held == IF kind = "recv" /\ prev_cr THEN <<CR>> ELSE <<>>
    IN /\ out \o buf \o held = IF ~is_ascii THEN taken ELSE IF kind = "recv" THEN AsBinary(taken) ELSE AsText(taken)
       /\ pc = "done" /\ ret = 0 => pos = Len(source) /\ buf \o held = <<>>

\* write_dir_list: the client gets the entries in their order and each whole,
\* and a buffer is larger than VSFTP_DIR_BUFSIZE only for a single entry.
ListWhole ==
  kind = "list" =>
    /\ out \o buf = FlattenSeq(SubSeq(source, 1, pos))
    /\ Len(buf) <= Max({DirBufsize} \cup {Len(source[i]) : i \in 1 .. Len(source)})
    /\ pc = "done" /\ ret = 0 => pos = Len(source) /\ buf = <<>>

\* str_netfd_alloc: however the client's bytes arrive, the session gets exactly
\* the lines the client sent, one per call; no byte after a line's end is taken
\* with it, and a line is refused only if it is longer than the buffer.
CommandsRead ==
  kind = "line" =>
    LET ends == InOrder({i \in 1 .. pos : source[i] = LF})
        start(i) == IF i = 1 THEN 0 ELSE ends[i - 1]
        last == IF ends = <<>> THEN 0 ELSE Last(ends)
    IN /\ lines = [i \in 1 .. Len(ends) |-> Command(StripCR(SubSeq(source, start(i) + 1, ends[i] - 1)))]
       /\ buf = SubSeq(source, last + 1, pos)
       /\ pc = "done" /\ ret = -1 => pos - last = MaxLine

\* ftp_write_str_common: whatever is in the text, a reply is one line on the
\* wire, and undoing the doubling gives the text back with its line ends as 0.
ReplyIsOneLine ==
  kind = "reply" /\ pc = "done" /\ ret = 0 /\ source # <<>> =>
    /\ {i \in 1 .. Len(out) : out[i] = LF} = {Len(out)}
    /\ out[Len(out) - 1] = CR
    /\ LET text == SubSeq(out, 1, Len(out) - 2)
           iacs(i) == {j \in 1 .. i - 1 : \A h \in j .. i - 1 : text[h] = IAC}
           second(i) == text[i] = IAC /\ Max({0} \cup {i - j : j \in iacs(i)}) % 2 = 1
       IN Chosen(text, {i \in 1 .. Len(text) : ~second(i)}) = str_replace_char(source, LF, NUL)

\* Every loop comes to its end; the held back '\r' at the end of an ASCII
\* upload makes do_file_recv go round once more, and not forever.
StreamEnds == <>(pc = "done")

\* However reads and writes cut the bytes, each stream is what it would be in
\* one piece: uploads and downloads, directory lists, command lines, replies.
StreamsKept == TypeOK /\ Converted /\ ListWhole /\ CommandsRead /\ ReplyIsOneLine
=============================================================================
