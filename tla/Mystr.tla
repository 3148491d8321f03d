------------------------------- MODULE Mystr -------------------------------
(***************************************************************************)
(* struct mystr as it is laid out (str.c): a buffer p_buf, the length len  *)
(* of the string in it and alloc_bytes, all sizes being unsigned int.  A   *)
(* cell of memory that was never written holds Junk.                       *)
(***************************************************************************)
EXTENDS Integers, Sequences

CONSTANT Word   \* unsigned int counts modulo this

ASSUME MystrAssumption == Word \in Nat \ {0, 1}

Junk == "junk"
Terminator == "nul"   \* the character NUL of Str
IntMax == (Word \div 2) - 1
Plus(a, b) == (a + b) % Word

\* p_buf is null when buf is empty: malloc refuses size 0.  status is "bug"
\* once bug() or die() ended the process, and "overrun" once something was
\* written outside the buffer.
EmptyMystr == [buf |-> <<>>, len |-> 0, alloc |-> 0, status |-> "ok"]
Died(s) == [s EXCEPT !.status = "bug"]
\* size == 0 || size > INT_MAX
BadSize(size) == size = 0 \/ size > IntMax

Poke(s, at, c) ==
  IF s.status # "ok" THEN s
  ELSE IF at + 1 > Len(s.buf) THEN [s EXCEPT !.status = "overrun"]
  ELSE [s EXCEPT !.buf = [s.buf EXCEPT ![at + 1] = c]]
\* vsf_sysutil_memcpy
Copy(s, at, text) ==
  IF s.status # "ok" \/ Len(text) = 0 THEN s
  ELSE IF Len(text) > IntMax THEN Died(s)
  ELSE IF at + Len(text) > Len(s.buf) THEN [s EXCEPT !.status = "overrun"]
  ELSE [s EXCEPT !.buf = [i \in 1 .. Len(s.buf) |-> IF i \in at + 1 .. at + Len(text) THEN text[i - at] ELSE s.buf[i]]]

\* vsf_sysutil_realloc and vsf_sysutil_malloc, up to the contents kept.
Grow(s, size, keep) ==
  IF BadSize(size) THEN Died(s)
  ELSE [buf |-> [i \in 1 .. size |-> IF keep /\ i <= Len(s.buf) THEN s.buf[i] ELSE Junk],
        len |-> s.len, alloc |-> size, status |-> s.status]

SetLen(s, len) == IF s.status = "ok" THEN Poke([s EXCEPT !.len = len], len, Terminator) ELSE s

str_free(s) == [buf |-> <<>>, len |-> 0, alloc |-> 0, status |-> s.status]

private_str_alloc_memchunk(s, src) ==
  LET len == Len(src)
      buf_needed == Plus(len, 1)
      room == IF buf_needed > s.alloc THEN Grow(str_free(s), buf_needed, FALSE) ELSE s
  IN IF buf_needed < len THEN Died(s) ELSE SetLen(Copy(room, 0, src), len)

AppendNeeds(s, len) == Plus(Plus(len, s.len), 1)

private_str_append_memchunk(s, src) ==
  LET len == Len(src)
      sum == Plus(len, s.len)
      buf_needed == AppendNeeds(s, len)
      room == IF buf_needed > s.alloc THEN Grow(s, buf_needed, TRUE) ELSE s
  IN IF sum < len \/ Plus(sum, 1) < sum THEN Died(s) ELSE SetLen(Copy(room, s.len, src), s.len + len)

str_trunc(s, trunc_len) == IF trunc_len >= s.alloc THEN Died(s) ELSE SetLen(s, trunc_len)

str_reserve(s, chars) ==
  LET res_len == Plus(chars, 1)
      room == IF res_len > s.alloc THEN Grow(s, res_len, TRUE) ELSE s
  IN IF res_len = 0 THEN Died(s) ELSE Poke(room, res_len - 1, Terminator)

\* p_buf NULL and len or alloc_bytes != 0 in str_getbuf
str_getbuf(s) ==
  IF s.buf # <<>> THEN s
  ELSE IF s.len # 0 \/ s.alloc # 0 THEN Died(s)
  ELSE private_str_alloc_memchunk(s, <<>>)

str_empty(s) == LET t == str_getbuf(s) IN IF t.status = "ok" THEN str_trunc(t, 0) ELSE t

\* len characters are asked for, and text is what came: netstr.c.
str_netfd_read(s, text, len) ==
  LET t == str_reserve(s, len)
  IN Copy(IF t.status = "ok" THEN str_trunc(t, len) ELSE t, 0, text)

\* The string is filled up to the length it has, or emptied when the read
\* fails: ssl.c.
ssl_read_into_str(s, text, ok) ==
  LET t == str_getbuf(s)
      ret == IF Len(text) < s.len THEN Len(text) ELSE s.len
      u == Copy(t, 0, SubSeq(text, 1, ret))
  IN IF t.status # "ok" THEN t
     ELSE IF ~ok THEN str_empty(t)
     ELSE IF u.status = "ok" THEN str_trunc(u, ret) ELSE u

MystrStep(s, o) ==
  IF s.status # "ok" THEN s
  ELSE CASE o.op = "alloc" -> private_str_alloc_memchunk(s, o.text)
         [] o.op = "append" -> private_str_append_memchunk(s, o.text)
         [] o.op = "trunc" -> str_trunc(s, o.n)
         [] o.op = "reserve" -> str_reserve(s, o.n)
         [] o.op = "empty" -> str_empty(s)
         [] o.op = "free" -> str_free(s)
         [] o.op = "read" -> str_netfd_read(s, o.text, o.n)
         [] o.op = "ssl_read" -> ssl_read_into_str(s, o.text, o.ok)

-----------------------------------------------------------------------------
Smaller(a, b) == IF a < b THEN a ELSE b

\* What a string holds after each operation, and whether the operations say
\* what it holds: cutting it longer than it is shows what was left behind it.
MystrMeans(r, o) ==
  CASE o.op = "alloc" -> [known |-> TRUE, text |-> o.text]
    [] o.op = "append" -> [known |-> r.known, text |-> r.text \o o.text]
    [] o.op = "trunc" -> [known |-> r.known /\ o.n <= Len(r.text), text |-> SubSeq(r.text, 1, Smaller(o.n, Len(r.text)))]
    [] o.op = "reserve" -> [known |-> r.known /\ o.n >= Len(r.text), text |-> r.text]
    [] o.op = "read" -> [known |-> o.n = Len(o.text), text |-> o.text]
    [] o.op = "ssl_read" /\ o.ok -> [known |-> r.known, text |-> SubSeq(o.text, 1, Smaller(Len(o.text), Len(r.text)))]
    [] OTHER -> [known |-> TRUE, text |-> <<>>]

\* The characters an operation asks room for.
MystrAsks(o) ==
  CASE o.op \in {"alloc", "append"} -> Len(o.text) [] o.op \in {"reserve", "read"} -> o.n [] OTHER -> 0

\* Nothing was written outside the buffer, alloc_bytes is its size, and len is
\* below it with a zero at or behind the end (private_str_append_memchunk,
\* str_trunc, str_reserve).
MystrFits(s) ==
  /\ s.status # "overrun" /\ s.alloc = Len(s.buf)
  /\ s.status = "ok" => IF s.buf = <<>> THEN s.len = 0 ELSE \E i \in s.len + 1 .. s.alloc : s.buf[i] = Terminator

\* The string is what the operations put there.
MystrTells(s, r) == s.status = "ok" /\ r.known => SubSeq(s.buf, 1, s.len) = r.text

\* The process gives up only for sizes above INT_MAX, and where a caller cuts
\* behind the buffer.
MystrDies(s, asked, cut) == s.status = "bug" => asked > IntMax \/ cut
=============================================================================
