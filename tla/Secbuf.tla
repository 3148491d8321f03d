------------------------------- MODULE Secbuf ------------------------------
(***************************************************************************)
(* Buffers between two pages that cannot be touched (secbuf.c).  A mapping *)
(* is the address of its first byte and its length, which its first word   *)
(* holds too.                                                              *)
(***************************************************************************)
EXTENDS Integers

CONSTANT PageSize

ASSUME SecbufAssumption == PageSize \in Nat \ {0}

\* p is the buffer pointer, 0 if there is none; fault is set by reading the
\* length where no mapping begins.
NoSecbuf == [p |-> 0, maps |-> {}, fault |-> FALSE]

\* Where vsf_secbuf_free takes the mapping to begin.
MapStartOf(p) == p - (p % PageSize) - PageSize

vsf_secbuf_free(b) ==
  LET start == MapStartOf(b.p)
  IN IF b.p = 0 THEN b
     ELSE IF \A m \in b.maps : m.at # start THEN [b EXCEPT !.fault = TRUE]
     ELSE [b EXCEPT !.maps = {m \in b.maps : m.at # start}]

RoundUp(size) == (IF size % PageSize # 0 THEN ((size \div PageSize) + 1) * PageSize ELSE size) + 2 * PageSize

\* The kernel maps the pages at p_mmap.
vsf_secbuf_alloc(b, size, p_mmap) ==
  LET freed == vsf_secbuf_free(b)
      page_offset == size % PageSize
  IN [p |-> p_mmap + PageSize + (IF page_offset # 0 THEN PageSize - page_offset ELSE 0),
      maps |-> freed.maps \cup {[at |-> p_mmap, len |-> RoundUp(size)]},
      fault |-> freed.fault]

\* There is one mapping of whole pages, the buffer ends where its last page
\* begins, and a whole page is before it: the earlier mappings were found
\* again from the pointer alone and are gone (vsf_secbuf_alloc,
\* vsf_secbuf_free).
Fenced(b, size) ==
  /\ ~b.fault
  /\ \E m \in b.maps : /\ b.maps = {m} /\ m.len % PageSize = 0
                       /\ b.p >= m.at + PageSize
                       /\ b.p + size = m.at + m.len - PageSize
=============================================================================
