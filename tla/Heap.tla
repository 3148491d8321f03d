-------------------------------- MODULE Heap --------------------------------
(***************************************************************************)
(* The memory under strings, tables and transfer buffers: strings (Mystr), *)
(* the chained hash table of the listener (hash.c) and fenced buffers      *)
(* (Secbuf).  Each is driven by a list of operations.                      *)
(***************************************************************************)
EXTENDS Str, Mystr, Secbuf

CONSTANT Buckets   \* of the hash table

ASSUME HeapAssumption == Buckets \in Nat \ {0}

MystrAfter(ops) == FoldLeft(MystrStep, EmptyMystr, ops)

-----------------------------------------------------------------------------
(* The hash table: buckets of doubly linked nodes.  0 is the null pointer, *)
(* and a node is never used again under its number.                        *)

EmptyHash == [p_nodes |-> [b \in 0 .. Buckets - 1 |-> 0], node |-> <<>>, status |-> "ok"]

\* hash_pid; the other table's hash_ip also ends in a remainder.
HashBucket(key) == key % Buckets

RECURSIVE hash_chain(_, _, _)
hash_chain(h, n, key) ==
  IF n = 0 \/ h.node[n].key = key THEN n ELSE hash_chain(h, h.node[n].next, key)
hash_get_node_by_key(h, key) == hash_chain(h, h.p_nodes[HashBucket(key)], key)

\* The value, or 0 if there is none.
hash_lookup_entry(h, key) ==
  LET n == hash_get_node_by_key(h, key) IN IF n = 0 THEN 0 ELSE h.node[n].value

hash_add_entry(h, key, value) ==
  LET b == HashBucket(key)
      first == h.p_nodes[b]
      new == Len(h.node) + 1
      linked == IF first = 0 THEN h.node ELSE [h.node EXCEPT ![first].prev = new]
  IN IF hash_lookup_entry(h, key) # 0 THEN [h EXCEPT !.status = "bug"]
     ELSE [h EXCEPT !.node = Append(linked, [key |-> key, value |-> value, prev |-> 0, next |-> first]),
                    !.p_nodes[b] = new]

\* Mutant: the link back is left as it is.
UnlinkForward(node, prev, next) == IF prev # 0 THEN [node EXCEPT ![prev].next = next] ELSE node
\* The nodes with the one between prev and next taken out.
Unlink(node, prev, next) ==
  LET forward == IF prev # 0 THEN [node EXCEPT ![prev].next = next] ELSE node
  IN IF next # 0 THEN [forward EXCEPT ![next].prev = prev] ELSE forward

hash_free_entry(h, key) ==
  LET n == hash_get_node_by_key(h, key)
      prev == h.node[n].prev
      next == h.node[n].next
  IN IF n = 0 THEN [h EXCEPT !.status = "bug"]
     ELSE [h EXCEPT !.node = Unlink(h.node, prev, next),
                    !.p_nodes[HashBucket(key)] = IF prev = 0 THEN next ELSE @]

HashStep(h, o) ==
  IF h.status # "ok" THEN h
  ELSE IF o.op = "add" THEN hash_add_entry(h, o.key, o.value) ELSE hash_free_entry(h, o.key)
HashAfter(ops) == FoldLeft(HashStep, EmptyHash, ops)

-----------------------------------------------------------------------------
\* mmap gives addresses at page boundaries, here above all others.
Fresh(maps) == PageSize * (1 + Max({0} \cup {(m.at + m.len) \div PageSize : m \in maps}))
SecbufAfter(sizes) ==
  FoldLeft(LAMBDA b, size : vsf_secbuf_alloc(b, size, Fresh(vsf_secbuf_free(b).maps)), NoSecbuf, sizes)
=============================================================================
