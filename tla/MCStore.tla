------------------------------ MODULE MCStore ------------------------------
(* In each plan two sessions are active: one that moves about, reads and    *)
(* deletes, or an anonymous visitor that may only read, beside one that    *)
(* makes, fills and removes the directory.  COS lists one entry a page.    *)
EXTENDS Store, TLC

CONSTANTS reader, writer, visitor, sub, m, n

C(op, dir, name, i) == [op |-> op, dir |-> dir, name |-> name, pos |-> i]
CWD == C("CWD", sub, None, 0)
RETR == C("RETR", Here, n, 0)
MKD == C("MKD", sub, None, 0)
RMD == C("RMD", sub, None, 0)
STOR == C("STOR", Root, n, 0)
Active(s, p, q) == [t \in {reader, writer, visitor} |->
                      CASE t = s -> p [] t = writer -> q [] OTHER -> <<>>]
\* In the directory, which the other one may fill or remove.
Below == {<<CWD, C("DELE", Here, n, 0)>>, <<CWD, RETR>>, <<CWD, C("LIST", Here, None, 0)>>,
          <<CWD, C("STOR", Here, n, 0)>>, <<C("LIST", sub, None, 0)>>}
\* At the root.
Above == {<<C("TYPE", Here, None, 1), C("REST", Here, None, 1), RETR>>,
          <<C("REST", Here, None, 1), RETR>>, <<C("RETR", Root, n, 0)>>,
          <<C("LIST", Root, None, 0)>>}
Visits == {<<C("NOOP", Here, None, 0)>>, <<C("DELE", Root, n, 0)>>, <<MKD>>, <<C("SIZE", Root, n, 0)>>,
           <<C("LIST", Here, n, 0)>>, <<C("STAT", sub, None, 0)>>, <<C("STAT", Here, n, 0)>>}
MCPlans ==
  {Active(reader, p, q) : p \in Below, q \in {<<RMD, MKD>>, <<C("STOR", sub, n, 0)>>, <<CWD>>,
                                             <<C("DELE", sub, n, 0), RMD>>}}
  \cup {Active(reader, p, <<STOR>>) : p \in Above}
  \cup {Active(visitor, p, q) : p \in Visits, q \in {<<STOR>>, <<MKD, RMD>>}}

K(fold, full, tree) ==
  [folder |-> fold, disk |-> tree,
   object |-> [f \in File |-> IF f \in full THEN [ver |-> 0, size |-> MaxSize] ELSE None]]
MCStocks == {K({}, {}, {}), K({sub}, {}, {}), K({sub}, {<<Root, n>>}, {sub}),
             K({sub}, {<<Root, n>>, <<sub, n>>, <<sub, m>>}, {}), K({}, {<<sub, n>>}, {})}
MCRights == (reader :> {"read", "write"}) @@ (writer :> {"read", "write"}) @@ (visitor :> {"read"})
MCConf == [denied |-> {}, download |-> TRUE, dirlist |-> TRUE, write |-> TRUE,
           anonUpload |-> TRUE, anonMkdir |-> TRUE, anonOther |-> FALSE, listMax |-> 3]
MCOrder == <<sub, m, n>>
=============================================================================
