----------------------------- MODULE MCPrivsep -----------------------------
(* Configurations for model checking: the shipped one; anonymous users only,*)
(* without a password, uploads given to another user; PORT to any address  *)
(* and a user list; and the single process, for FTP and for HTTP.          *)
EXTENDS Privsep

Shipped ==
  [one |-> FALSE, http |-> FALSE, anonymous |-> TRUE, local |-> TRUE,
   noAnonPassword |-> FALSE, denied |-> {}, promiscuous |-> FALSE, chown |-> FALSE]
AnonOnly == [Shipped EXCEPT !.local = FALSE, !.noAnonPassword = TRUE, !.chown = TRUE]
Listed == [Shipped EXCEPT !.anonymous = FALSE, !.denied = {"anon"}, !.promiscuous = TRUE]
Single == [AnonOnly EXCEPT !.one = TRUE, !.noAnonPassword = FALSE]
Web == [Single EXCEPT !.http = TRUE]
MCConfs == {Shipped, AnonOnly, Listed, Single, Web}
=============================================================================
