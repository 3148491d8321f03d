------------------------------- MODULE Broker -------------------------------
(***************************************************************************)
(* What a child is promised by the privileged operations, whether they are *)
(* calls or requests to another process: one at a time, each takes effect  *)
(* on the passive socket once, after it was asked for and before it        *)
(* returns, and what it returns is its own answer.                         *)
(***************************************************************************)
VARIABLES
  open,    \* there is a passive socket
  asked,   \* the request in progress
  done,    \* its answer, once it has taken effect
  result   \* what the last request returned

vars == <<open, asked, done, result>>

Init == open = FALSE /\ asked = "none" /\ done = "none" /\ result = "none"

Requests == {"login", "active", "cleanup", "listen", "accept", "sock", "chown"}

Ask ==
  /\ asked = "none"
  /\ asked' \in Requests
  /\ done' = "none" /\ result' = "none" /\ UNCHANGED open

\* When the operation is possible, what it answers, and the socket after it.
Effect(o, a) ==
  \/ o = "login" /\ a \in {"ok", "bad"} /\ open' = open
  \/ o = "active" /\ a = (IF open THEN "yes" ELSE "no") /\ open' = open
  \/ o = "cleanup" /\ a = "ok" /\ ~open'
  \/ o = "listen" /\ ~open /\ a = "port" /\ open'
  \/ o = "accept" /\ open /\ a \in {"fd", "fail", "badip"} /\ open'
  \/ o = "sock" /\ ~open /\ a \in {"fd", "bad"} /\ ~open'
  \/ o = "chown" /\ a = "ok" /\ open' = open

Act ==
  /\ asked # "none" /\ done = "none"
  /\ open' \in BOOLEAN
  /\ done' \in {"ok", "bad", "yes", "no", "port", "fd", "fail", "badip"}
  /\ Effect(asked, done')
  /\ UNCHANGED <<asked, result>>

Take ==
  /\ asked # "none" /\ done # "none"
  /\ result' = done
  /\ asked' = "none" /\ done' = "none" /\ UNCHANGED open

\* The child is replaced by another one.
Replaced == asked' = "none" /\ done' = "none" /\ result' = "none" /\ UNCHANGED open

Next == Ask \/ Act \/ Take \/ Replaced
Spec == Init /\ [][Next]_vars
=============================================================================
