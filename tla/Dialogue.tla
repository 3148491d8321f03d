------------------------------ MODULE Dialogue ------------------------------
(***************************************************************************)
(* What a session promises its client, whatever signals, timeouts and      *)
(* failures it meets: it takes a line only when it owes no answer, except  *)
(* for one ABOR during a transfer; a data connection serves one command;   *)
(* the command and the ABOR are answered after the connection is closed,   *)
(* each once.  It may leave at any time, with a last reply or without.     *)
(***************************************************************************)
EXTENDS Integers

VARIABLES
  alive,      \* the session process runs
  owed,       \* lines taken and not yet answered
  connected   \* the data connection is open

vars == <<alive, owed, connected>>

Init == alive = TRUE /\ owed = 0 /\ connected = FALSE

Take == owed = 0 /\ ~connected /\ owed' = 1 /\ UNCHANGED <<alive, connected>>

Connect == owed = 1 /\ ~connected /\ connected' = TRUE /\ UNCHANGED <<alive, owed>>

TakeAbor == connected /\ owed = 1 /\ owed' = 2 /\ UNCHANGED <<alive, connected>>

Close == connected /\ connected' = FALSE /\ UNCHANGED <<alive, owed>>

Answer == ~connected /\ owed > 0 /\ owed' = owed - 1 /\ UNCHANGED <<alive, connected>>

Leave == alive' = FALSE /\ owed' \in {owed, owed - 1} /\ UNCHANGED connected

Next == alive /\ (Take \/ Connect \/ TakeAbor \/ Close \/ Answer \/ Leave)

Spec == Init /\ [][Next]_vars
=============================================================================
