------------------------------ MODULE Transfer ------------------------------
(***************************************************************************)
(* What FileOp::FileUpload promises its caller: the object is as it was,   *)
(* is gone, or is the whole file, and it is the whole file when the result *)
(* says that the upload succeeded.                                         *)
(***************************************************************************)
CONSTANTS Absent, Other, Whole   \* no object, the former object, the file

VARIABLES object, outcome

vars == <<object, outcome>>

Init == object \in {Absent, Other} /\ outcome = "running"

Commit == outcome = "running" /\ object' = Whole /\ UNCHANGED outcome
Succeed == outcome = "running" /\ outcome' = "ok" /\ object' = Whole
Fail == outcome = "running" /\ outcome' = "failed" /\ object' \in {object, Absent}

Next == Commit \/ Succeed \/ Fail
Spec == Init /\ [][Next]_vars
=============================================================================
