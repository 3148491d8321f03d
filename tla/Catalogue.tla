----------------------------- MODULE Catalogue -----------------------------
(***************************************************************************)
(* What the sessions promise together about the bucket.  A command that    *)
(* changes it does so in one step, somewhere between its arrival and its   *)
(* end, once, and in the way of that command; a reply of success to MKD,   *)
(* RMD, DELE or STOR means that it did.  A STOR that fails may have        *)
(* removed the object.  All other commands change nothing.                 *)
(***************************************************************************)
CONSTANTS Session, Dir, File, None, Version

VARIABLES
  folders,  \* folders of the bucket
  objects,  \* what each file holds
  doing,    \* the command of each session
  did,      \* what it has done to the bucket
  told      \* how the last command was answered

vars == <<folders, objects, doing, did, told>>

Writes == {"MKD", "RMD", "DELE", "STOR"}

Init ==
  /\ folders \in SUBSET Dir
  /\ objects \in [File -> {None} \cup Version]
  /\ doing = [s \in Session |-> "none"]
  /\ did = [s \in Session |-> "nothing"]
  /\ told = [s \in Session |-> "none"]

Begin(s) ==
  /\ doing[s] = "none"
  /\ \E op \in Writes \cup {"other"} : doing' = [doing EXCEPT ![s] = op]
  /\ told' = [told EXCEPT ![s] = "none"]
  /\ UNCHANGED <<folders, objects, did>>

Effect(s) ==
  /\ did[s] = "nothing"
  /\ \/ /\ doing[s] = "MKD" /\ UNCHANGED objects
        /\ \E d \in Dir \ folders : folders' = folders \cup {d}
        /\ did' = [did EXCEPT ![s] = "done"]
     \/ /\ doing[s] = "RMD" /\ UNCHANGED objects
        /\ \E d \in folders : folders' = folders \ {d}
        /\ did' = [did EXCEPT ![s] = "done"]
     \/ /\ doing[s] \in {"DELE", "STOR"} /\ UNCHANGED folders
        /\ \E f \in File : objects[f] # None /\ objects' = [objects EXCEPT ![f] = None]
        /\ did' = [did EXCEPT ![s] = IF doing[s] = "DELE" THEN "done" ELSE "spoilt"]
     \/ /\ doing[s] = "STOR" /\ UNCHANGED folders
        /\ objects' \in [File -> {None} \cup Version]
        /\ \E f \in File : objects'[f] # None /\ objects' = [objects EXCEPT ![f] = objects'[f]]
        /\ did' = [did EXCEPT ![s] = "done"]
  /\ UNCHANGED <<doing, told>>

End(s) ==
  /\ doing[s] # "none"
  /\ \/ told' = [told EXCEPT ![s] = "fail"]
     \/ /\ doing[s] \in Writes => did[s] = "done"
        /\ told' = [told EXCEPT ![s] = "ok"]
  /\ doing' = [doing EXCEPT ![s] = "none"]
  /\ did' = [did EXCEPT ![s] = "nothing"]
  /\ UNCHANGED <<folders, objects>>

Next == \E s \in Session : Begin(s) \/ Effect(s) \/ End(s)
Spec == Init /\ [][Next]_vars
=============================================================================
