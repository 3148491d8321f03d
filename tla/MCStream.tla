------------------------------ MODULE MCStream ------------------------------
(* Instances of Stream: every stream of three kinds of bytes up to a length, *)
(* lists of entries shorter than, as long as and longer than the buffer, and *)
(* lines shorter than, as long as and longer than the line buffer.           *)
EXTENDS Stream

CONSTANTS MaxData, MaxCommands, MaxText

Entries == {<<"a">>, <<"b", "b">>, <<"c", "c", "c", "c">>}

MCInputs ==
  [k \in Kind |->
     CASE k \in {"recv", "send"} -> BoundedSeq({CR, LF, "x"}, MaxData)
       [] k = "list" -> BoundedSeq(Entries, 4)
       [] k = "line" -> BoundedSeq({CR, LF, " ", NUL, "x"}, MaxCommands)
       [] k = "reply" -> BoundedSeq({IAC, LF, "x"}, MaxText)]
=============================================================================
