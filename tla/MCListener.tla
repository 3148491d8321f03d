----------------------------- MODULE MCListener -----------------------------
(***************************************************************************)
(* Instances of Listener for TLC.                                          *)
(***************************************************************************)
EXTENDS Listener, TLC

CONSTANTS i1, i2, p1, p2, p3

PerIp == [clients |-> 0, perIp |-> 1]
Total == [clients |-> 1, perIp |-> 0]
TwoLimits == {PerIp, Total}
=============================================================================
