----------------------------- MODULE MCGateCheckIn -----------------------------
(* GateCheckIn on small instances. *)
EXTENDS GateCheckIn

CONSTANTS p1, p2, v1, v2, v3

TwoPosts == {p1, p2}
OneStandard == {v1}
TwoStandard == {v1, v2}
OneSpecial == {v3}
None == {}
===============================================================================
