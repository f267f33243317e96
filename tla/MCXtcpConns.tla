---------------------------- MODULE MCXtcpConns -----------------------------
(* Instances of XtcpConns: who listens to which port.                      *)
EXTENDS XtcpConns

OnePort == {80}
TwoPorts == {80, 81}
FirstListens == [p \in OnePort |-> {0}]
EachListens == [p \in TwoPorts |-> IF p = 80 THEN {0} ELSE {1}]
=============================================================================
