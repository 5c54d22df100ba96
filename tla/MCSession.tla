------------------------------ MODULE MCSession -----------------------------
(* Model-checking instance of Session: two control connections, BUFF_SIZE  *)
(* scaled to two units, requests of one, two and three units (shorter     *)
(* than, equal to and longer than one buffer), and a descriptor limit     *)
(* that two sessions can exhaust.                                         *)
EXTENDS Session

CONSTANTS c1, c2

MCConns == {c1, c2}
MCB == 2
MCMsgLens == {1, 2, 3}
MCFdLimit == 6

=============================================================================
