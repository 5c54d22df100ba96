------------------------------ MODULE MCServer ------------------------------
(* Model-checking instance of Server: two control connections and a        *)
(* descriptor limit one set-up session can reach.                          *)
EXTENDS Server

CONSTANTS c1, c2

MCConns == {c1, c2}
MCB == 2
MCMsgLens == {1, 3}
MCFdLimit == 4
MCMaxThreads == 2
\* Two full reads of one request fit in a worker's stack.
MCStackFrames == 2
\* A short request, and one that needs three reads of BUFF_SIZE (2).
MCMsgLensLong == {1, 5}
\* Room for both sessions in the relay: 1 + 4 + 4 descriptors.
MCFdLimitTwoRelays == 9

=============================================================================
