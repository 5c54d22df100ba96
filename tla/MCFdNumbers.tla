----------------------------- MODULE MCFdNumbers -----------------------------
(* Model-checking instance of FdNumbers: two control connections and a      *)
(* descriptor limit raised above FD_SETSIZE, as a service's RLIMIT_NOFILE   *)
(* often is.  Five low numbers hold the listener and one relaying session;  *)
(* the nine the limit allows hold two.                                      *)
EXTENDS FdNumbers

CONSTANTS c1, c2

MCConns == {c1, c2}
MCB == 2
MCMsgLens == {1}
MCFdLimit == 9
MCMaxThreads == 2
MCStackFrames == 2
MCFdSetSize == 5

=============================================================================
