\* Two sessions; another local process may connect to an ephemeral port.
CONSTANTS
  c1 = c1
  c2 = c2
  Conns <- MCConns
  B <- MCB
  MsgLens <- MCMsgLens
  FdLimit <- MCFdLimit
SPECIFICATION Spec
\* A worker legitimately waits forever in accept for an enclave that has
\* gone, and every session may end; the system then stops.
CHECK_DEADLOCK FALSE
INVARIANT ProxyIsEnclave
