\* Two concurrent control connections from set-up to relay.
CONSTANTS
  c1 = c1
  c2 = c2
  Conns <- MCConns
  B <- MCB
  MsgLens <- MCMsgLens
  FdLimit <- MCFdLimit
SPECIFICATION Spec
\* A worker legitimately waits forever in accept for an enclave that has
\* gone, and every session may end; the system then stops.
CHECK_DEADLOCK FALSE
INVARIANT TypeOK
PROPERTY SessionProgress
