\* Two sessions relaying at once under a descriptor limit above FD_SETSIZE.
CONSTANTS
  c1 = c1
  c2 = c2
  Conns <- MCConns
  B <- MCB
  MsgLens <- MCMsgLens
  FdLimit <- MCFdLimit
  MaxThreads <- MCMaxThreads
  StackFrames <- MCStackFrames
  FdSetSize <- MCFdSetSize
SPECIFICATION FdSpec
\* Every session may end, and the system then stops.
CHECK_DEADLOCK FALSE
INVARIANT RelayFdsFit
