\* Running out of descriptors while sessions are open kills the listener.
CONSTANTS
  c1 = c1
  c2 = c2
  Conns <- MCConns
  B <- MCB
  MsgLens <- MCMsgLens
  FdLimit <- MCFdLimit
  MaxThreads <- MCMaxThreads
  StackFrames <- MCStackFrames
SPECIFICATION ServerSpec
\* Once the process has exited nothing can happen.
CHECK_DEADLOCK FALSE
INVARIANT ListenerSurvives
