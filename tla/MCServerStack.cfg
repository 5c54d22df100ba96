\* A request longer than the stack has room for read_from_stream frames,
\* with descriptors and threads to spare.
CONSTANTS
  c1 = c1
  c2 = c2
  Conns <- MCConns
  B <- MCB
  MsgLens <- MCMsgLensLong
  FdLimit <- MCFdLimitTwoRelays
  MaxThreads <- MCMaxThreads
  StackFrames <- MCStackFrames
SPECIFICATION ServerSpec
\* Once the process has exited nothing can happen.
CHECK_DEADLOCK FALSE
INVARIANT ListenerSurvives
