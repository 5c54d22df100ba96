\* The relay loop between a full-duplex enclave and a remote server that
\* writes its whole response before it reads.
CONSTANTS
  Chunk <- MCChunk
  Cap <- MCCap
  MaxSend <- MCMaxSend
  WriteFirst <- MCRemoteWritesFirst
SPECIFICATION Spec
\* The runner legitimately blocks forever in select once both peers are idle.
CHECK_DEADLOCK FALSE
PROPERTY Delivery
