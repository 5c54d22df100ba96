\* The relay loop of one session against two arbitrary peers.
CONSTANTS
  Chunk <- MCChunk
  Cap <- MCCap
  MaxSend <- MCMaxSend
  WriteFirst <- MCFullDuplex
SPECIFICATION Spec
\* The runner legitimately blocks forever in select once both peers are idle.
CHECK_DEADLOCK FALSE
INVARIANT TypeOK
PROPERTY RelayImplementsPipe Delivery
