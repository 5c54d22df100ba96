\* The pure functions of lib.rs over every bounded input.
CONSTANTS
  KeySize <- MCKeySize
  AlgOffset <- MCAlgOffset
  Bytes <- MCBytes
  MaxKeysLen <- MCMaxKeysLen
  Codes <- MCCodes
  TokenSize <- MCTokenSize
  TokenLens <- MCTokenLens
  U32Values <- MCU32Values
  SigRlLens <- MCSigRlLens
SPECIFICATION Spec
\* Every state is a fixed input; nothing happens after Init.
CHECK_DEADLOCK FALSE
INVARIANT SelectMatchesReference MessagesPaired
  QuoteBufferConservative QuoteTypeRoundTrip
