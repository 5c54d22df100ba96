\* quote_buffer_size for revocation lists whose length times five wraps.
CONSTANTS
  KeySize <- MCKeySize
  AlgOffset <- MCAlgOffset
  Bytes <- MCBytes
  MaxKeysLen <- MCMaxKeysLen
  Codes <- MCCodes
  TokenSize <- MCTokenSize
  TokenLens <- MCTokenLens
  U32Values <- MCU32Values
  SigRlLens <- MCSigRlLensWrap
SPECIFICATION Spec
\* Every state is a fixed input; nothing happens after Init.
CHECK_DEADLOCK FALSE
INVARIANT QuoteBufferConservative
