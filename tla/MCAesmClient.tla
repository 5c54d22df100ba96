---------------------------- MODULE MCAesmClient ---------------------------
(* Model-checking instance of AesmClient: two-byte key ids with the        *)
(* algorithm id in the second byte, key buffers up to five bytes (so up to  *)
(* two whole records and a trailing partial one), one AESM error code      *)
(* besides success, and launch tokens shorter, equal and longer than an    *)
(* Einittoken.                                                             *)
(* Revocation-list lengths on either side of the u32 overflow.             *)
EXTENDS AesmClient

MCKeySize == 2
MCAlgOffset == 2
MCBytes == {0, 1, 2}
MCMaxKeysLen == 5
MCCodes == {0, 1}
MCTokenSize == 2
MCTokenLens == {1, 2, 3}

\* Revocation lists from empty to the largest whose length times five still
\* fits in a u32 (858993459 * 5 = 2^32 - 1).
MCSigRlLens == {0, 1, 128, 1280, 1000000, 858993459}

\* The smallest lengths whose product wraps, and one far beyond.
\* Both enum values, the next one, and the largest TLC integer.
MCU32Values == {0, 1, 2, 2147483647}

MCSigRlLensWrap == {858993460, 1073741823}

=============================================================================
