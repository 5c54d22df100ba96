------------------------------ MODULE AesmClient ----------------------------
(***************************************************************************)
(* The logic of the AESM client that lives in aesm-client/src/lib.rs:      *)
(* picking an attestation key id by algorithm (AesmKeyIds::               *)
(* select_algorithm_id), the request/response pairs of                     *)
(* define_aesm_message! and the decoding of a response (FromResponse), the *)
(* launch-token provider built on them (EinittokenProvider for            *)
(* AesmClient), and the quote buffer size (QuoteInfo::quote_buffer_size). *)
(* The transport (imp/*.rs) is not in this repository.                     *)
(*                                                                         *)
(* The functions are pure, so the module's one variable is the input under *)
(* test; Init enumerates every input in a bounded domain and Next leaves it *)
(* unchanged.                                                              *)
(***************************************************************************)
EXTENDS Naturals, Sequences, SequencesExt

CONSTANTS
  KeySize,     \* size_of::<sgx_att_key_id_ext_t>(), in bytes
  AlgOffset,   \* position of base.algorithm_id inside one key id
  Bytes,       \* byte values in the key buffer
  MaxKeysLen,  \* longest key buffer enumerated
  Codes,       \* AESM error codes, containing AESM_SUCCESS = 0
  TokenSize,   \* size_of::<Einittoken>()
  TokenLens,   \* lengths of the launch token AESM may return
  SigRlLens,   \* lengths of the signature revocation list, in bytes
  U32Values    \* u32 values handed to QuoteType::from_u32

ASSUME KeySize \in Nat \ {0} /\ AlgOffset \in 1..KeySize /\ 0 \in Codes
\* Lengths below 2^31, where `as u32` keeps the value.
ASSUME SigRlLens \subseteq Nat /\ \A n \in SigRlLens : n <= 2147483647

AESM_SUCCESS == 0

(***************************************************************************)
(* QuoteType (lib.rs 77-81) and its conversions to and from u32.           *)
(***************************************************************************)

QuoteTypes == {"Unlinkable", "Linkable"}

\* lib.rs 83-91: Into<u32> for QuoteType.
Into(q) == IF q = "Unlinkable" THEN 0 ELSE 1

\* Mutant of FromU32: the two match arms with their values exchanged.
FromU32Swapped(v) ==
  CASE v = 0 -> [ok |-> TRUE, val |-> "Linkable"]
    [] v = 1 -> [ok |-> TRUE, val |-> "Unlinkable"]
    [] OTHER -> [ok |-> FALSE, val |-> "InvalidQuoteType"]

\* lib.rs 93-102: QuoteType::from_u32; any other value is
\* Error::InvalidQuoteType(v).
FromU32(v) ==
  CASE v = 0 -> [ok |-> TRUE, val |-> "Unlinkable"]
    [] v = 1 -> [ok |-> TRUE, val |-> "Linkable"]
    [] OTHER -> [ok |-> FALSE, val |-> "InvalidQuoteType"]

(***************************************************************************)
(* Option<Vec<u8>> is a set: {} is None, {v} is Some(v).                   *)
(***************************************************************************)

\* Mutant of SelectAlgorithmId: the loop keeps going after a match, so the
\* last matching key id wins.
RECURSIVE SelectAlgorithmIdLast(_, _)
SelectAlgorithmIdLast(keys, algorithm_id) ==
  IF Len(keys) < KeySize
    THEN {}
    ELSE LET chunk == SubSeq(keys, 1, KeySize)
             rest == SelectAlgorithmIdLast(SubSeq(keys, KeySize + 1, Len(keys)),
                                           algorithm_id)
         IN IF rest = {} /\ chunk[AlgOffset] = algorithm_id
              THEN {chunk} ELSE rest

\* lib.rs 123-139: walk keys.chunks_exact(KeySize) (a trailing partial
\* chunk is never visited), read each chunk's algorithm_id and return the
\* first chunk whose id matches.
RECURSIVE SelectAlgorithmId(_, _)
SelectAlgorithmId(keys, algorithm_id) ==
  IF Len(keys) < KeySize
    THEN {}
    ELSE LET chunk == SubSeq(keys, 1, KeySize) IN
         IF chunk[AlgOffset] = algorithm_id
           THEN {chunk}
           ELSE SelectAlgorithmId(SubSeq(keys, KeySize + 1, Len(keys)),
                                  algorithm_id)

(***************************************************************************)
(* Messages.  A field of the Request or Response oneof is named by the     *)
(* message it carries and its direction: <<"getQuote", "Req">> is          *)
(* getQuoteReq.                                                            *)
(***************************************************************************)

Msg(request, set, has) == [request |-> request, set |-> set, has |-> has]

\* Mutant of Messages: the GetQuoteSizeEx row copied from the GetQuoteEx
\* row above it without renaming its has_ accessor.
MessagesCopyPaste ==
  { Msg("GetQuote",      <<"getQuote", "Req">>,      <<"getQuote", "Res">>),
    Msg("InitQuote",     <<"initQuote", "Req">>,     <<"initQuote", "Res">>),
    Msg("GetLaunchToken", <<"getLicToken", "Req">>,  <<"getLicToken", "Res">>),
    Msg("GetQuoteEx",    <<"getQuoteEx", "Req">>,    <<"getQuoteEx", "Res">>),
    Msg("InitQuoteEx",   <<"initQuoteEx", "Req">>,   <<"initQuoteEx", "Res">>),
    Msg("GetQuoteSizeEx", <<"getQuoteSizeEx", "Req">>, <<"getQuoteEx", "Res">>),
    Msg("GetSupportedAttKeyIDNum", <<"getSupportedAttKeyIDNum", "Req">>,
                                   <<"getSupportedAttKeyIDNum", "Res">>),
    Msg("GetSupportedAttKeyIDs", <<"getSupportedAttKeyIDs", "Req">>,
                                 <<"getSupportedAttKeyIDs", "Res">>) }

\* lib.rs 358-366: the define_aesm_message! rows; each names the request,
\* the Request field its From impl sets and the Response field its
\* FromResponse impl tests with has_ and takes.
Messages ==
  { Msg("GetQuote",      <<"getQuote", "Req">>,      <<"getQuote", "Res">>),
    Msg("InitQuote",     <<"initQuote", "Req">>,     <<"initQuote", "Res">>),
    Msg("GetLaunchToken", <<"getLicToken", "Req">>,  <<"getLicToken", "Res">>),
    Msg("GetQuoteEx",    <<"getQuoteEx", "Req">>,    <<"getQuoteEx", "Res">>),
    Msg("InitQuoteEx",   <<"initQuoteEx", "Req">>,   <<"initQuoteEx", "Res">>),
    Msg("GetQuoteSizeEx", <<"getQuoteSizeEx", "Req">>, <<"getQuoteSizeEx", "Res">>),
    Msg("GetSupportedAttKeyIDNum", <<"getSupportedAttKeyIDNum", "Req">>,
                                   <<"getSupportedAttKeyIDNum", "Res">>),
    Msg("GetSupportedAttKeyIDs", <<"getSupportedAttKeyIDs", "Req">>,
                                 <<"getSupportedAttKeyIDs", "Res">>) }

\* lib.rs 334-340: From<$request> for Request: a new Request with the
\* request's field set.
RequestOf(m) == [field |-> m.set]

\* lib.rs 341-354: a response decodes to its body only when the transport
\* delivered a message carrying the body of message m; the body's error
\* code then decides between Ok and Error::AesmCode.
FromResponse(m, res) ==
  IF res.transport = "ok" /\ res.body = m.has
    THEN IF res.errorCode = AESM_SUCCESS
           THEN [ok |-> TRUE, err |-> "none"]
           ELSE [ok |-> FALSE, err |-> "AesmCode"]
    ELSE [ok |-> FALSE, err |-> "AesmBadResponse"]

LaunchToken == CHOOSE m \in Messages : m.request = "GetLaunchToken"

\* lib.rs 291-303: token() asks AESM for a launch token (get_launch_token,
\* whose result is FromResponse of the reply) and copies it into an
\* Einittoken, which fails unless the length is exactly its size.
Token(res, len) ==
  LET r == FromResponse(LaunchToken, res) IN
  IF ~r.ok THEN r
  ELSE IF len = TokenSize THEN [ok |-> TRUE, err |-> "none"]
  ELSE [ok |-> FALSE, err |-> "InvalidTokenSize"]

(***************************************************************************)
(* quote_buffer_size in u32 arithmetic.  2^32 is beyond TLC's integers, so *)
(* the product is formed from 16-bit halves.                               *)
(***************************************************************************)

Half == 2^16

\* `len as u32 * 5` overflows u32.
Times5Overflows(len) == 5 * (len \div Half) + (5 * (len % Half)) \div Half >= Half

\* (len as u32 * 5 / 4) with the product wrapped modulo 2^32.
Times5Div4U32(len) ==
  LET lo == 5 * (len % Half)
      hi == (5 * (len \div Half) + lo \div Half) % Half
  IN hi * 2^14 + (lo % Half) \div 4

\* Mutant of QuoteBufferSize: the factor inverted, len * 4 / 5, as if a
\* sig_rl entry were five field elements and an nr_proof four.
QuoteBufferSizeInverted(len) ==
  {[panic |-> FALSE,
    size |-> (436 + 288 + 12 + 4 + 16) + 352 + 4 + 4
             + (4 * (len \div 5) + (4 * (len % 5)) \div 5) + 128]}

\* lib.rs 170-188: the set of outcomes of quote_buffer_size(sig_rl) with
\* sig_rl.len() = len.  A build with overflow checks panics when the
\* product overflows; a release build wraps it.
QuoteBufferSize(len) ==
  LET quote_length == 436 + 288 + 12 + 4 + 16
      sig_length == 352 + 4 + 4 + Times5Div4U32(len) + 128
      wrapped == [panic |-> FALSE, size |-> quote_length + sig_length]
  IN IF Times5Overflows(len) THEN {wrapped, [panic |-> TRUE, size |-> 0]}
     ELSE {wrapped}

(***************************************************************************)
(* The inputs: one test per state.                                         *)
(***************************************************************************)

Fields == UNION {{m.set, m.has} : m \in Messages}

\* A Response with no field of the oneof set.
NoBody == <<"none", "none">>

Responses == [transport : {"ok", "err"}, body : Fields \cup {NoBody},
              errorCode : Codes]

VARIABLE input

Inputs ==
  [kind : {"select"}, keys : BoundedSeq(Bytes, MaxKeysLen),
   algorithm_id : Bytes]
  \cup [kind : {"call"}, msg : Messages, res : Responses, len : TokenLens]
  \cup [kind : {"quote"}, sigRlLen : SigRlLens]
  \cup [kind : {"quoteType"}, v : U32Values]

Init == input \in Inputs

Next == UNCHANGED input

Spec == Init /\ [][Next]_input

(***************************************************************************)
(* Properties.                                                             *)
(***************************************************************************)

\* The reference definition: among the whole KeySize-byte records of the
\* buffer, the one with the lowest index whose algorithm id matches.
SelectReference(keys, algorithm_id) ==
  LET Rec(i) == SubSeq(keys, (i - 1) * KeySize + 1, i * KeySize)
      hits == {i \in 1..(Len(keys) \div KeySize) :
                 Rec(i)[AlgOffset] = algorithm_id}
  IN IF hits = {} THEN {} ELSE {Rec(Min(hits))}

\* select_algorithm_id returns the first whole key id with the requested
\* algorithm, never a later one, never bytes straddling two key ids or the
\* trailing partial record, and None exactly when no whole record matches.
SelectMatchesReference ==
  input.kind = "select" =>
    SelectAlgorithmId(input.keys, input.algorithm_id)
      = SelectReference(input.keys, input.algorithm_id)

\* AESM answers the request carried in field <<x, "Req">> in the response
\* field <<x, "Res">>.
AesmAnswer(request) == <<request.field[1], "Res">>

\* Every message of define_aesm_message! accepts exactly AESM's successful
\* answer to the Request its From impl builds: a reply in any other field,
\* or a failed transport, is Error::AesmBadResponse.
MessagesPaired ==
  input.kind = "call" =>
    (FromResponse(input.msg, input.res).ok
       <=> /\ input.res.transport = "ok"
           /\ input.res.body = AesmAnswer(RequestOf(input.msg))
           /\ input.res.errorCode = AESM_SUCCESS)

\* (the comment at lib.rs 181-184) quote_buffer_size is conservative: it
\* returns, without panicking, at least the size of a quote whose
\* signature carries one 160-byte nr_proof for each 128-byte entry the
\* revocation list can hold.
QuoteBufferConservative ==
  input.kind = "quote" =>
    \A r \in QuoteBufferSize(input.sigRlLen) :
      /\ ~r.panic
      /\ r.size >= (436 + 288 + 12 + 4 + 16) + 352 + 4 + 4
                    + (input.sigRlLen \div 128) * 160

\* from_u32 is the inverse of into: it accepts exactly the values into
\* produces, maps each back to its QuoteType, and rejects every other u32.
QuoteTypeRoundTrip ==
  input.kind = "quoteType" =>
    (FromU32(input.v).ok <=> \E q \in QuoteTypes : Into(q) = input.v)
    /\ \A q \in QuoteTypes : Into(q) = input.v => FromU32(input.v).val = q

=============================================================================
