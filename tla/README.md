# TLA+ models of the enclave runner relay and the AESM client

This directory holds TLA+ models of the code in `src/`, and the TLC
configurations that check them:

- `src/FortanixVME/enclave-runner/src/server.rs` is the host-side relay that
  opens network connections for an enclave.
- `src/aesm-client/src/lib.rs` is the client-side logic of the AESM
  attestation client.

Run any check from this directory with `tlc -workers 2 -config <cfg> <module>`.

## 1. Inventory

### Components

| Component | Code | State it keeps | Operations |
|---|---|---|---|
| Listener/dispatch loop | `Server::run` (server.rs 211-225) | the control-port listener | bind once; accept, then spawn a worker thread, forever |
| Control-connection handler | `handle_client`, `read_request`, `read_from_stream`, set-up part of `handle_request_connect` (83-112, 155-181, 203-209), worker body (216-222) | per session: the control stream, the remote socket, the ephemeral listener, the proxy stream | read one request in 1024-byte chunks, decode it, connect to the remote, bind port 0, write `Connected{port,..}`, accept one data connection, shut the stream down on error |
| Data-plane relay loop | `handle_request_connect` loop (183-201), `transfer_data` (114-135) | per session: two sockets and one in-flight chunk | `select` on both sockets; for each readable one, read up to 4192 bytes and `write_all` them to the other; break on any error |
| Stream capability abstraction | `ProxyConnection`, `StreamConnection`, TCP impl (12-73) | none | bind to loopback, accept, local/peer address, shutdown |
| Protocol codec | `fortanix_vme_abi` + `serde_cbor` (not in this repository) | none | encode and decode `Request::Connect` and `Response::Connected` |
| Communication logging | `log_communication` (94-99) | none | format and print |
| AESM client | lib.rs | none in this file (the transport `imp/*` is not in the repository) | `select_algorithm_id`, `FromResponse`, the `EinittokenProvider::token` path, `QuoteType` conversions, `quote_buffer_size` |

### How the components interact

The main thread accepts a control connection and spawns one thread per
connection, with no limit on how many. That worker reads one request. It then
connects to the remote, binds an ephemeral listener and tells the enclave the
port. It accepts the enclave's data connection and runs the relay loop between
that connection and the remote socket. Sessions share no memory. They do share
two process-wide resources that nothing bounds: the descriptor table and the
thread limit. Everything that crosses between actors goes through TCP sockets:
enclave to runner, runner to remote, and runner to enclave on the data port.

### What is hard

- **The relay** runs on a single thread that multiplexes two sockets.
  - Its writes block, and short reads are possible.
  - EOF, resets and half-closes arrive in any order from either peer.
  - The readiness result is used after the first transfer has already run.
- **The framing** has no length prefix. A message ends at the first read that
  is shorter than 1024 bytes. This depends on TCP segmentation and on the
  message length.
- **Set-up** has no timeouts. An enclave that disappears leaves a worker
  blocked in `accept` forever.
- **The listener** spawns workers without any bound. Running out of
  descriptors or threads reaches the `unwrap` on `accept` and the `?` on the
  spawn. The numbers the kernel gives the descriptors depend on every
  session, and `select` cannot take a number at or above `FD_SETSIZE`.
- **The request reader** recurses once per full buffer. The stack, not the
  protocol, bounds a request.

### Properties that make each component correct

- **Relay.** Each direction behaves as an ordered pipe: no loss,
  duplication, reordering or misrouting while the direction is alive. Every
  byte is eventually forwarded while the receiver reads. An orderly close ends
  the loop.
- **Session.** A well-formed request is read whole. No enclave is left
  waiting: every session reaches the relay or shuts its control stream down. Errors shut down only the session's
  own stream.
- **Server.** A failure on one connection never stops the listener.
- **AESM client.** The first matching whole key id is selected. Each
  message accepts exactly AESM's answer to its own request. The quote buffer is
  never smaller than the quote.

## 2. Modules

| Module | Models | State (VARIABLES) → code | Actions → code |
|---|---|---|---|
| `Pipe` | the contract of the relay (abstract) | `sent`, `transit`, `delivered`, `broken` per direction | `Send`, `Deliver`, `Fail` (a broken direction may lose a segment) |
| `Relay` | relay loop + `transfer_data` | `rx`/`tx` are the receive/send buffers of the `proxy` and `remote` sockets (bounded by `Cap`); `peer`, `reset` and `fin` are the peer's socket state (`fin`: its FIN arrived, after which a read returns 0 even once the connection is reset); `pc`, `cur`, `ready` and `buf` are the thread's position, the socket being served, the `fd_set`, and the chunk being written | `Select` (184-189), `Read` (116, 124), `Write` (`write_all`, 125), `AfterTransfer` (the second `if`, 194), and the peers' `PeerSend`/`PeerRecv`/`PeerShutdown`/`PeerClose`; `DropSockets` (200) resets a socket dropped with unread input and discards what it still had to send; peers in the constant `WriteFirst` read only after sending everything |
| `Session` | control-connection worker + enclave | `phase[c]` is the worker's position in `handle_client`; `req`, `arrived` and `got` are the request, what has reached the socket, and what has been read; `encl[c]` is the enclave; `arrivals[c]` lists who connected to the ephemeral listener, in order | `Spawn`, `Read` (`read_from_stream` + decode), `ConnectRemote`, `BindProxy`, `Respond`, `AcceptProxy`, `RelayEnd`, `ShutdownOnError`, and the enclave's `EnclaveOpen`/`EnclaveSend`/`EnclaveConnectData`/`EnclaveGiveUp`, and `StrayConnect` (another local process connects to the port) |
| `Server` | `Server::run` over `Session` (EXTENDS) | adds `alive` (the process is running) | `AcceptAndSpawn` (accept `unwrap`, spawn `?`); `StackOverflow` (the recursion of `read_from_stream` past `StackFrames` frames, line 89, aborts the process); `ServerFairness` gives every spawned thread its own fairness |
| `FdNumbers` | descriptor numbers over `Server` (EXTENDS) | adds `high[c]`: the sockets of `c` numbered at or above `FD_SETSIZE`. Numbers are allocated lowest first, so a new one is high exactly when all `FdSetSize` low numbers are held (`LowInUse`) | every `Server` step with `Renumber`; `SelectPanics` (`FdSet::insert` panics, 185-187, and the worker unwinds) |
| `AesmClient` | lib.rs functions | `input` is the input under test, one test kind per state | operators `SelectAlgorithmId` (RECURSIVE), `Messages` (the `define_aesm_message!` rows), `RequestOf`, `FromResponse`, `Token`, `Into`/`FromU32` (the `QuoteType` conversions), `QuoteBufferSize` (u32 arithmetic from 16-bit halves, with the overflow-check panic as a second outcome) |

`Relay` is checked to implement `Pipe` by `Abstract == INSTANCE Pipe WITH
transit <- ..., broken <- ...`. The tokens sent from side `s` that are still
in transit are `tx[Other(s)] \o buf \o rx[s]`. A direction is broken once its
receiver has closed or the loop has ended.

Resources in `Session`: `Sockets` gives the sockets each phase holds and
`Held` their number, and
`FdsInUse` sums them, plus one for the control listener. Socket creation and
`accept` fail with EMFILE at `FdLimit`. This is how sessions interact in
`Session` and `Server`.

Abstractions, each justified by what the properties distinguish:

- Relay payload bytes are tokens `<<side, i>>`, which is enough to detect
  loss, duplication, reordering and misrouting.
- Request bytes are counted in units of a scaled `BUFF_SIZE`. CBOR decoding is
  `Decodes`: only the whole of a well-formed request decodes.
- Logging is left out.

## 3. Runs

| Run | cfg | Expect | Checks | Shows |
|---|---|---|---|---|
| `relay_pipe` | `MCRelay.cfg` | pass | `TypeOK`, `RelayImplementsPipe`, `Delivery` | The loop is an ordered pipe in each direction that loses bytes only toward a closed peer or after the loop ends. No direction starves the other. |
| `relay_close` | `MCRelayClose.cfg` | violation | `OrderlyCloseTerminates` | Both peers close cleanly, and the loop then alternates `select` and `read → Ok(0)` forever. |
| `session_progress` | `MCSession.cfg` | pass | `TypeOK`, `SessionProgress` | Two sessions run under descriptor pressure, and one may block forever in `accept` or relay forever. An enclave that has sent a request whose length is not a multiple of `BUFF_SIZE` is still never left waiting. Its worker reaches the relay, or it ends and shuts the control stream down. The property counts every error path as an end, so it does not say the request was served (see `session_framing`). |
| `session_framing` | `MCSessionFraming.cfg` | violation | `WholeRequestRead` | A valid 3-unit request has 1 unit arrived when the worker reads. The first read returns 1 < `BUFF_SIZE`, decoding fails, and the session is shut down. |
| `server_containment` | `MCServer.cfg` | violation | `ListenerSurvives` | One session in set-up holds 3 descriptors, and the listener holds 1 more, which reaches `FdLimit` = 4. The next accept fails, and the `unwrap` ends the process. |
| `fd_contained` | `MCFdContained.cfg` | pass | `ListenerSurvives` | The `FD_SETSIZE` panic of finding 8 happens in some interleavings of the two sessions. In all of them it unwinds only its own worker, so the process and the listener keep running. |
| `aesm_pure` | `MCAesmClient.cfg` | pass | `SelectMatchesReference`, `MessagesPaired`, `QuoteBufferConservative`, `QuoteTypeRoundTrip` | `select_algorithm_id` equals a reference definition on all 364 key buffers of up to 5 bytes. Each of the 8 messages accepts AESM's answer to its own request and nothing else. `quote_buffer_size` is conservative up to length 858993459, the last whose product fits in a u32. `QuoteType` converts to a u32 and back unchanged, and every other u32 is rejected. |
| `relay_write_first` | `MCRelayWriteFirst.cfg` | violation | `Delivery` | The remote sends its whole response before reading. The proxy sends 3 tokens. The relay fills the remote's buffer and blocks in `write_all`, while the remote blocks writing into the relay's full receive buffer. |
| `session_stray` | `MCSessionStray.cfg` | violation | `ProxyIsEnclave` | Another local process connects to the ephemeral port before the enclave. It is accepted and relayed. |
| `server_stack` | `MCServerStack.cfg` | violation | `ListenerSurvives` | With descriptors and threads to spare, a 5-unit request needs a third `read_from_stream` frame where the stack holds two. The overflow aborts the process. |
| `fd_setsize` | `MCFdNumbers.cfg` | violation | `RelayFdsFit` | `FdLimit` (9) is above `FdSetSize` (5). One session is set up while another's control stream holds a low number, and its proxy socket gets number 5, which `FdSet` cannot hold. |
| `aesm_quote_wrap` | `MCAesmQuoteWrap.cfg` | violation | `QuoteBufferConservative` | At 858993460 bytes the product wraps to 4, and the buffer is sized at 1245 bytes. |

Each property of a passing run also has a mutant: a plausible bug in the
mapped code that TLC shows the property catches. The mutants are listed in
`PROJECT.json`, and each is defined next to the definition it mutates.

| Property | Mutated definition | Mutation |
|---|---|---|
| Relay `TypeOK` | `Read` | the whole buffer handed to `write_all` (`&buff`, not `&buff[0..n]`), zeros included |
| `RelayImplementsPipe` | `Write` | `write` in place of `write_all` |
| `Delivery` | `AfterTransfer` | `else if` in place of the second `if` |
| Session `TypeOK` | `Read` | the unsliced buffer is appended |
| `SessionProgress` | `Read` | the stream is read to EOF |
| `SelectMatchesReference` | `SelectAlgorithmId` | the last match wins |
| `MessagesPaired` | `Messages` | one row copied from its neighbour with its `has_` accessor left unrenamed |
| `QuoteBufferConservative` | `QuoteBufferSize` | the factor inverted, `* 4 / 5` |
| `ListenerSurvives` (`fd_contained`) | `SelectPanics` | a build with `panic = "abort"`, so the worker's panic ends the process |
| `QuoteTypeRoundTrip` | `FromU32` | the two codes swapped |

### Bounds and why they are enough

- **`MCRelay`**: `Chunk = 2`, `Cap = 2`, `MaxSend = 3` per peer.
  - Reads return one or two tokens.
  - `write_all` can stop half way through a chunk.
  - Both directions fill at once.
  - The peers can half-close, close or reset at any point.
  - About 35k states.
  - `MCRelayWriteFirst.cfg` lets the remote write first. Three tokens from
    the proxy exceed what `tx["remote"]` (2) can hold, and two tokens from the
    remote fill `rx["remote"]` while the remote still has one to send. This
    is the smallest instance in which both sides block.
- **`MCSession`**: two connections, `B = 2`, and request lengths {1, 2, 3}.
  These are below, equal to and above one buffer, so they exercise a short
  read, the exact multiple, and the recursive read. `FdLimit = 6` lets one
  relaying session starve the other of descriptors. A stray local process
  may connect once to each ephemeral port. About 49k states.
- **`MCServer`**: `FdLimit = 4`, so a single session in set-up reaches the
  limit. `StackFrames = 2` with requests of at most 3 units never overflows;
  `MCServerStack.cfg` sends 5 units (three full reads of `B = 2`) under
  `FdLimit = 9`, enough for two relaying sessions, so the stack is the only
  way to stop the process. A real worker stack of 2 MiB holds roughly 1800
  frames of a 1 KiB buffer, about 2 MB of request.
- **`MCFdNumbers`**: two connections, `FdLimit = 9` and `FdSetSize = 5`. The
  five low numbers are enough for the listener and one relaying session.
  Once any five sockets hold them, the next socket created gets the first
  high number. The real numbers are 1021 low
  descriptors (1024 less the three standard streams) and about 255 relaying
  sessions. `MCFdContained.cfg` uses the same instance.
- **`MCAesmClient`**: two-byte records with the id in byte 2. Buffers of up
  to 5 bytes give 0, 1 or 2 whole records plus a possible trailing partial
  record. Replies cover every field of the Request and Response oneofs, no
  field at all, both transports and two codes. `MCSigRlLens` runs from 0 to
  858993459, the largest length whose product by 5 fits in a u32.
  `MCSigRlLensWrap` takes the first length that wraps, and one far beyond it.
  Lengths stay below 2^31, where `as u32` is the identity. `MCU32Values`
  = {0, 1, 2, 2147483647}: both codes, the first invalid code, and a large one. Truncation of
  lists above 4 GiB is not enumerated.

### Fairness

- **Relay.** The thread has weak fairness on its steps (`WF_vars(Relay)`),
  since the OS schedules a runnable thread. Peers that have not closed have
  weak fairness on reading. This is an assumption about the environment, and
  without it `Delivery` cannot hold. Sending, shutting down and closing are
  not fair, because peers may stay idle. The exception is a peer in
  `WriteFirst`, which is fair in sending: it means to send everything before
  it reads.
- **Session.** Workers are weakly fair on every step up to the relay and on
  error shutdown. The relay phase need not end, so `RelayEnd` is not fair.
  The main thread's spawn is fair. A live enclave is fair in finishing its
  request and in connecting to the port it was given. Giving up is not fair.
- **Server.** `ServerFairness` keeps Session's fairness, one `WF` per
  thread, for the process as a whole. The runs of `Server` and `FdNumbers`
  check only invariants. A liveness run of `Server` would repeat
  `SessionProgress`: while the process lives, `AcceptAndSpawn` adds no guard
  that ties one connection to another.

Symmetry is not used, because the passing runs check liveness.

### Deadlock checking

`CHECK_DEADLOCK FALSE` is set in every cfg, because the system really does
stop:

- The relay blocks in `select` forever once both peers are idle.
- A worker blocks in `accept` for an enclave that has gone away.
- All sessions may end.
- `AesmClient` has no transitions at all.

## 4. Findings

1. **The relay never ends on an orderly close** (`relay_close`,
   server.rs:124). `transfer_data` returns `Ok(0)` at EOF, and the loop breaks
   only on an error. After both peers close cleanly, the thread busy-loops
   forever and keeps both sockets and the ephemeral listener open. Spec §4.5
   and §8 say that a zero-length read terminates the loop.
2. **Segmented requests are rejected** (`session_framing`, server.rs:88).
   `read_from_stream` ends the message at the first short read. A
   well-formed request that reaches the runner in two segments is therefore
   cut and fails to decode. The spec names only the exact-multiple weakness.
3. **A failed accept kills the listener** (`server_containment`,
   server.rs:215). The number of sessions is unbounded, so descriptors can run
   out. The next `accept` then fails, and its `unwrap` panics the main thread,
   which ends the process and every session. The spawn `?` at line 223 stops
   `run` in the same way. The spec says accept failures are logged and that
   errors are contained to their session. `AcceptAndSpawn` models both
   failures, but every cfg allows two threads for two connections, so only
   the accept failure occurs. The spawn failure is the same `alive' = FALSE`
   step under a different guard.
4. **A write-first remote deadlocks the relay** (`relay_write_first`,
   server.rs:125). One thread serves both directions. While it blocks in
   `write_all` toward a remote that is not reading, it does not read from
   that remote. A remote that writes its response before it reads the rest of
   the request is therefore blocked too, and the session hangs with both
   peers alive. Over a direct connection the enclave, which reads as it
   writes, would drain the response and the exchange would finish. Spec §1
   and §4.5 say that bytes are pumped in both directions until a close or an
   error.
5. **The ephemeral port accepts any local process** (`session_stray`,
   server.rs:180). `incoming().next()` takes the first connection in the
   backlog. A local process that connects to the port before the enclave
   does receives the remote's bytes and can write to the remote. The
   enclave's own connection is never accepted. Spec §4.4 says the port exists
   solely for the enclave's data connection. Neither the spec nor the code
   says how the connection is bound to the enclave; `local_addr` and
   `peer_addr` in the response are for the enclave's own correlation.
6. **`quote_buffer_size` wraps** (`aesm_quote_wrap`, lib.rs:185). For
   revocation lists of 858993460 bytes or more, `len as u32 * 5` overflows.
   A release build returns a buffer of about 1.2 kB, and a build with
   overflow checks panics. The comment above the line says the computation is
   conservative. Such lists are far beyond real EPID revocation lists.
7. **A long request aborts the runner** (`server_stack`, server.rs:89).
   `read_from_stream` calls itself after every full 1024-byte read, with a
   1 KiB array in each frame and no bound on the length. Any process that can
   reach the control port can send about 2 MB without a pause. The worker's
   stack then overflows, and Rust aborts the whole process, not just the
   thread. Spec §4.6 and §8 say a worker's failure never reaches the
   listener.
8. **`select` limits the number of sessions** (`fd_setsize`,
   server.rs:185). `FdSet::insert` panics for a descriptor at or above
   `FD_SETSIZE` (1024). Each relaying session holds four descriptors, and
   the kernel hands out the lowest free number. Under an `RLIMIT_NOFILE`
   raised above 1024, once about 255 sessions relay at once, every new
   session's worker panics before its first `select`, and the enclave's
   connection is dropped. Spec §4.6 says workers are unbounded in count.
   `poll` has no such limit. Unlike finding 7, the panic unwinds only its
   own worker (with the default `panic = "unwind"`), so the listener and the
   other sessions keep running. `fd_contained` checks this.

## 5. Not modelled, and why

- **The codec crate and `serde_cbor`.** They are not in this repository.
  Their effect on control flow is `Decodes`.
- **Logging.** It is formatting only.
- **Address strings and `remote_name`.** They are used only for logging.
- **The AESM transport (`imp/*`).** It is not in this repository.
- **Relay inside `Session`.** The two interact only through `RelayEnd`,
  which `Relay` enables when its `pc` is `"done"`. Composing them would
  multiply the 35k relay states by every session state and say nothing new.
  Finding 1 already shows that an orderly close never reaches `"done"`.
- **A direct connection as a baseline.** Finding 4 compares the relay with a
  direct TCP connection. That comparison is an argument about TCP, not about
  this code, so it is stated in prose.
- **`AesmRequest::get_timeout` (lib.rs 325-332).** It maps the protobuf
  `has_timeout` flag to an `Option`. A property about it would restate the
  guard. Its only user is the transport, which is not in the repository.
- **The short write of the `Connected` response (line 177).** It is not
  reachable with blocking TCP and no signal handlers.

## 6. Plan

Done: `Pipe`, `Relay` and its refinement, `Session`, `Server`, `FdNumbers`
and `AesmClient`. Every hazard in `PROJECT.json` except the short write of
line 177 has a property. What remains would check code outside this
repository: the AESM transport `imp/*` and the codec crate. A model of those
would have to start from their own sources.
