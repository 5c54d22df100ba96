------------------------------- MODULE Session ------------------------------
(***************************************************************************)
(* The worker thread of one control connection and the enclave at its      *)
(* other end: Server::handle_client (server.rs 203-209), read_request      *)
(* (101-112), read_from_stream (83-92), the set-up part of                 *)
(* handle_request_connect (155-180) and the thread body spawned by         *)
(* Server::run (216-222).  The data-plane loop that follows the accept is  *)
(* the Relay module; here it is one phase that ends when the loop breaks.  *)
(*                                                                         *)
(* Bytes are counted, not named: a request is a length in units and a     *)
(* flag saying whether it is a well-formed CBOR Request::Connect.  B is    *)
(* BUFF_SIZE in the same units.  The enclave writes its request in one or  *)
(* more TCP segments; a read returns what has arrived, up to B.            *)
(*                                                                         *)
(* phase[c], the worker of connection c:                                   *)
(*   "idle"     no such connection yet                                     *)
(*   "pending"  the enclave connected; waiting in the listener's backlog   *)
(*   "read"     read_from_stream                                           *)
(*   "connect"  TcpStream::connect(remote_addr)                            *)
(*   "bind"     TcpListener::bind("127.0.0.1:0")                           *)
(*   "respond"  writing Response::Connected                                *)
(*   "accept"   proxy_server.incoming().next(): waiting for the enclave    *)
(*   "relay"    the select loop (Relay)                                    *)
(*   "failed"   handle_client returned Err; the thread will shut the       *)
(*              control stream down                                        *)
(*   "closed"   the thread has ended and dropped its sockets               *)
(* encl[c], the enclave: "idle", "sending" its request, "waiting" for the  *)
(* response, "gotPort", "connected" to the data port, or "gone" (it closed *)
(* the control stream or crashed).                                         *)
(* arrivals[c] lists, in order, who connected to the ephemeral listener of *)
(* c: the enclave, or a "stray" local process that found the port first.   *)
(* Every socket holds a descriptor; socket creation and accept fail with   *)
(* EMFILE when the process holds FdLimit of them.                          *)
(***************************************************************************)
EXTENDS Naturals, Sequences, FiniteSetsExt

CONSTANTS
  Conns,    \* control connections, model values
  B,        \* BUFF_SIZE, in request units
  MsgLens,  \* lengths a request can have, in the same units
  FdLimit   \* descriptors the process may hold (RLIMIT_NOFILE)

ASSUME B \in Nat \ {0} /\ MsgLens \subseteq Nat /\ FdLimit \in Nat

VARIABLES phase, req, arrived, got, encl, arrivals

sessionVars == <<phase, req, arrived, got, encl, arrivals>>

Phases == {"idle", "pending", "read", "connect", "bind", "respond",
           "accept", "relay", "failed", "closed"}

Least(a, b) == IF a < b THEN a ELSE b
MaxLen == Max(MsgLens)

\* Sockets a worker holds in each phase: the control stream from "read"
\* on, the remote socket from "bind", the ephemeral listener from
\* "respond", the proxy stream in "relay".  handle_request_connect drops
\* what it created when it returns, so a failed worker holds only the
\* control stream.  Each holds one descriptor.
Sockets == [p \in Phases |->
             CASE p \in {"read", "connect", "failed"} -> {"control"}
               [] p = "bind"                   -> {"control", "remote"}
               [] p \in {"respond", "accept"}  -> {"control", "remote", "listener"}
               [] p = "relay"                  -> {"control", "remote", "listener", "proxy"}
               [] OTHER                        -> {}]

Held == [p \in Phases |-> Cardinality(Sockets[p])]

\* The control listener bound by Server::run, plus every worker's sockets.
FdsInUse == 1 + MapThenSumSet(LAMBDA c : Held[phase[c]], Conns)

FdFree == FdsInUse < FdLimit

TypeOK ==
  /\ phase \in [Conns -> Phases]
  /\ req \in [Conns -> [len : MsgLens \cup {0}, valid : BOOLEAN]]
  /\ arrived \in [Conns -> 0..MaxLen]
  /\ got \in [Conns -> 0..MaxLen]
  /\ \A c \in Conns : got[c] <= arrived[c] /\ arrived[c] <= req[c].len
  /\ encl \in [Conns -> {"idle", "sending", "waiting", "gotPort",
                         "connected", "gone"}]
  /\ arrivals \in [Conns -> Seq({"enclave", "stray"})]

Init ==
  /\ phase = [c \in Conns |-> "idle"]
  /\ req = [c \in Conns |-> [len |-> 0, valid |-> FALSE]]
  /\ arrived = [c \in Conns |-> 0]
  /\ got = [c \in Conns |-> 0]
  /\ encl = [c \in Conns |-> "idle"]
  /\ arrivals = [c \in Conns |-> <<>>]

SetPhase(c, p) == phase' = [phase EXCEPT ![c] = p]

(***************************************************************************)
(* The enclave.                                                            *)
(***************************************************************************)

\* The enclave opens a control connection; it will send a request that is
\* a well-formed Connect or not.
EnclaveOpen(c) ==
  /\ encl[c] = "idle"
  /\ \E len \in MsgLens, valid \in BOOLEAN :
       req' = [req EXCEPT ![c] = [len |-> len, valid |-> valid]]
  /\ encl' = [encl EXCEPT ![c] = "sending"]
  /\ SetPhase(c, "pending")
  /\ UNCHANGED <<arrived, got, arrivals>>

\* The next segment of the request reaches the runner's socket.
EnclaveSend(c) ==
  /\ encl[c] = "sending"
  /\ \E k \in 1..(req[c].len - arrived[c]) :
       /\ arrived' = [arrived EXCEPT ![c] = @ + k]
       /\ encl' = [encl EXCEPT ![c] = IF arrived'[c] = req[c].len
                                        THEN "waiting" ELSE "sending"]
  /\ UNCHANGED <<phase, req, got, arrivals>>

\* Having read the port from Response::Connected, the enclave opens the
\* data connection.  The kernel completes it into the listener's backlog
\* while the worker still holds the listener (until handle_request_connect
\* returns); afterwards the port refuses it and the enclave gives up.
EnclaveConnectData(c) ==
  /\ encl[c] = "gotPort"
  /\ \/ /\ phase[c] \notin {"failed", "closed"}
        /\ encl' = [encl EXCEPT ![c] = "connected"]
        /\ arrivals' = [arrivals EXCEPT ![c] = Append(@, "enclave")]
     \/ /\ phase[c] \in {"failed", "closed"}
        /\ encl' = [encl EXCEPT ![c] = "gone"]
        /\ UNCHANGED arrivals
  /\ UNCHANGED <<phase, req, arrived, got>>

\* The enclave closes the control stream or crashes, at any point before
\* it has a data connection.
EnclaveGiveUp(c) ==
  /\ encl[c] \in {"sending", "waiting", "gotPort"}
  /\ encl' = [encl EXCEPT ![c] = "gone"]
  /\ UNCHANGED <<phase, req, arrived, got, arrivals>>

\* Another local process connects to the ephemeral port of c (bound to
\* 127.0.0.1 from line 161 until the worker's thread ends), once.
StrayConnect(c) ==
  /\ phase[c] \in {"respond", "accept", "relay"}
  /\ "stray" \notin Range(arrivals[c])
  /\ arrivals' = [arrivals EXCEPT ![c] = Append(@, "stray")]
  /\ UNCHANGED <<phase, req, arrived, got, encl>>

(***************************************************************************)
(* The worker of connection c.                                             *)
(***************************************************************************)

\* server.rs 216-218: run hands the accepted stream to a new thread.
Spawn(c) ==
  /\ phase[c] = "pending"
  /\ SetPhase(c, "read")
  /\ UNCHANGED <<req, arrived, got, encl, arrivals>>

\* read_request line 103: serde_cbor::from_slice(&buff) yields a Request
\* only for the whole of a well-formed request and nothing else.
Decodes(c, len) == req[c].valid /\ len = req[c].len

\* Mutant of Read: the whole BUFF_SIZE buffer is appended, not buff[0..n].
ReadUnsliced(c) ==
  LET n == Least(B, arrived[c] - got[c]) IN
  /\ phase[c] = "read"
  /\ n > 0 \/ encl[c] = "gone"
  /\ got' = [got EXCEPT ![c] = @ + B]
  /\ SetPhase(c, IF n = B THEN "read"
                 ELSE IF Decodes(c, got'[c]) THEN "connect" ELSE "failed")
  /\ UNCHANGED <<req, arrived, encl, arrivals>>

\* Mutant of Read: keep reading while a read returns any bytes (n > 0)
\* instead of a full buffer, i.e. read the control stream to EOF.
ReadToEof(c) ==
  LET n == Least(B, arrived[c] - got[c]) IN
  /\ phase[c] = "read"
  /\ n > 0 \/ encl[c] = "gone"
  /\ got' = [got EXCEPT ![c] = @ + n]
  /\ SetPhase(c, IF n > 0 THEN "read"
                 ELSE IF Decodes(c, got'[c]) THEN "connect" ELSE "failed")
  /\ UNCHANGED <<req, arrived, encl, arrivals>>

\* read_from_stream: one stream.read into a BUFF_SIZE buffer (line 85).
\* It blocks until something arrived or the enclave closed.  A full buffer
\* (n == BUFF_SIZE, line 88) reads again; a shorter one (0 at EOF) ends
\* the message, which read_request decodes at once.  A decode error makes
\* handle_client return Err (line 206).
Read(c) ==
  LET n == Least(B, arrived[c] - got[c]) IN
  /\ phase[c] = "read"
  /\ n > 0 \/ encl[c] = "gone"
  /\ got' = [got EXCEPT ![c] = @ + n]
  /\ SetPhase(c, IF n = B THEN "read"
                 ELSE IF Decodes(c, got'[c]) THEN "connect" ELSE "failed")
  /\ UNCHANGED <<req, arrived, encl, arrivals>>

\* Line 157: TcpStream::connect(remote_addr)?; the remote may refuse or be
\* unreachable, and the socket needs a descriptor.
ConnectRemote(c) ==
  /\ phase[c] = "connect"
  /\ \/ FdFree /\ SetPhase(c, "bind")
     \/ SetPhase(c, "failed")
  /\ UNCHANGED <<req, arrived, got, encl, arrivals>>

\* Lines 161-162: TcpListener::bind("127.0.0.1:0")? and its local port.
BindProxy(c) ==
  /\ phase[c] = "bind"
  /\ \/ FdFree /\ SetPhase(c, "respond")
     \/ SetPhase(c, "failed")
  /\ UNCHANGED <<req, arrived, got, encl, arrivals>>

\* TcpStream::peer (lines 62-64): getpeername fails once an enclave that
\* went away has reset the connection.
PeerAddrFails(c) == encl[c] = "gone"

\* Lines 165-177: Response::Connected{port, enclave.local()?,
\* enclave.peer()?} written to the control stream.  A write to an enclave
\* that has gone away but not yet reset still succeeds; the response is
\* lost.
Respond(c) ==
  /\ phase[c] = "respond"
  /\ \/ /\ SetPhase(c, "accept")
        /\ encl' = [encl EXCEPT ![c] = IF @ = "waiting" THEN "gotPort" ELSE @]
     \/ /\ PeerAddrFails(c)
        /\ SetPhase(c, "failed")
        /\ UNCHANGED encl
  /\ UNCHANGED <<req, arrived, got, arrivals>>

\* Line 180: block until a connection arrives on the ephemeral listener;
\* no timeout.  incoming().next() takes the first one in the backlog,
\* whoever made it.  accept itself needs a descriptor.
AcceptProxy(c) ==
  /\ phase[c] = "accept"
  /\ arrivals[c] # <<>>
  /\ IF FdFree THEN SetPhase(c, "relay") ELSE SetPhase(c, "failed")
  /\ UNCHANGED <<req, arrived, got, encl, arrivals>>

\* The select loop breaks (only on a read or write error, see Relay);
\* handle_request_connect returns Ok and the thread ends, dropping every
\* socket.
RelayEnd(c) ==
  /\ phase[c] = "relay"
  /\ SetPhase(c, "closed")
  /\ UNCHANGED <<req, arrived, got, encl, arrivals>>

\* Lines 219-221: on Err the thread logs, shuts the control stream down
\* and ends.
ShutdownOnError(c) ==
  /\ phase[c] = "failed"
  /\ SetPhase(c, "closed")
  /\ UNCHANGED <<req, arrived, got, encl, arrivals>>

\* The worker's steps up to the relay and after an error.
SetUp(c) ==
  \/ Read(c) \/ ConnectRemote(c) \/ BindProxy(c) \/ Respond(c)
  \/ AcceptProxy(c) \/ ShutdownOnError(c)

Worker(c) == SetUp(c) \/ RelayEnd(c)

Enclave(c) ==
  EnclaveOpen(c) \/ EnclaveSend(c) \/ EnclaveConnectData(c) \/ EnclaveGiveUp(c)

Local(c) == StrayConnect(c)

Next == \E c \in Conns : Spawn(c) \/ Worker(c) \/ Enclave(c) \/ Local(c)

\* Every thread runs when it can; an enclave that keeps going finishes
\* sending its request and connects to the port it was given.  The relay
\* loop need not end.
Fairness ==
  \A c \in Conns :
    /\ WF_sessionVars(Spawn(c))
    /\ WF_sessionVars(SetUp(c))
    /\ WF_sessionVars(EnclaveSend(c))
    /\ WF_sessionVars(EnclaveConnectData(c))

Spec == Init /\ [][Next]_sessionVars /\ Fairness

(***************************************************************************)
(* Properties.                                                             *)
(***************************************************************************)

\* No enclave is left waiting forever: unless the request's length is a
\* multiple of BUFF_SIZE (the TODO at read_from_stream line 87), once the
\* enclave has sent its request in full its worker either reaches the
\* relay or ends, shutting the control stream down so that the enclave's
\* read returns, whatever the other sessions hold or do (one blocked
\* forever in accept, or relaying forever) and however the request was
\* segmented.  Ending includes every error path; it says nothing about
\* whether the request was served.
SessionProgress ==
  \A c \in Conns :
    (encl[c] = "waiting" /\ req[c].len % B # 0)
      ~> (phase[c] \in {"relay", "closed"} \/ encl[c] = "gone")

\* (spec 4.3, 8) A well-formed Connect that a live enclave sent is read
\* whole and decoded: the worker never fails on a part of it.
WholeRequestRead ==
  \A c \in Conns :
    req[c].valid /\ phase[c] = "failed"
      => got[c] = req[c].len \/ encl[c] = "gone"


\* (spec 4.4 steps 2-5, 8 session isolation) The data connection the
\* relay of session c pumps the remote's bytes into is the one the enclave
\* of c opened on the port it was told, never another local process's.
ProxyIsEnclave ==
  \A c \in Conns : phase[c] = "relay" => Head(arrivals[c]) = "enclave"

=============================================================================
