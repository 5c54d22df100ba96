-------------------------------- MODULE Relay -------------------------------
(***************************************************************************)
(* The data-plane relay loop of one session: Server::handle_request_connect *)
(* from the accept of the proxy connection on (server.rs 183-201) together  *)
(* with Server::transfer_data (server.rs 114-135).                         *)
(*                                                                         *)
(* Two TCP sockets of the runner: "proxy" (its peer is the enclave) and    *)
(* "remote" (its peer is the remote server).  Payload bytes are tokens     *)
(* <<side, i>>: the i-th token the peer on that side sent.  For each       *)
(* socket s the model keeps                                                *)
(*   rx[s]   bytes the peer sent that the runner has not read yet,         *)
(*   tx[s]   bytes the runner wrote that the peer has not read yet, at     *)
(*           most Cap of them (a full send buffer blocks write_all),       *)
(*   peer[s] whether that peer is "open", has shut down its writing half   *)
(*           ("wrshut", the runner reads EOF), or has closed the socket,   *)
(*   reset[s] the connection was reset (the peer closed with unread data,  *)
(*           the runner wrote to it after it closed, or the runner         *)
(*           dropped it with unread data): every further read or write of  *)
(*           the runner on s fails, and so does the peer's read,        *)
(*   fin[s]  the peer's FIN has reached s: it shut down or closed in       *)
(*           order.  A read after a FIN returns 0 even once the connection *)
(*           is also reset; only a reset without a FIN fails a read.       *)
(* The runner thread is at pc "select", "read" (transfer_data's read from  *)
(* socket cur), "write" (its write_all of the chunk buf to the other       *)
(* socket) or "done" (the loop broke; the function returned and dropped    *)
(* both sockets).  ready is the fd_set select returned.  Logging is left   *)
(* out: it never changes control flow.                                     *)
(***************************************************************************)
EXTENDS Naturals, Sequences, SequencesExt

CONSTANTS
  Chunk,    \* PROXY_BUFF_SIZE, in tokens: the most one read returns
  Cap,      \* capacity of one direction of a socket, in tokens
  MaxSend,  \* how many tokens each peer sends at most
  WriteFirst \* peers that read nothing until they have sent everything

ASSUME Chunk \in Nat \ {0} /\ Cap \in Nat \ {0} /\ MaxSend \in Nat
       /\ WriteFirst \subseteq {"proxy", "remote"}

Sides == {"proxy", "remote"}
Other(s) == IF s = "proxy" THEN "remote" ELSE "proxy"
Token(s, i) == <<s, i>>
Least(a, b) == IF a < b THEN a ELSE b

VARIABLES rx, tx, peer, reset, fin, sent, delivered, pc, cur, ready, buf

socketVars == <<rx, tx, peer, reset, fin>>
peerVars == <<sent, delivered>>
relayVars == <<pc, cur, ready, buf>>
vars == <<socketVars, peerVars, relayVars>>

TypeOK ==
  /\ rx \in [Sides -> Seq(Sides \X (1..MaxSend))]
  /\ tx \in [Sides -> Seq(Sides \X (1..MaxSend))]
  /\ peer \in [Sides -> {"open", "wrshut", "closed"}]
  /\ reset \in [Sides -> BOOLEAN]
  /\ fin \in [Sides -> BOOLEAN]
  /\ sent \in [Sides -> 0..MaxSend]
  /\ delivered \in [Sides -> Seq(Sides \X (1..MaxSend))]
  /\ pc \in {"select", "read", "write", "done"}
  /\ cur \in Sides
  /\ ready \subseteq Sides
  /\ buf \in Seq(Sides \X (1..MaxSend))
  /\ \A s \in Sides : Len(rx[s]) <= Cap /\ Len(tx[s]) <= Cap
  /\ Len(buf) <= Chunk

Init ==
  /\ rx = [s \in Sides |-> <<>>]
  /\ tx = [s \in Sides |-> <<>>]
  /\ peer = [s \in Sides |-> "open"]
  /\ reset = [s \in Sides |-> FALSE]
  /\ fin = [s \in Sides |-> FALSE]
  /\ sent = [s \in Sides |-> 0]
  /\ delivered = [s \in Sides |-> <<>>]
  /\ pc = "select"
  /\ cur = "proxy"
  /\ ready = {}
  /\ buf = <<>>

(***************************************************************************)
(* The runner thread.                                                      *)
(***************************************************************************)

\* select reports a socket readable when it has data, EOF or a pending error.
Readable(s) == rx[s] # <<>> \/ peer[s] # "open" \/ reset[s]

\* Mutant of AfterTransfer: the second test written as `else if`, so the
\* remote socket is served only when the proxy socket was not ready.
AfterTransferElseIf ==
  pc' = "select" /\ UNCHANGED cur

\* What follows a transfer_data that returned Ok(n), n >= 0: the second
\* `if` of the loop body tests the remote socket against the same fd_set,
\* otherwise the loop goes back to select.
AfterTransfer ==
  IF cur = "proxy" /\ "remote" \in ready
    THEN pc' = "read" /\ cur' = "remote"
    ELSE pc' = "select" /\ UNCHANGED cur

\* server.rs 184-189: block in select(2) until a socket is readable; the
\* first transfer is the proxy's if it is in the set, else the remote's.
Select ==
  /\ pc = "select"
  /\ \E s \in Sides : Readable(s)
  /\ ready' = {s \in Sides : Readable(s)}
  /\ cur' = IF Readable("proxy") THEN "proxy" ELSE "remote"
  /\ pc' = "read"
  /\ UNCHANGED <<socketVars, peerVars, buf>>

\* Line 200: the loop has broken and handle_request_connect returns,
\* dropping proxy and remote_socket.  Closing a socket whose receive
\* buffer still holds unread bytes resets the connection instead of
\* closing it in order: the kernel discards what it had yet to send to
\* that peer, and the peer's next read fails.
DropSockets ==
  /\ tx' = [s \in Sides |-> IF rx[s] = <<>> THEN tx[s] ELSE <<>>]
  /\ reset' = [s \in Sides |-> reset[s] \/ rx[s] # <<>>]

\* Mutant of Read: the chunk handed to write_all is the whole buffer,
\* `&buff` in place of `&buff[0..n]`; past the n bytes read it holds the
\* zeros it was initialised with, Token(cur, 0) here.
ReadWholeBuffer ==
  /\ pc = "read"
  /\ \/ /\ rx[cur] = <<>>
        /\ reset[cur]
        /\ ~fin[cur]
        /\ pc' = "done"
        /\ DropSockets
        /\ UNCHANGED <<rx, cur, buf>>
     \/ /\ rx[cur] # <<>>
        /\ \E n \in 1..Least(Chunk, Len(rx[cur])) :
             /\ buf' = SubSeq(rx[cur], 1, n) \o [i \in 1..(Chunk - n) |-> Token(cur, 0)]
             /\ rx' = [rx EXCEPT ![cur] = SubSeq(@, n + 1, Len(@))]
        /\ pc' = "write"
        /\ UNCHANGED <<cur, tx, reset>>
     \/ /\ rx[cur] = <<>>
        /\ fin[cur]
        /\ AfterTransfer
        /\ UNCHANGED <<rx, buf, tx, reset>>
  /\ UNCHANGED <<peer, fin, peerVars, ready>>

\* transfer_data line 116: src.read(&mut buff).  Queued data yields
\* 1..PROXY_BUFF_SIZE bytes, even after a reset; then a reset that came
\* without a FIN fails the read and `is_err()` breaks the loop; after a
\* FIN the read yields Ok(0), which skips the write (line 124) and is
\* returned as Ok.
Read ==
  /\ pc = "read"
  /\ \/ /\ rx[cur] = <<>>
        /\ reset[cur]
        /\ ~fin[cur]
        /\ pc' = "done"
        /\ DropSockets
        /\ UNCHANGED <<rx, cur, buf>>
     \/ /\ rx[cur] # <<>>
        /\ \E n \in 1..Least(Chunk, Len(rx[cur])) :
             /\ buf' = SubSeq(rx[cur], 1, n)
             /\ rx' = [rx EXCEPT ![cur] = SubSeq(@, n + 1, Len(@))]
        /\ pc' = "write"
        /\ UNCHANGED <<cur, tx, reset>>
     \/ /\ rx[cur] = <<>>
        /\ fin[cur]
        /\ AfterTransfer
        /\ UNCHANGED <<rx, buf, tx, reset>>
  /\ UNCHANGED <<peer, fin, peerVars, ready>>

\* Mutant of Write: `dst.write` instead of `write_all`, the count it
\* returns ignored, so the unwritten rest of the chunk is dropped.
WriteOnce ==
  LET dst == Other(cur) IN
  /\ pc = "write"
  /\ \/ /\ reset[dst]
        /\ pc' = "done"
        /\ buf' = <<>>
        /\ DropSockets
        /\ UNCHANGED cur
     \/ /\ ~reset[dst]
        /\ peer[dst] = "closed"
        /\ reset' = [reset EXCEPT ![dst] = TRUE]
        /\ buf' = <<>>
        /\ AfterTransfer
        /\ UNCHANGED tx
     \/ /\ ~reset[dst]
        /\ peer[dst] # "closed"
        /\ Len(tx[dst]) < Cap
        /\ \E k \in 1..Least(Len(buf), Cap - Len(tx[dst])) :
             tx' = [tx EXCEPT ![dst] = @ \o SubSeq(buf, 1, k)]
        /\ buf' = <<>>
        /\ AfterTransfer
        /\ UNCHANGED reset
  /\ UNCHANGED <<rx, peer, fin, peerVars, ready>>

\* transfer_data line 125: dst.write_all(&buff[0..n]).  It writes as much
\* as the send buffer takes and blocks for the rest.  Writing to a reset
\* connection fails (EPIPE) and breaks the loop; writing to a peer that has
\* closed without a reset yet succeeds, the bytes are discarded and the
\* peer answers with a reset.
Write ==
  LET dst == Other(cur) IN
  /\ pc = "write"
  /\ \/ /\ reset[dst]
        /\ pc' = "done"
        /\ buf' = <<>>
        /\ DropSockets
        /\ UNCHANGED cur
     \/ /\ ~reset[dst]
        /\ peer[dst] = "closed"
        /\ reset' = [reset EXCEPT ![dst] = TRUE]
        /\ buf' = <<>>
        /\ AfterTransfer
        /\ UNCHANGED tx
     \/ /\ ~reset[dst]
        /\ peer[dst] # "closed"
        /\ Len(tx[dst]) < Cap
        /\ \E k \in 1..Least(Len(buf), Cap - Len(tx[dst])) :
             /\ tx' = [tx EXCEPT ![dst] = @ \o SubSeq(buf, 1, k)]
             /\ buf' = SubSeq(buf, k + 1, Len(buf))
        /\ IF buf' = <<>> THEN AfterTransfer ELSE UNCHANGED <<pc, cur>>
        /\ UNCHANGED reset
  /\ UNCHANGED <<rx, peer, fin, peerVars, ready>>

(***************************************************************************)
(* The peers: the enclave behind "proxy", the remote server behind         *)
(* "remote".  They send, read, shut down their writing half or close, in   *)
(* any order.  A peer in WriteFirst (an application that sends its whole  *)
(* request or response before it reads, over a full-duplex socket) reads   *)
(* only once it has sent everything or shut down its writing half.         *)
(***************************************************************************)

PeerSend(s) ==
  /\ peer[s] = "open"
  /\ pc # "done"
  /\ sent[s] < MaxSend
  /\ Len(rx[s]) < Cap
  /\ rx' = [rx EXCEPT ![s] = Append(@, Token(s, sent[s] + 1))]
  /\ sent' = [sent EXCEPT ![s] = @ + 1]
  /\ UNCHANGED <<tx, peer, reset, fin, delivered, relayVars>>

PeerRecv(s) ==
  /\ peer[s] # "closed"
  /\ ~reset[s]
  /\ s \in WriteFirst => sent[s] = MaxSend \/ peer[s] = "wrshut"
  /\ tx[s] # <<>>
  /\ delivered' = [delivered EXCEPT ![s] = Append(@, Head(tx[s]))]
  /\ tx' = [tx EXCEPT ![s] = Tail(@)]
  /\ UNCHANGED <<rx, peer, reset, fin, sent, relayVars>>

PeerShutdown(s) ==
  /\ peer[s] = "open"
  /\ peer' = [peer EXCEPT ![s] = "wrshut"]
  /\ fin' = [fin EXCEPT ![s] = TRUE]
  /\ UNCHANGED <<rx, tx, reset, peerVars, relayVars>>

\* Closing a socket with unread received data makes the kernel send a
\* reset in place of a FIN.
PeerClose(s) ==
  /\ peer[s] # "closed"
  /\ peer' = [peer EXCEPT ![s] = "closed"]
  /\ reset' = [reset EXCEPT ![s] = @ \/ tx[s] # <<>>]
  /\ fin' = [fin EXCEPT ![s] = @ \/ tx[s] = <<>>]
  /\ UNCHANGED <<rx, tx, peerVars, relayVars>>

Relay == Select \/ Read \/ Write

Peers == \E s \in Sides :
           PeerSend(s) \/ PeerRecv(s) \/ PeerShutdown(s) \/ PeerClose(s)

Next == Relay \/ Peers

\* The runner thread runs whenever it can; a peer that has not closed keeps
\* reading what is sent to it, and a write-first peer keeps sending until
\* it has sent everything.
Fairness ==
  /\ WF_vars(Relay)
  /\ \A s \in Sides : WF_vars(PeerRecv(s))
  /\ \A s \in WriteFirst : WF_vars(PeerSend(s))

Spec == Init /\ [][Next]_vars /\ Fairness

(***************************************************************************)
(* Properties.                                                             *)
(***************************************************************************)

\* The tokens sent from side s that have not reached the other peer yet:
\* in the other socket's send buffer, in the chunk being written, and in
\* this socket's receive buffer, oldest first.
Transit(s) ==
  tx[Other(s)] \o (IF pc = "write" /\ cur = s THEN buf ELSE <<>>) \o rx[s]

\* A direction is broken once its receiving peer closed or the loop ended.
Broken == {s \in Sides : pc = "done" \/ peer[Other(s)] = "closed"}

Abstract == INSTANCE Pipe
              WITH transit <- [s \in Sides |-> Transit(s)], broken <- Broken

\* The relay loop (select, read, write_all to the other socket) implements
\* an ordered pipe in each direction: no byte is duplicated, reordered,
\* sent the wrong way or invented, and bytes are lost only from a direction
\* whose receiver closed or whose loop has ended.
RelayImplementsPipe == Abstract!Spec

\* Every byte a peer sends is eventually delivered to the other peer,
\* unless that direction broke: the loop's two `if`s serve both sockets of
\* one select result, so neither direction starves the other.
Delivery ==
  \A s \in Sides, i \in 1..MaxSend :
    sent[s] >= i ~> (Token(s, i) \in ToSet(delivered[Other(s)]) \/ s \in Broken)

\* (spec 4.5, 8) A zero-length read is orderly close: once a peer has shut
\* down its sending side and all its bytes were read, the relay loop
\* terminates.
OrderlyCloseTerminates ==
  \A s \in Sides : (peer[s] # "open" /\ rx[s] = <<>>) ~> pc = "done"

=============================================================================
