------------------------------- MODULE MCRelay ------------------------------
(* Model-checking instance of Relay: PROXY_BUFF_SIZE and the socket buffers *)
(* scaled down to two tokens, so that reads return one or two tokens and    *)
(* write_all can block half way through a chunk.                            *)
EXTENDS Relay

MCChunk == 2
MCCap == 2
MCMaxSend == 3

\* Both peers read while they write.
MCFullDuplex == {}

\* The remote server sends its whole response before reading the request.
MCRemoteWritesFirst == {"remote"}

=============================================================================
