------------------------------- MODULE Server -------------------------------
(***************************************************************************)
(* The listener loop Server::run (server.rs 211-225) composed with the     *)
(* workers of Session.  The main thread binds the control port once, then  *)
(* accepts one connection at a time and spawns a thread for it, with no    *)
(* bound on their number.  alive is FALSE once the main thread has left    *)
(* run: by the panic of `.unwrap()` on a failed accept (line 215) or by    *)
(* the `?` on a failed thread spawn (line 223).  Either ends the process,  *)
(* and with it every session.                                              *)
(***************************************************************************)
EXTENDS Session

CONSTANTS
  MaxThreads,  \* threads the process may create (RLIMIT_NPROC)
  StackFrames  \* read_from_stream frames that fit in a worker's stack

VARIABLE alive

vars == <<sessionVars, alive>>

\* Worker threads alive: every connection spawned and not yet ended.
Threads == Cardinality({c \in Conns : phase[c] \notin {"idle", "pending", "closed"}})

ServerTypeOK == TypeOK /\ alive \in BOOLEAN

ServerInit == Init /\ alive = TRUE

\* Lines 215-223: T::incoming(&listener).unwrap() then
\* thread::Builder::new().spawn(...)?.  accept fails with EMFILE when the
\* process is out of descriptors and the unwrap panics; spawn fails when no
\* thread can be created and run returns the error.  Either way the main
\* thread leaves run.
AcceptAndSpawn(c) ==
  /\ alive
  /\ phase[c] = "pending"
  /\ IF FdFree /\ Threads < MaxThreads
       THEN Spawn(c) /\ UNCHANGED alive
       ELSE alive' = FALSE /\ UNCHANGED sessionVars

\* read_from_stream calls itself after every full read (line 89) and each
\* frame holds a BUFF_SIZE array.  A worker that has made StackFrames full
\* reads of one request is about to enter one frame too many.
DeepRead(c) == phase[c] = "read" /\ got[c] >= StackFrames * B

\* Line 89: the recursive call overflows the thread's stack.  Rust reports
\* the overflow and aborts the process, whatever thread it happened on.
StackOverflow(c) ==
  /\ DeepRead(c)
  /\ alive' = FALSE
  /\ UNCHANGED sessionVars

\* A worker's steps up to the relay, with the recursion bounded by its stack.
ServerSetUp(c) ==
  \/ SetUp(c) /\ ~DeepRead(c) /\ UNCHANGED alive
  \/ StackOverflow(c)

ServerNext ==
  /\ alive
  /\ \/ \E c \in Conns : AcceptAndSpawn(c)
     \/ \E c \in Conns : ServerSetUp(c)
     \/ \E c \in Conns : (RelayEnd(c) \/ Enclave(c) \/ Local(c)) /\ UNCHANGED alive

\* The main thread accepts whenever a connection is pending; workers and
\* enclaves are fair as in Session.
ServerFairness ==
  \A c \in Conns :
    /\ WF_vars(AcceptAndSpawn(c))
    /\ WF_vars(ServerSetUp(c))
    /\ WF_vars(EnclaveSend(c) /\ UNCHANGED alive)
    /\ WF_vars(EnclaveConnectData(c) /\ UNCHANGED alive)

ServerSpec == ServerInit /\ [][ServerNext]_vars /\ ServerFairness

\* (spec 4.6, 7) Errors are contained to their session: a failure to
\* accept or serve one connection never stops the listener.
ListenerSurvives == alive

=============================================================================
