------------------------------ MODULE FdNumbers ------------------------------
(***************************************************************************)
(* Server with the numbers of its descriptors.  The kernel gives every new *)
(* socket the lowest free descriptor number, and the relay loop puts the   *)
(* remote and proxy descriptors of its session into an FdSet for select    *)
(* (server.rs 184-187).  FdSet::insert panics for a number at or above     *)
(* FD_SETSIZE.  Which numbers a session got depends on what every other    *)
(* session held when each of its sockets was created, so the model keeps, *)
(* per connection, the set high[c] of its sockets numbered FD_SETSIZE or   *)
(* above.  Since numbers are allocated lowest first, a new descriptor is   *)
(* high exactly when every number below FD_SETSIZE is taken.  FdSetSize    *)
(* counts the numbers below FD_SETSIZE left for sockets once the standard  *)
(* streams have theirs.                                                    *)
(***************************************************************************)
EXTENDS Server

CONSTANTS FdSetSize

ASSUME FdSetSize \in Nat \ {0}

VARIABLE high

fdVars == <<vars, high>>

\* The descriptors of the remote and proxy sockets go into the fd_set.
Selected == {"remote", "proxy"}

FdInit == ServerInit /\ high = [c \in Conns |-> {}]

\* Descriptors held with a number below FD_SETSIZE (the control listener,
\* bound first, has one of them).
LowInUse == FdsInUse - MapThenSumSet(LAMBDA c : Cardinality(high[c]), Conns)

\* Every step of Server creates or accepts at most one socket and may drop
\* several.  The new descriptor gets the lowest free number: one at or
\* above FD_SETSIZE when all below are held.  Dropped sockets free theirs.
Renumber ==
  high' = [c \in Conns |->
             (high[c] \cap Sockets[phase'[c]])
             \cup (IF LowInUse >= FdSetSize
                     THEN Sockets[phase'[c]] \ Sockets[phase[c]]
                     ELSE {})]

\* The relay loop of c is about to put a high descriptor into its fd_set.
Oversized(c) == phase[c] = "relay" /\ high[c] \cap Selected # {}

SelectPanics(c) ==
  /\ alive
  /\ Oversized(c)
  /\ SetPhase(c, "closed")
  /\ high' = [high EXCEPT ![c] = {}]
  /\ UNCHANGED <<req, arrived, got, encl, arrivals, alive>>

\* A worker whose fd_set would overflow takes no relay step but the panic.
FdNext ==
  \/ /\ ServerNext
     /\ \A c \in Conns : Oversized(c) => phase'[c] = phase[c]
     /\ Renumber
  \/ \E c \in Conns : SelectPanics(c)

FdSpec == FdInit /\ [][FdNext]_fdVars

\* (spec 4.5, 4.6) The listener serves any number of sessions, each relayed
\* by its own select loop: no relay loop ever holds a socket whose
\* descriptor FdSet cannot represent, however many sessions are open.
RelayFdsFit == \A c \in Conns : ~Oversized(c)

=============================================================================
