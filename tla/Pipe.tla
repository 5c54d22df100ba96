-------------------------------- MODULE Pipe --------------------------------
(***************************************************************************)
(* What the data-plane relay promises, stated without sockets, chunks or  *)
(* select: each direction is an ordered pipe.  A token sent by the peer on *)
(* side s travels in transit[s] and is delivered, in order and once, to    *)
(* the peer on the other side.  Tokens may be lost only from a direction   *)
(* that has broken (its receiver went away or the relay loop ended), and a *)
(* broken direction stays broken.                                          *)
(***************************************************************************)
EXTENDS Naturals, Sequences

CONSTANTS MaxSend   \* how many tokens each peer sends at most

Sides == {"proxy", "remote"}
Other(s) == IF s = "proxy" THEN "remote" ELSE "proxy"
Token(s, i) == <<s, i>>

VARIABLES sent, transit, delivered, broken

pipeVars == <<sent, transit, delivered, broken>>

Init ==
  /\ sent = [s \in Sides |-> 0]
  /\ transit = [s \in Sides |-> <<>>]
  /\ delivered = [s \in Sides |-> <<>>]
  /\ broken = {}

\* The peer on side s hands the next token to the pipe.
Send(s) ==
  /\ sent[s] < MaxSend
  /\ sent' = [sent EXCEPT ![s] = @ + 1]
  /\ transit' = [transit EXCEPT ![s] = Append(@, Token(s, sent[s] + 1))]
  /\ UNCHANGED <<delivered, broken>>

\* The oldest token sent from side s reaches the peer on the other side.
Deliver(s) ==
  /\ transit[s] # <<>>
  /\ delivered' = [delivered EXCEPT ![Other(s)] = Append(@, Head(transit[s]))]
  /\ transit' = [transit EXCEPT ![s] = Tail(@)]
  /\ UNCHANGED <<sent, broken>>

\* Sequences obtained from q by cutting out one contiguous segment.
Cut(q) == { SubSeq(q, 1, ij[1] - 1) \o SubSeq(q, ij[2] + 1, Len(q)) :
              ij \in { p \in (1..Len(q) + 1) \X (0..Len(q)) : p[2] >= p[1] - 1 } }

\* Some directions break; a broken direction may lose a segment of what it
\* carries.
Fail ==
  /\ \E B \in SUBSET Sides :
       /\ broken' = broken \cup B
       /\ \A s \in Sides :
            \/ transit'[s] = transit[s]
            \/ s \in broken' /\ transit'[s] \in Cut(transit[s])
  /\ UNCHANGED <<sent, delivered>>

Next == \E s \in Sides : Send(s) \/ Deliver(s) \/ Fail

Spec == Init /\ [][Next]_pipeVars

=============================================================================
