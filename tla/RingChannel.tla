---------------------------- MODULE RingChannel ----------------------------
(***************************************************************************)
(* What one direction of a ring promises to its users: a bounded FIFO.     *)
(* A message is accepted at the tail, becomes visible to the other side    *)
(* at once or later, and is received from the head exactly once.           *)
(***************************************************************************)
EXTENDS Naturals, Sequences

CONSTANTS Message, Capacity

VARIABLES
  accepted,    \* every message ever accepted, in order
  visible,     \* how many of them the receiving side has been told of
  received     \* every message ever received, in order

channelVars == <<accepted, visible, received>>

ChannelInit ==
  /\ accepted = << >>
  /\ visible = 0
  /\ received = << >>

\* A message joins the tail.  Its announcement covers every message accepted
\* so far, or is lost, and then the next announcement covers it.
Accept(m) ==
  /\ Len(accepted) - Len(received) < Capacity
  /\ \A k \in 1 .. Len(accepted) : accepted[k] # m
  /\ accepted' = Append(accepted, m)
  /\ visible' \in {visible, Len(accepted')}
  /\ UNCHANGED received

\* The head leaves, in order, and only once it is visible.
Receive ==
  /\ Len(received) < visible
  /\ received' = Append(received, accepted[Len(received) + 1])
  /\ UNCHANGED <<accepted, visible>>

ChannelNext == (\E m \in Message : Accept(m)) \/ Receive

ChannelSpec == ChannelInit /\ [][ChannelNext]_channelVars
=============================================================================
