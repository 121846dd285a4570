------------------------------ MODULE MCRingRx ------------------------------
(* Instances of RingRx for TLC.                                            *)
EXTENDS RingRx, TLC

CONSTANTS worker, waiter, status   \* the callback, a blocking reader, the shell

\* The callback and a reader with every kind of timeout.
Mixed == [t \in Thread |->
  CASE t = worker -> {"nowait"}
    [] t = waiter -> {"timed", "forever"}
    [] OTHER      -> {}]

\* Callers as the applications have them: nobody waits.
Polling == [t \in Thread |-> IF t = status THEN {"query"} ELSE {"nowait"}]

\* Transfers fail and the callback's buffer is too small for one message.
FaultyLink == [modes |-> Mixed, short |-> {worker}, faults |-> TRUE]
OnlyPolling == [modes |-> Polling, short |-> {}, faults |-> FALSE]
\* WorkingLink: the callback beside one reader that waits; TwoWaiters: two readers
\* that both wait.
WorkingLink == [modes |-> Mixed, short |-> {}, faults |-> FALSE]

TwoWaiters == [modes |-> [t \in Thread |->
                            CASE t = worker -> {"forever"}
                              [] t = waiter -> {"timed", "forever"}
                              [] OTHER      -> {}],
               short |-> {}, faults |-> FALSE]

ReceiveSettings == {FaultyLink, OnlyPolling, TwoWaiters}
WaitSettings == {WorkingLink}
=============================================================================
