------------------------------ MODULE MCQcspi ------------------------------
(***************************************************************************)
(* Two callers, as ring_send and ring_recv are: their ranges share no word;*)
(* or one caller alone with ranges that are not whole words.               *)
(***************************************************************************)
EXTENDS QcspiDriver, FiniteSets, TLC

CONSTANTS t1, t2, alone

Rd(a, n) == [kind |-> "read", addr |-> a, len |-> n]
Wr(a, n) == [kind |-> "write", addr |-> a, len |-> n]
Irq == [kind |-> "interrupt"]

\* Whole words only: descriptors and indexes.
TwoAlignedJobs ==
  [t \in {t1, t2} |-> IF t = t1 THEN {Wr(0, 4), Rd(0, 4), Irq}
                                ELSE {Rd(4, 8), Wr(4, 8), Irq}]

\* One and six bytes at every alignment: one word, two words, and three with the
\* middle one whole.
AnyRange == {Wr(a, n) : a \in 0 .. 3, n \in {1, 6}} \cup {Rd(1, 6)}

AlignedJobs == TwoAlignedJobs @@ (alone :> AnyRange)

MaxTogether == 3  \* bound: calls of the two callers together

\* The caller with such ranges runs without the others.
Apart ==
  \/ calls[alone] = 0 /\ calls[t1] + calls[t2] <= MaxTogether
  \/ \A t \in Thread \ {alone} : calls[t] = 0

ApartSpec ==
  /\ Init /\ [][Next /\ Apart']_vars
  /\ \A t \in Thread : SF_vars(Step(t))

\* A sender with data of any length beside a receiver.
MixedJobs ==
  [t \in {t1, t2} |-> IF t = t1 THEN {Wr(1, 2), Wr(0, 5), Irq}
                                ELSE {Rd(8, 4), Wr(8, 4), Irq}]
=============================================================================
