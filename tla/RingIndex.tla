----------------------------- MODULE RingIndex -----------------------------
(***************************************************************************)
(* Index arithmetic of one descriptor ring.  A ring has N descriptors      *)
(* (tx_desc_count / rx_desc_count of the control block), addressed by a    *)
(* write index and a read index in 0..N-1.  One descriptor always stays    *)
(* free, so that equal indices mean "empty".                               *)
(***************************************************************************)
EXTENDS Integers

CONSTANT N

ASSUME RingSizeAssumption == N \in Nat \ {0}

Slots == 0 .. N-1

\* Mutant: the wrap is forgotten.
NextIdxNoWrap(i) == i + 1

\* (idx + 1) % desc_count
NextIdx(i) == (i + 1) % N

\* Mutant: the descriptor that must stay free is counted as free.
TxAvailNoGap(wr, rd) == IF rd > wr THEN rd - wr ELSE N - (wr - rd)

\* Descriptors a sender may still fill.
TxAvail(wr, rd) == IF rd > wr THEN rd - wr - 1 ELSE N - (wr - rd) - 1

\* Mutant: equal indices taken for a full ring.
RxAvailStrict(wr, rd) == IF wr > rd THEN wr - rd ELSE N - (rd - wr)

\* Descriptors a receiver may still read: the distance from rd up to wr.
RxAvail(wr, rd) == IF wr >= rd THEN wr - rd ELSE N - (rd - wr)
=============================================================================
