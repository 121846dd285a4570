-------------------------- MODULE RingIndexProofs --------------------------
(***************************************************************************)
(* What the index arithmetic of the rings computes, for every ring size.   *)
(***************************************************************************)
EXTENDS RingIndex, TLAPS

\* The code's two case distinctions compute the distance of the indices modulo
\* the ring size, and a sender never sees the last free descriptor.
THEOREM AvailIsModularDistance ==
  ASSUME NEW wr \in Slots, NEW rd \in Slots
  PROVE  /\ RxAvail(wr, rd) = (wr - rd) % N
         /\ TxAvail(wr, rd) = N - 1 - ((wr - rd) % N)
  BY RingSizeAssumption, SMT DEF RxAvail, TxAvail, Slots

\* The increment modulo desc_count, without the modulus.
LEMMA NextIdxStep ==
  ASSUME NEW i \in Slots
  PROVE  NextIdx(i) = (IF i + 1 = N THEN 0 ELSE i + 1) /\ NextIdx(i) \in Slots
  BY RingSizeAssumption, SMT DEF NextIdx, Slots

\* RxAvail is a distance below N that vanishes only for equal indices, and
\* TxAvail is what it leaves of N - 1.
LEMMA RxAvailRange ==
  ASSUME NEW wr \in Slots, NEW rd \in Slots
  PROVE  /\ RxAvail(wr, rd) \in 0 .. N-1
         /\ RxAvail(wr, rd) = 0 <=> wr = rd
         /\ TxAvail(wr, rd) = N - 1 - RxAvail(wr, rd)
  BY RingSizeAssumption, SMT DEF RxAvail, TxAvail, Slots

\* Moving the write index adds one descriptor if one is free.
LEMMA RxAvailNextWr ==
  ASSUME NEW wr \in Slots, NEW rd \in Slots, RxAvail(wr, rd) # N - 1
  PROVE  RxAvail(NextIdx(wr), rd) = RxAvail(wr, rd) + 1
  BY RingSizeAssumption, NextIdxStep, SMT DEF RxAvail, Slots

\* Moving the read index removes one descriptor if there is one.
LEMMA RxAvailNextRd ==
  ASSUME NEW wr \in Slots, NEW rd \in Slots, RxAvail(wr, rd) # 0
  PROVE  RxAvail(wr, NextIdx(rd)) = RxAvail(wr, rd) - 1
  BY RingSizeAssumption, NextIdxStep, SMT DEF RxAvail, Slots

\* A slot is farthest from the index just past it.
LEMMA RxAvailBehind ==
  ASSUME NEW i \in Slots
  PROVE  RxAvail(i, NextIdx(i)) = N - 1
  BY RingSizeAssumption, NextIdxStep, SMT DEF RxAvail, Slots

\* Only an index just behind the other is that far away.
LEMMA RxAvailFarthest ==
  ASSUME NEW wr \in Slots, NEW rd \in Slots, RxAvail(wr, rd) = N - 1
  PROVE  NextIdx(wr) = rd
  BY RingSizeAssumption, NextIdxStep, SMT DEF RxAvail, Slots

\* Slots at the same distance from the read index are the same slot.
LEMMA RxAvailInjective ==
  ASSUME NEW i \in Slots, NEW j \in Slots, NEW rd \in Slots,
         RxAvail(i, rd) = RxAvail(j, rd)
  PROVE  i = j
  BY RingSizeAssumption, SMT DEF RxAvail, Slots

\* Distances add up as long as they do not go round the ring.
LEMMA RxAvailSum ==
  ASSUME NEW a \in Slots, NEW b \in Slots, NEW c \in Slots,
         RxAvail(a, b) + RxAvail(b, c) < N
  PROVE  RxAvail(a, c) = RxAvail(a, b) + RxAvail(b, c)
  BY RingSizeAssumption, SMT DEF RxAvail, Slots
=============================================================================
