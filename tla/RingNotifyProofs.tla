-------------------------- MODULE RingNotifyProofs --------------------------
(***************************************************************************)
(* No ring is forgotten by the interrupt path, for any number of rings on  *)
(* Zephyr and for a single ring on FreeRTOS.                               *)
(***************************************************************************)
EXTENDS RingNotify, TLAPS

-----------------------------------------------------------------------------
(* Sequences.                                                              *)

LEMMA AppendQueues ==
  ASSUME queue \in Seq(Ring), NEW r \in Ring
  PROVE  /\ Append(queue, r) \in Seq(Ring)
         /\ Len(Append(queue, r)) = Len(queue) + 1
         /\ Len(queue) \in Nat
         /\ Append(queue, r)[Len(queue) + 1] = r
         /\ \A k \in 1 .. Len(queue) : Append(queue, r)[k] = queue[k]
  OBVIOUS

LEMMA TailQueues ==
  ASSUME queue \in Seq(Ring), queue # << >>
  PROVE  /\ Head(queue) \in Ring /\ Head(queue) = queue[1]
         /\ Tail(queue) \in Seq(Ring)
         /\ Len(queue) \in Nat \ {0}
         /\ Len(Tail(queue)) = Len(queue) - 1
         /\ \A k \in 1 .. Len(queue) - 1 : Tail(queue)[k] = queue[k + 1]
  OBVIOUS

-----------------------------------------------------------------------------
(* Types.                                                                  *)

LEMMA TypeInit == Init => TypeOK
  BY NotifyAssumption DEF Init, TypeOK, Ring, NoRing

LEMMA TypeStep == TypeOK /\ [Next]_vars => TypeOK'
<1> SUFFICES ASSUME TypeOK, [Next]_vars PROVE TypeOK'
  OBVIOUS
<1> USE NotifyAssumption DEF TypeOK
<1>1. ASSUME NEW r \in Ring, SlavePublish(r) PROVE TypeOK'
  <2>1. backlog[r] + 1 \in 0 .. RingCap /\ sends + 1 \in 0 .. MaxSends
    BY <1>1 DEF SlavePublish
  <2>2. backlog' \in [Ring -> 0 .. RingCap] /\ sends' \in 0 .. MaxSends
    BY <1>1, <2>1 DEF SlavePublish
  <2>3. slave' = "irq" /\ UNCHANGED <<line, isr, queue, wpc, wring, status, aborted>>
    BY <1>1 DEF SlavePublish
  <2> QED
    BY <2>2, <2>3
<1>2. CASE SlaveRaise
  BY <1>2 DEF SlaveRaise
<1>3. CASE RingRxHandler
  <2>0. isr' = 0 /\ line' = FALSE
    BY <1>3 DEF RingRxHandler
  <2>1. isr' \in 0 .. NumRings
    BY <2>0
  <2>3. line' \in BOOLEAN
    BY <2>0
  <2>2. UNCHANGED <<backlog, slave, queue, wpc, wring, status, sends, aborted>>
    BY <1>3 DEF RingRxHandler
  <2> QED
    BY <2>1, <2>3, <2>2
<1>4. CASE SubmitNext
  <2>1. isr \in Ring /\ isr' \in 0 .. NumRings
    BY <1>4 DEF SubmitNext, InIsr, Ring
  <2>2. CASE queue' = queue
    BY <1>4, <2>1, <2>2 DEF SubmitNext
  <2>3. CASE queue' = Append(queue, isr) /\ Os = "zephyr" /\
             \A k \in 1 .. Len(queue) : queue[k] # isr
    <3>1. \A j, k \in 1 .. Len(queue') : queue'[j] = queue'[k] => j = k
      BY <2>1, <2>3, AppendQueues
    <3>2. queue' \in Seq(Ring)
      BY <2>1, <2>3, AppendQueues
    <3> QED
      BY <1>4, <2>1, <2>3, <3>1, <3>2 DEF SubmitNext
  <2>4. CASE queue' = Append(queue, isr) /\ Os = "freertos" /\ Len(queue) < QueueLimit
    <3>1. queue' \in Seq(Ring) /\ Len(queue') <= QueueLimit
      BY <2>1, <2>4, AppendQueues
    <3> QED
      BY <1>4, <2>1, <2>4, <3>1 DEF SubmitNext
  <2> QED
    BY <1>4, <2>2, <2>3, <2>4 DEF SubmitNext, Submit
<1>5. CASE WorkTake
  <2>1. /\ queue # << >> /\ queue' = Tail(queue) /\ wring' = Head(queue)
        /\ wpc' = "avail"
        /\ UNCHANGED <<backlog, slave, line, isr, status, sends, aborted>>
    BY <1>5 DEF WorkTake
  <2>2. queue' \in Seq(Ring) /\ wring' \in Ring
    BY <2>1, TailQueues
  <2>3. Os = "freertos" => Len(queue') <= QueueLimit
    BY <2>1, TailQueues
  <2>4. Os = "zephyr" => \A j, k \in 1 .. Len(queue') : queue'[j] = queue'[k] => j = k
    <3>1. ASSUME Os = "zephyr", NEW j \in 1 .. Len(queue'), NEW k \in 1 .. Len(queue'),
                 queue'[j] = queue'[k]
          PROVE  j = k
      <4>1. Len(queue') = Len(queue) - 1 /\ Len(queue) \in Nat \ {0}
        BY <2>1, TailQueues
      <4>2. j + 1 \in 1 .. Len(queue) /\ k + 1 \in 1 .. Len(queue)
        BY <4>1
      <4>3. queue[j + 1] = queue[k + 1]
        BY <2>1, <3>1, <4>1, TailQueues
      <4>4. j + 1 = k + 1
        BY <3>1, <4>2, <4>3
      <4> QED
        BY <4>4
    <3> QED
      BY <3>1
  <2> QED
    BY <2>1, <2>2, <2>3, <2>4
<1>6. CASE Abort /\ wpc # "idle"
  BY <1>6 DEF Abort, Finish
<1>7. CASE RxWorkHandler
  BY <1>7 DEF RxWorkHandler, Finish
<1>8. CASE CallbackReceives
  BY <1>8 DEF CallbackReceives, Finish
<1>9. ASSUME NEW r \in Ring, StatusLock(r) PROVE TypeOK'
  BY <1>9 DEF StatusLock
<1>10. CASE StatusUnlock
  BY <1>10 DEF StatusUnlock
<1>11. CASE WorkDone
  BY <1>11 DEF WorkDone
<1>12. CASE UNCHANGED vars
  BY <1>12 DEF vars
<1> QED
  BY <1>1, <1>2, <1>3, <1>4, <1>5, <1>6, <1>7, <1>8, <1>9, <1>10, <1>11, <1>12
  DEF Next, IsrStep, WorkStep, RxWorkHandlerFails, CallbackLockBusy, CallbackFails

-----------------------------------------------------------------------------
(* Stranded messages.                                                      *)

Inv == TypeOK /\ StrandedOnlyAfterError

LEMMA StrandedStep ==
  ASSUME Os = "zephyr" \/ NumRings = 1, Inv, [Next]_vars
  PROVE  StrandedOnlyAfterError'
<1> SUFFICES ASSUME NEW r \in Ring, backlog'[r] > 0
             PROVE  Pending(r)' \/ aborted'[r]
  BY DEF StrandedOnlyAfterError
<1> USE NotifyAssumption DEF Inv, TypeOK
<1>0. backlog[r] > 0 => Pending(r) \/ aborted[r]
  BY DEF StrandedOnlyAfterError
<1>1. ASSUME NEW q \in Ring, SlavePublish(q) PROVE Pending(r)' \/ aborted'[r]
  BY <1>1 DEF SlavePublish, Pending
<1>2. CASE SlaveRaise
  BY <1>2 DEF SlaveRaise, Pending
<1>3. CASE RingRxHandler
  BY <1>3 DEF RingRxHandler, Pending, Ring
<1>4. CASE SubmitNext
  <2>0. isr \in Ring /\ isr' = isr + 1 /\ r \in Int
    BY <1>4 DEF SubmitNext, InIsr, Ring
  <2>1. Queued(r) => Queued(r)'
    <3>1. queue' = queue \/ queue' = Append(queue, isr)
      BY <1>4 DEF SubmitNext, Submit
    <3>2. queue' = Append(queue, isr) => (Queued(r) => Queued(r)')
      BY <2>0, AppendQueues DEF Queued
    <3> QED
      BY <3>1, <3>2 DEF Queued
  <2>2. r = isr => Queued(r)'
    <3>1. CASE queue' = Append(queue, isr)
      BY <2>0, <3>1, AppendQueues DEF Queued
    <3>2. CASE queue' = queue /\ Os = "zephyr"
      BY <1>4, <2>0, <3>2, AppendQueues DEF SubmitNext, Submit, Queued
    <3>3. CASE queue' = queue /\ Os = "freertos"
      <4>1. ~ (Len(queue) < QueueLimit)
        BY <1>4, <2>0, <3>3, AppendQueues DEF SubmitNext, Submit
      <4>2. Len(queue) \in Nat /\ 1 \in 1 .. Len(queue)
        BY <4>1
      <4>3. queue[1] \in Ring
        BY <4>2
      <4>4. NumRings = 1
        BY <3>3
      <4>5. queue[1] = r
        BY <4>3, <4>4 DEF Ring
      <4> QED
        BY <3>3, <4>2, <4>5 DEF Queued
    <3> QED
      BY <1>4, <3>1, <3>2, <3>3 DEF SubmitNext, Submit
  <2>3. CASE r = isr
    BY <2>2, <2>3 DEF Pending
  <2>4. CASE r # isr
    <3>1. isr <= r => isr' <= r
      BY <2>0, <2>4
    <3> QED
      BY <1>0, <1>4, <2>1, <2>4, <3>1 DEF SubmitNext, Pending
  <2> QED
    BY <2>3, <2>4
<1>5. CASE WorkTake
  <2>1. Queued(r) => wring' = r \/ Queued(r)'
    <3> SUFFICES ASSUME NEW k \in 1 .. Len(queue), queue[k] = r, wring' # r
                 PROVE  Queued(r)'
      BY DEF Queued
    <3>1. queue # << >> /\ queue' = Tail(queue) /\ wring' = queue[1]
      BY <1>5, TailQueues DEF WorkTake
    <3>2. k # 1 /\ Len(queue) \in Nat /\ Len(queue') = Len(queue) - 1
      BY <3>1, TailQueues
    <3>3. k - 1 \in 1 .. Len(queue')
      BY <3>2
    <3>4. queue'[k - 1] = queue[k]
      BY <3>1, <3>2, <3>3, TailQueues
    <3> QED
      BY <3>3, <3>4 DEF Queued
  <2> QED
    BY <1>0, <1>5, <2>1 DEF WorkTake, Pending
<1>6. CASE Abort /\ wpc # "idle"
  BY <1>0, <1>6 DEF Abort, Finish, Pending, Queued
<1>7. CASE RxWorkHandler
  BY <1>0, <1>7 DEF RxWorkHandler, Finish, Pending, Queued
<1>8. CASE CallbackReceives
  BY <1>0, <1>8 DEF CallbackReceives, Finish, Pending, Queued
<1>9. CASE WorkDone
  BY <1>0, <1>9 DEF WorkDone, Pending, Queued
<1>10. CASE UNCHANGED <<backlog, slave, line, isr, queue, wpc, wring, aborted>>
  BY <1>0, <1>10 DEF Pending, Queued
<1> QED
  BY <1>1, <1>2, <1>3, <1>4, <1>5, <1>6, <1>7, <1>8, <1>9, <1>10
  DEF Next, vars, IsrStep, WorkStep, RxWorkHandlerFails, CallbackLockBusy,
      CallbackFails, StatusLock, StatusUnlock

\* On Zephyr for any number of rings, and on FreeRTOS for a single one, unread
\* messages lack a pending interrupt, work item or running service only after
\* their last service ended in an error.
THEOREM NoRingForgotten ==
  ASSUME Os = "zephyr" \/ NumRings = 1
  PROVE  Spec => []StrandedOnlyAfterError
<1>1. Init => Inv
  BY TypeInit DEF Init, Inv, StrandedOnlyAfterError
<1>2. Inv /\ [Next]_vars => Inv'
  BY TypeStep, StrandedStep DEF Inv
<1>3. Inv => StrandedOnlyAfterError
  BY DEF Inv
<1> QED
  BY <1>1, <1>2, <1>3, PTL DEF Spec

\* Every variable of the notification path keeps its type on both systems: the
\* FreeRTOS queue stays below its limit, and no work item is in Zephyr's queue
\* twice.
THEOREM TypeCorrect == Spec => []TypeOK
  BY TypeInit, TypeStep, PTL DEF Spec
=============================================================================
