---------------------------- MODULE RingTxProofs ----------------------------
(***************************************************************************)
(* Safety of RingTx for every ring size, set of threads and number of      *)
(* sends, with and without link faults.                                    *)
(***************************************************************************)
EXTENDS RingTx, RingIndexProofs

-----------------------------------------------------------------------------
(* The inductive invariant.                                                *)

\* A call under way carries its message.
MsgInv == \A t \in Thread : pc[t] # "idle" => msg[t] \in Call

\* The owner of tx_lock is the one thread in the critical section; its copy of
\* the write index is current, and the slot at that index holds what the steps
\* it has passed have put there.
OwnerInv ==
  \A t \in Thread :
    /\ pc[t] \in Critical <=> tx_lock = t
    /\ pc[t] \in Critical => wr_idx[t] = c_wr
    /\ pc[t] \in {"data", "desc", "index"} => TxAvail(c_wr, c_rd) # 0
    /\ pc[t] \in {"desc", "index"} => buf[c_wr] = msg[t]
    /\ pc[t] = "index" => desc[c_wr] = FilledDescriptor(t)

\* The slave holds a copy of the oldest published message.
SlaveInv ==
  slave = "release" => RxAvail(r_wr, r_rd) # 0 /\ slaveMsg = buf[r_rd]

\* The slots between the slave's read index and the cached write index hold
\* the committed messages that the slave has not received, in order.
Backlog == RxAvail(c_wr, r_rd)

ContentInv ==
  /\ Backlog = Len(committed) - Len(received)
  /\ \A i \in Slots : RxAvail(i, r_rd) < Backlog =>
       /\ buf[i] = committed[Len(received) + RxAvail(i, r_rd) + 1]
       /\ desc[i] = [valid |-> TRUE, of |-> buf[i]]

FifoInv == \A k \in 1 .. Len(received) : received[k] = committed[k]

TypeInv == TypeOK /\ MsgInv

Inv == TypeInv /\ OwnerInv /\ IndexOrder /\ SlaveInv /\ ContentInv /\ FifoInv

-----------------------------------------------------------------------------

LEMMA TypeInit == Init => TypeInv
<1> SUFFICES ASSUME Init PROVE TypeInv
  OBVIOUS
<1>1. Cleared \in Descriptor
  BY DEF Cleared, Descriptor, Content
<1>2. desc \in [Slots -> Descriptor]
  BY <1>1 DEF Init
<1>3. 0 \in Slots
  BY RingSizeAssumption DEF Slots
<1>4. committed \in Seq(Call) /\ received \in Seq(Content)
  BY DEF Init
<1>5. calls \in 0 .. MaxSends
  BY TxAssumption DEF Init
<1>6. r_wr \in Slots /\ r_rd \in Slots /\ c_wr \in Slots /\ c_rd \in Slots
  BY TxAssumption DEF Init
<1> QED
  BY <1>2, <1>3, <1>4, <1>5, <1>6, Zenon
  DEF Init, TypeInv, TypeOK, MsgInv, PC, Content, Result, Critical

\* A call that returns drops its local variables.
LEMMA ReturnTypes ==
  ASSUME TypeInv, NEW t \in Thread, NEW ret \in Result, Return(t, ret)
  PROVE  /\ pc' \in [Thread -> PC]
         /\ msg' \in [Thread -> Content]
         /\ wr_idx' \in [Thread -> Slots]
         /\ result' \in [Call -> Result]
         /\ MsgInv'
<1> USE DEF TypeInv, TypeOK, Return, Goto
<1>1. "idle" \in PC /\ Torn \in Content /\ 0 \in Slots
  BY RingSizeAssumption DEF PC, Content, Slots
<1>2. pc' \in [Thread -> PC] /\ msg' \in [Thread -> Content]
  BY <1>1
<1>3. wr_idx' \in [Thread -> Slots] /\ result' \in [Call -> Result]
  BY <1>1
<1>4. \A u \in Thread : pc'[u] # "idle" => pc'[u] = pc[u] /\ msg'[u] = msg[u]
  OBVIOUS
<1>5. MsgInv'
  BY <1>4 DEF MsgInv
<1> QED
  BY <1>2, <1>3, <1>5

LEMMA TypeStep == TypeInv /\ [Next]_vars => TypeInv'
<1> SUFFICES ASSUME TypeInv, [Next]_vars PROVE TypeInv'
  OBVIOUS
<1> USE RingSizeAssumption, TxAssumption
    DEF TypeInv, TypeOK, MsgInv, Content, Result, Descriptor, PC, Critical
<1>1. ASSUME NEW t \in Thread, RingSend(t) PROVE TypeInv'
  BY <1>1 DEF RingSend, Goto, slaveVars, Call
<1>2. ASSUME NEW t \in Thread, Lock(t) PROVE TypeInv'
  BY <1>2 DEF Lock, Goto, slaveVars
<1>3. ASSUME NEW t \in Thread, LockTimeout(t) PROVE TypeInv'
  BY <1>3, ReturnTypes DEF LockTimeout, slaveVars
<1>4. ASSUME NEW t \in Thread, ReadRemoteRd(t) PROVE TypeInv'
  BY <1>4, ReturnTypes DEF ReadRemoteRd, UnlockReturn, Goto, slaveVars
<1>5. ASSUME NEW t \in Thread, ReadRemoteRdFails(t) PROVE TypeInv'
  BY <1>5, ReturnTypes DEF ReadRemoteRdFails, UnlockReturn, slaveVars
<1>6. ASSUME NEW t \in Thread, WriteData(t) PROVE TypeInv'
  BY <1>6 DEF WriteData, Goto, slaveVars
<1>7. ASSUME NEW t \in Thread, WriteDataFails(t) PROVE TypeInv'
  BY <1>7, ReturnTypes DEF WriteDataFails, UnlockReturn, slaveVars
<1>8. ASSUME NEW t \in Thread, WriteDescriptor(t) PROVE TypeInv'
  <2>1. FilledDescriptor(t) \in Descriptor
    BY <1>8 DEF WriteDescriptor, FilledDescriptor
  <2>2. desc' \in [Slots -> Descriptor]
    BY <1>8, <2>1 DEF WriteDescriptor
  <2> QED
    BY <1>8, <2>2 DEF WriteDescriptor, Goto, slaveVars
<1>9. ASSUME NEW t \in Thread, WriteDescriptorFails(t) PROVE TypeInv'
  <2>1. FilledDescriptor(t) \in Descriptor
    BY <1>9 DEF WriteDescriptorFails, FilledDescriptor
  <2>2. desc' \in [Slots -> Descriptor]
    BY <1>9, <2>1 DEF WriteDescriptorFails
  <2> QED
    BY <1>9, <2>2, ReturnTypes DEF WriteDescriptorFails, UnlockReturn, slaveVars
<1>10. ASSUME NEW t \in Thread, PublishWr(t) PROVE TypeInv'
  BY <1>10, NextIdxStep DEF PublishWr, AdvanceCachedWr, Goto, slaveVars
<1>11. ASSUME NEW t \in Thread, PublishWrFails(t) PROVE TypeInv'
  BY <1>11, NextIdxStep, ReturnTypes
  DEF PublishWrFails, AdvanceCachedWr, UnlockReturn, slaveVars
<1>12. ASSUME NEW t \in Thread, TriggerInterrupt(t) PROVE TypeInv'
  BY <1>12, ReturnTypes DEF TriggerInterrupt, slaveVars
<1>13. CASE SlaveInterrupt
  BY <1>13 DEF SlaveInterrupt, hostVars
<1>14. CASE SlaveTake
  BY <1>14 DEF SlaveTake, hostVars
<1>15. CASE SlaveRelease
  BY <1>15, NextIdxStep DEF SlaveRelease, hostVars, Cleared
<1>16. CASE SlaveEmpty
  BY <1>16 DEF SlaveEmpty, hostVars
<1>17. CASE UNCHANGED vars
  BY <1>17 DEF vars, hostVars, slaveVars
<1> QED
  BY <1>1, <1>2, <1>3, <1>4, <1>5, <1>6, <1>7, <1>8, <1>9, <1>10, <1>11,
     <1>12, <1>13, <1>14, <1>15, <1>16, <1>17
  DEF Next, ThreadStep, SlaveStep

\* Every variable of the model keeps its type: in particular the indices stay
\* inside the ring and only whole messages are ever committed.
THEOREM TypeCorrect == Spec => []TypeOK
<1>1. TypeInv => TypeOK
  BY DEF TypeInv
<1> QED
  BY <1>1, TypeInit, TypeStep, PTL DEF Spec

-----------------------------------------------------------------------------
(* The order of the four indices.                                          *)

\* The distances of IndexOrder, regrouped around the backlog.
LEMMA BacklogParts ==
  ASSUME TypeOK, IndexOrder
  PROVE  /\ Backlog = RxAvail(c_wr, r_wr) + RxAvail(r_wr, r_rd)
         /\ RxAvail(c_wr, c_rd) = Backlog + RxAvail(r_rd, c_rd)
         /\ RxAvail(c_wr, r_wr) \in 0 .. N-1 /\ RxAvail(r_wr, r_rd) \in 0 .. N-1
         /\ RxAvail(r_rd, c_rd) \in 0 .. N-1 /\ RxAvail(c_wr, c_rd) \in 0 .. N-1
         /\ RxAvail(c_wr, c_wr) = 0
<1>1. /\ RxAvail(c_wr, r_wr) \in 0 .. N-1 /\ RxAvail(r_wr, r_rd) \in 0 .. N-1
      /\ RxAvail(r_rd, c_rd) \in 0 .. N-1 /\ RxAvail(c_wr, c_rd) \in 0 .. N-1
      /\ RxAvail(c_wr, c_wr) = 0
  BY RxAvailRange DEF TypeOK
<1>2. RxAvail(c_wr, r_wr) + RxAvail(r_wr, r_rd) < N
  BY <1>1, RingSizeAssumption DEF IndexOrder
<1>3. Backlog = RxAvail(c_wr, r_wr) + RxAvail(r_wr, r_rd)
  BY <1>2, RxAvailSum DEF TypeOK, Backlog
<1> QED
  BY <1>1, <1>3, RingSizeAssumption DEF IndexOrder

\* What moving the cached write index does to the distances.
LEMMA CommitDistances ==
  ASSUME TypeOK, IndexOrder, TxAvail(c_wr, c_rd) # 0,
         NEW x \in {c_wr, r_wr, r_rd, c_rd}
  PROVE  /\ NextIdx(c_wr) \in Slots
         /\ RxAvail(NextIdx(c_wr), x) = RxAvail(c_wr, x) + 1
<1>1. RxAvail(c_wr, c_rd) < N - 1
  <2>1. TxAvail(c_wr, c_rd) = N - 1 - RxAvail(c_wr, c_rd)
    BY RxAvailRange DEF TypeOK
  <2> QED
    BY <2>1, BacklogParts, RingSizeAssumption
<1>2. RxAvail(c_wr, x) <= RxAvail(c_wr, c_rd)
  <2>1. RxAvail(c_wr, r_wr) <= RxAvail(c_wr, c_rd)
    BY BacklogParts, RingSizeAssumption
  <2>2. RxAvail(c_wr, r_rd) <= RxAvail(c_wr, c_rd)
    BY BacklogParts, RingSizeAssumption DEF Backlog
  <2>3. RxAvail(c_wr, c_wr) <= RxAvail(c_wr, c_rd)
    BY BacklogParts, RingSizeAssumption
  <2>4. RxAvail(c_wr, c_rd) <= RxAvail(c_wr, c_rd)
    BY BacklogParts, RingSizeAssumption
  <2> QED
    BY <2>1, <2>2, <2>3, <2>4
<1>3. RxAvail(c_wr, x) # N - 1
  <2>1. RxAvail(c_wr, x) \in 0 .. N-1
    BY RxAvailRange DEF TypeOK
  <2> QED
    BY <1>1, <1>2, <2>1, BacklogParts, RingSizeAssumption
<1> QED
  BY <1>3, RxAvailNextWr, NextIdxStep DEF TypeOK

\* What the slave's release of a slot does to the distances.
LEMMA ReleaseDistances ==
  ASSUME TypeOK, IndexOrder, RxAvail(r_wr, r_rd) # 0
  PROVE  /\ NextIdx(r_rd) \in Slots
         /\ RxAvail(r_wr, NextIdx(r_rd)) = RxAvail(r_wr, r_rd) - 1
         /\ RxAvail(c_wr, NextIdx(r_rd)) = Backlog - 1
         /\ RxAvail(NextIdx(r_rd), c_rd) = RxAvail(r_rd, c_rd) + 1
         /\ Backlog # 0
<1>1. Backlog # 0
  BY BacklogParts
<1>2. RxAvail(r_rd, c_rd) # N - 1
  BY <1>1, BacklogParts, RingSizeAssumption
<1> QED
  BY <1>1, <1>2, RxAvailNextWr, RxAvailNextRd, NextIdxStep DEF TypeOK, Backlog

LEMMA OrderStep == Inv /\ [Next]_vars => IndexOrder'
<1> SUFFICES ASSUME Inv, [Next]_vars PROVE IndexOrder'
  OBVIOUS
<1> USE DEF Inv, TypeInv
<1>1. ASSUME NEW t \in Thread, ReadRemoteRd(t) PROVE IndexOrder'
  <2>1. RxAvail(c_wr, r_rd) = RxAvail(c_wr, r_wr) + RxAvail(r_wr, r_rd)
    BY BacklogParts DEF Backlog
  <2>2. RxAvail(r_rd, r_rd) = 0
    BY RxAvailRange DEF TypeOK
  <2> QED
    BY <1>1, <2>1, <2>2, BacklogParts DEF ReadRemoteRd, IndexOrder
<1>2. ASSUME NEW t \in Thread, PublishWr(t) PROVE IndexOrder'
  <2>1. c_wr' = NextIdx(c_wr) /\ r_wr' = NextIdx(c_wr) /\ r_rd' = r_rd /\ c_rd' = c_rd
    BY <1>2 DEF PublishWr, AdvanceCachedWr, OwnerInv, Critical
  <2>2. TxAvail(c_wr, c_rd) # 0
    BY <1>2 DEF PublishWr, OwnerInv
  <2>3. RxAvail(NextIdx(c_wr), NextIdx(c_wr)) = 0
    BY <2>2, CommitDistances, RxAvailRange
  <2> QED
    BY <2>1, <2>2, <2>3, CommitDistances, BacklogParts DEF IndexOrder, Backlog
<1>3. ASSUME NEW t \in Thread, PublishWrFails(t) PROVE IndexOrder'
  <2>1. /\ c_wr' = NextIdx(c_wr) /\ r_rd' = r_rd /\ c_rd' = c_rd
        /\ r_wr' = r_wr \/ r_wr' = NextIdx(c_wr)
    BY <1>3 DEF PublishWrFails, AdvanceCachedWr, OwnerInv, Critical
  <2>2. TxAvail(c_wr, c_rd) # 0
    BY <1>3 DEF PublishWrFails, OwnerInv
  <2>3. RxAvail(NextIdx(c_wr), NextIdx(c_wr)) = 0
    BY <2>2, CommitDistances, RxAvailRange
  <2> QED
    BY <2>1, <2>2, <2>3, CommitDistances, BacklogParts DEF IndexOrder, Backlog
<1>4. CASE SlaveRelease
  <2>1. RxAvail(r_wr, r_rd) # 0
    BY <1>4 DEF SlaveRelease, SlaveInv
  <2>2. UNCHANGED <<c_wr, c_rd, r_wr>> /\ r_rd' = NextIdx(r_rd)
    BY <1>4 DEF SlaveRelease, hostVars
  <2> QED
    BY <2>1, <2>2, ReleaseDistances, BacklogParts DEF IndexOrder
<1>5. CASE UNCHANGED <<c_wr, c_rd, r_wr, r_rd>>
  BY <1>5 DEF IndexOrder
<1> QED
  BY <1>1, <1>2, <1>3, <1>4, <1>5
  DEF Next, ThreadStep, SlaveStep, vars, hostVars, RingSend, Lock, LockTimeout,
      ReadRemoteRdFails, WriteData, WriteDataFails, WriteDescriptor,
      WriteDescriptorFails, TriggerInterrupt, SlaveInterrupt, SlaveTake,
      SlaveEmpty

-----------------------------------------------------------------------------
(* The critical section of ring_send.                                      *)

\* The slot a sender fills is not the one the slave is copying out.
LEMMA SlaveSlotNotFilled ==
  ASSUME TypeOK, IndexOrder, SlaveInv, slave = "release"
  PROVE  r_rd # c_wr /\ Backlog # 0
<1>1. Backlog # 0
  BY ReleaseDistances DEF SlaveInv
<1> QED
  BY <1>1, RxAvailRange DEF TypeOK, Backlog

LEMMA OwnerStep == Inv /\ [Next]_vars => OwnerInv'
<1> SUFFICES ASSUME Inv, [Next]_vars PROVE OwnerInv'
  OBVIOUS
<1> USE TxAssumption DEF Inv, TypeInv, OwnerInv, Critical
<1>1. ASSUME NEW t \in Thread, RingSend(t) PROVE OwnerInv'
  BY <1>1 DEF TypeOK, RingSend, Goto, FilledDescriptor
<1>2. ASSUME NEW t \in Thread, Lock(t) PROVE OwnerInv'
  BY <1>2 DEF TypeOK, Lock, Goto, FilledDescriptor
<1>3. ASSUME NEW t \in Thread, LockTimeout(t) PROVE OwnerInv'
  BY <1>3 DEF TypeOK, LockTimeout, Return, Goto, FilledDescriptor
<1>4. ASSUME NEW t \in Thread, ReadRemoteRd(t) PROVE OwnerInv'
  BY <1>4 DEF TypeOK, ReadRemoteRd, UnlockReturn, Return, Goto, FilledDescriptor
<1>5. ASSUME NEW t \in Thread, ReadRemoteRdFails(t) PROVE OwnerInv'
  BY <1>5 DEF TypeOK, ReadRemoteRdFails, UnlockReturn, Return, Goto, FilledDescriptor
<1>6. ASSUME NEW t \in Thread, WriteData(t) PROVE OwnerInv'
  BY <1>6 DEF TypeOK, WriteData, Goto, FilledDescriptor
<1>7. ASSUME NEW t \in Thread, WriteDataFails(t) PROVE OwnerInv'
  BY <1>7 DEF TypeOK, WriteDataFails, UnlockReturn, Return, Goto, FilledDescriptor
<1>8. ASSUME NEW t \in Thread, WriteDescriptor(t) PROVE OwnerInv'
  BY <1>8 DEF TypeOK, WriteDescriptor, Goto, FilledDescriptor
<1>9. ASSUME NEW t \in Thread, WriteDescriptorFails(t) PROVE OwnerInv'
  BY <1>9 DEF TypeOK, WriteDescriptorFails, UnlockReturn, Return, Goto, FilledDescriptor
<1>10. ASSUME NEW t \in Thread, PublishWr(t) PROVE OwnerInv'
  BY <1>10 DEF TypeOK, PublishWr, Goto, FilledDescriptor
<1>11. ASSUME NEW t \in Thread, PublishWrFails(t) PROVE OwnerInv'
  BY <1>11 DEF TypeOK, PublishWrFails, UnlockReturn, Return, Goto, FilledDescriptor
<1>12. ASSUME NEW t \in Thread, TriggerInterrupt(t) PROVE OwnerInv'
  <2>1. \A u \in Thread : pc'[u] \in Critical => u # t /\ pc[u] \in Critical
    BY <1>12 DEF TypeOK, TriggerInterrupt, Return, Goto
  <2>2. \A u \in Thread : u # t =>
          pc'[u] = pc[u] /\ msg'[u] = msg[u] /\ wr_idx'[u] = wr_idx[u]
    BY <1>12 DEF TypeOK, TriggerInterrupt, Return, Goto
  <2>3. /\ tx_lock' = tx_lock /\ c_wr' = c_wr /\ c_rd' = c_rd
        /\ desc' = desc /\ buf' = buf
    BY <1>12 DEF TriggerInterrupt
  <2>4. pc'[t] \notin Critical /\ tx_lock # t
    BY <1>12, <2>1 DEF TriggerInterrupt
  <2>5. \A u \in Thread : FilledDescriptor(u)' = [valid |-> TRUE, of |-> msg'[u]]
    BY DEF FilledDescriptor
  <2>6. \A u \in Thread : u # t => FilledDescriptor(u)' = FilledDescriptor(u)
    BY <2>2, <2>5 DEF FilledDescriptor
  <2> QED
    BY <2>2, <2>3, <2>4, <2>6
<1>13. CASE SlaveRelease
  BY <1>13, SlaveSlotNotFilled DEF TypeOK, SlaveRelease, hostVars, FilledDescriptor
<1>14. CASE UNCHANGED <<hostVars, desc, buf>>
  BY <1>14 DEF hostVars, FilledDescriptor
<1> QED
  BY <1>1, <1>2, <1>3, <1>4, <1>5, <1>6, <1>7, <1>8, <1>9, <1>10, <1>11,
     <1>12, <1>13, <1>14
  DEF Next, ThreadStep, SlaveStep, vars, SlaveInterrupt, SlaveTake, SlaveEmpty

\* Only the owner of tx_lock changes the ring, and only at the cached write
\* index; only the slave's release moves its read index.
LEMMA WriterSlot ==
  ASSUME Inv, [Next]_vars, ~ SlaveRelease
  PROVE  /\ UNCHANGED <<r_rd, received>>
         /\ \A i \in Slots : i # c_wr => buf'[i] = buf[i] /\ desc'[i] = desc[i]
<1> USE DEF Inv, TypeInv, TypeOK, OwnerInv, Critical
<1>1. ASSUME NEW t \in Thread, WriteData(t) \/ WriteDataFails(t)
      PROVE  /\ UNCHANGED <<r_rd, received, desc>>
             /\ \A i \in Slots : i # c_wr => buf'[i] = buf[i]
  BY <1>1 DEF WriteData, WriteDataFails
<1>2. ASSUME NEW t \in Thread, WriteDescriptor(t) \/ WriteDescriptorFails(t)
      PROVE  /\ UNCHANGED <<r_rd, received, buf>>
             /\ \A i \in Slots : i # c_wr => desc'[i] = desc[i]
  BY <1>2 DEF WriteDescriptor, WriteDescriptorFails
<1>3. CASE UNCHANGED <<r_rd, received, desc, buf>>
  BY <1>3
<1> QED
  BY <1>1, <1>2, <1>3
  DEF Next, ThreadStep, SlaveStep, vars, RingSend, Lock, LockTimeout,
      ReadRemoteRd, ReadRemoteRdFails, PublishWr, PublishWrFails,
      TriggerInterrupt, SlaveInterrupt, SlaveTake, SlaveEmpty

\* A step either commits one message, by moving the cached write index, or
\* leaves that index and the history of commits alone.
LEMMA CommitOrNot ==
  ASSUME Inv, [Next]_vars
  PROVE  \/ UNCHANGED <<c_wr, r_wr, committed>>
         \/ \E t \in Thread :
              /\ pc[t] = "index"
              /\ c_wr' = NextIdx(c_wr)
              /\ committed' = Append(committed, msg[t])
              /\ r_wr' \in {r_wr, NextIdx(c_wr)}
              /\ UNCHANGED <<desc, buf, slave, slaveMsg, received, r_rd>>
<1> USE DEF Inv, OwnerInv, Critical
<1>1. ASSUME NEW t \in Thread, PublishWr(t) \/ PublishWrFails(t)
      PROVE  /\ pc[t] = "index"
             /\ c_wr' = NextIdx(c_wr)
             /\ committed' = Append(committed, msg[t])
             /\ r_wr' \in {r_wr, NextIdx(c_wr)}
             /\ UNCHANGED <<desc, buf, slave, slaveMsg, received, r_rd>>
  BY <1>1 DEF PublishWr, PublishWrFails, AdvanceCachedWr, slaveVars
<1>2. CASE UNCHANGED <<c_wr, r_wr, committed>>
  BY <1>2
<1> QED
  BY <1>1, <1>2
  DEF Next, ThreadStep, SlaveStep, vars, hostVars, RingSend, Lock, LockTimeout,
      ReadRemoteRd, ReadRemoteRdFails, WriteData, WriteDataFails,
      WriteDescriptor, WriteDescriptorFails, TriggerInterrupt, SlaveInterrupt,
      SlaveTake, SlaveEmpty, SlaveRelease

-----------------------------------------------------------------------------
(* What the ring holds.                                                    *)

LEMMA ContentStep == Inv /\ [Next]_vars => ContentInv'
<1> SUFFICES ASSUME Inv, [Next]_vars PROVE ContentInv'
  OBVIOUS
<1> USE DEF Inv, TypeInv
<1>0. Len(committed) \in Nat /\ Len(received) \in Nat /\ Backlog \in 0 .. N-1
  <2>1. Backlog \in 0 .. N-1
    BY RxAvailRange DEF TypeOK, Backlog
  <2> QED
    BY <2>1 DEF TypeOK
<1>1. CASE SlaveRelease
  <2>1. RxAvail(r_wr, r_rd) # 0
    BY <1>1 DEF SlaveRelease, SlaveInv
  <2>2. /\ UNCHANGED <<c_wr, buf, committed>>
        /\ r_rd' = NextIdx(r_rd)
        /\ Len(received') = Len(received) + 1
        /\ \A i \in Slots : i # r_rd => desc'[i] = desc[i]
    BY <1>1 DEF SlaveRelease, hostVars, TypeOK
  <2>3. Backlog' = Backlog - 1 /\ Backlog # 0
    BY <2>1, <2>2, ReleaseDistances DEF Backlog
  <2>4. ASSUME NEW i \in Slots, RxAvail(i, NextIdx(r_rd)) < Backlog - 1
        PROVE  i # r_rd /\ RxAvail(i, NextIdx(r_rd)) = RxAvail(i, r_rd) - 1
    <3>1. CASE i = r_rd
      <4>1. RxAvail(r_rd, NextIdx(r_rd)) = IF N = 1 THEN 0 ELSE N - 1
        <5>1. r_rd \in 0 .. N-1 /\ NextIdx(r_rd) = IF r_rd + 1 = N THEN 0 ELSE r_rd + 1
          BY NextIdxStep DEF TypeOK, Slots
        <5> QED
          BY <5>1, RingSizeAssumption DEF RxAvail
      <4> QED
        BY <1>0, <2>3, <2>4, <3>1, <4>1, RingSizeAssumption
    <3>2. CASE i # r_rd
      BY <3>2, RxAvailRange, RxAvailNextRd DEF TypeOK
    <3> QED
      BY <3>1, <3>2
  <2>5. ASSUME NEW i \in Slots, RxAvail(i, NextIdx(r_rd)) < Backlog - 1
        PROVE  /\ buf[i] = committed[Len(received') + RxAvail(i, NextIdx(r_rd)) + 1]
               /\ desc'[i] = [valid |-> TRUE, of |-> buf[i]]
    <3>1. RxAvail(i, r_rd) \in 0 .. N-1
      BY RxAvailRange DEF TypeOK
    <3>2. RxAvail(i, r_rd) < Backlog
      BY <1>0, <2>4, <2>5, <3>1, RingSizeAssumption
    <3>3. Len(received') + RxAvail(i, NextIdx(r_rd)) + 1 = Len(received) + RxAvail(i, r_rd) + 1
      BY <1>0, <2>2, <2>4, <2>5, <3>1, RingSizeAssumption
    <3> QED
      BY <2>2, <2>4, <2>5, <3>2, <3>3 DEF ContentInv
  <2> QED
    BY <1>0, <2>2, <2>3, <2>5 DEF ContentInv, Backlog
<1>2. CASE ~ SlaveRelease /\ UNCHANGED <<c_wr, r_wr, committed>>
  <2>1. UNCHANGED <<c_wr, r_rd, committed, received>>
    BY <1>2, WriterSlot
  <2>2. ASSUME NEW i \in Slots, RxAvail(i, r_rd) < Backlog
        PROVE  buf'[i] = buf[i] /\ desc'[i] = desc[i]
    BY <1>2, <2>2, <1>0, WriterSlot, RingSizeAssumption DEF Backlog
  <2> QED
    BY <2>1, <2>2 DEF ContentInv, Backlog
<1>3. ASSUME NEW t \in Thread,
             pc[t] = "index",
             c_wr' = NextIdx(c_wr),
             committed' = Append(committed, msg[t]),
             UNCHANGED <<desc, buf, received, r_rd>>
      PROVE  ContentInv'
  <2>1. TxAvail(c_wr, c_rd) # 0 /\ buf[c_wr] = msg[t] /\ desc[c_wr] = FilledDescriptor(t)
    BY <1>3 DEF OwnerInv
  <2>2. Backlog' = Backlog + 1
    BY <1>3, <2>1, CommitDistances DEF Backlog
  <2>3. msg[t] \in Call
    BY <1>3 DEF MsgInv
  <2>4. /\ Len(committed') = Len(committed) + 1
        /\ committed'[Len(committed) + 1] = msg[t]
        /\ \A k \in 1 .. Len(committed) : committed'[k] = committed[k]
    BY <1>3, <2>3 DEF TypeOK
  <2>5. ASSUME NEW i \in Slots, RxAvail(i, r_rd) < Backlog + 1
        PROVE  /\ buf[i] = committed'[Len(received) + RxAvail(i, r_rd) + 1]
               /\ desc[i] = [valid |-> TRUE, of |-> buf[i]]
    <3>0. RxAvail(i, r_rd) \in 0 .. N-1
      BY RxAvailRange DEF TypeOK
    <3>1. CASE RxAvail(i, r_rd) < Backlog
      <4>1. Len(received) + RxAvail(i, r_rd) + 1 \in 1 .. Len(committed)
        BY <1>0, <3>0, <3>1, RingSizeAssumption DEF ContentInv
      <4> QED
        BY <2>4, <3>1, <4>1 DEF ContentInv
    <3>2. CASE RxAvail(i, r_rd) = Backlog
      <4>1. i = c_wr
        BY <3>2, RxAvailInjective DEF Backlog, TypeOK
      <4>2. Len(received) + RxAvail(i, r_rd) + 1 = Len(committed) + 1
        BY <1>0, <3>2 DEF ContentInv
      <4> QED
        BY <2>1, <2>4, <4>1, <4>2 DEF FilledDescriptor
    <3> QED
      BY <1>0, <2>5, <3>0, <3>1, <3>2, RingSizeAssumption
  <2>6. Backlog' = Len(committed') - Len(received')
    BY <1>0, <1>3, <2>2, <2>4 DEF ContentInv
  <2> QED
    BY <1>3, <2>2, <2>5, <2>6 DEF ContentInv
<1> QED
  BY <1>1, <1>2, <1>3, CommitOrNot

\* The oldest message of the ring is whole when there is one to receive.
LEMMA OldestMessage ==
  ASSUME Inv, RxAvail(r_wr, r_rd) # 0
  PROVE  /\ desc[r_rd] = [valid |-> TRUE, of |-> buf[r_rd]]
         /\ buf[r_rd] = committed[Len(received) + 1]
         /\ Len(received) + 1 \in 1 .. Len(committed)
<1> USE DEF Inv, TypeInv
<1>1. RxAvail(r_rd, r_rd) = 0
  BY RxAvailRange DEF TypeOK
<1>2. Backlog \in 1 .. N-1
  <2>1. Backlog \in 0 .. N-1
    BY RxAvailRange DEF TypeOK, Backlog
  <2> QED
    BY <2>1, ReleaseDistances, RingSizeAssumption
<1>3. Len(committed) \in Nat /\ Len(received) \in Nat
  BY DEF TypeOK
<1>4. Len(received) + 1 \in 1 .. Len(committed)
  BY <1>2, <1>3, RingSizeAssumption DEF ContentInv
<1>5. r_rd \in Slots /\ RxAvail(r_rd, r_rd) < Backlog
  BY <1>1, <1>2, RingSizeAssumption DEF TypeOK
<1>6. Len(received) + RxAvail(r_rd, r_rd) + 1 = Len(received) + 1
  BY <1>1, <1>3
<1> QED
  BY <1>4, <1>5, <1>6 DEF ContentInv

LEMMA SlaveInvStep == Inv /\ [Next]_vars => SlaveInv'
<1> SUFFICES ASSUME Inv, [Next]_vars, slave' = "release"
             PROVE  RxAvail(r_wr', r_rd') # 0 /\ slaveMsg' = buf'[r_rd']
  BY DEF SlaveInv
<1> USE DEF Inv, TypeInv
<1>1. ~ SlaveRelease
  BY DEF SlaveRelease
<1>2. CASE SlaveTake
  <2>1. slaveMsg' = buf[r_rd]
    BY <1>2, OldestMessage DEF SlaveTake
  <2> QED
    BY <1>2, <2>1 DEF SlaveTake
<1>3. CASE UNCHANGED <<slave, slaveMsg>>
  <2>1. RxAvail(r_wr, r_rd) # 0 /\ slaveMsg = buf[r_rd] /\ r_rd # c_wr
    BY <1>3, SlaveSlotNotFilled DEF SlaveInv
  <2>2. r_rd' = r_rd /\ buf'[r_rd] = buf[r_rd]
    BY <1>1, <2>1, WriterSlot DEF TypeOK
  <2>3. RxAvail(r_wr', r_rd) # 0
    <3>1. CASE UNCHANGED r_wr
      BY <2>1, <3>1
    <3>2. ASSUME NEW t \in Thread, pc[t] = "index", r_wr' = NextIdx(c_wr)
          PROVE  RxAvail(r_wr', r_rd) # 0
      <4>1. RxAvail(NextIdx(c_wr), r_rd) = Backlog + 1
        BY <3>2, CommitDistances DEF OwnerInv, Backlog
      <4>2. Backlog \in 0 .. N-1
        BY RxAvailRange DEF TypeOK, Backlog
      <4> QED
        BY <3>2, <4>1, <4>2, RingSizeAssumption
    <3> QED
      BY <3>1, <3>2, CommitOrNot
  <2> QED
    BY <1>3, <2>1, <2>2, <2>3
<1> QED
  BY <1>1, <1>2, <1>3
  DEF Next, ThreadStep, SlaveStep, vars, slaveVars, RingSend, Lock, LockTimeout,
      ReadRemoteRd, ReadRemoteRdFails, WriteData, WriteDataFails,
      WriteDescriptor, WriteDescriptorFails, PublishWr, PublishWrFails,
      TriggerInterrupt, SlaveInterrupt, SlaveEmpty

LEMMA FifoStep == Inv /\ [Next]_vars => FifoInv'
<1> SUFFICES ASSUME Inv, [Next]_vars PROVE FifoInv'
  OBVIOUS
<1> USE DEF Inv, TypeInv
<1>0. /\ Len(committed) \in Nat /\ Len(received) \in Nat
      /\ Len(received) <= Len(committed)
  <2>1. Backlog \in 0 .. N-1
    BY RxAvailRange DEF TypeOK, Backlog
  <2>2. Len(committed) \in Nat /\ Len(received) \in Nat
    BY DEF TypeOK
  <2> QED
    BY <2>1, <2>2, RingSizeAssumption DEF ContentInv
<1>1. CASE SlaveRelease
  <2>1. /\ committed' = committed
        /\ slaveMsg = committed[Len(received) + 1]
    BY <1>1, OldestMessage DEF SlaveRelease, SlaveInv
  <2>2. /\ Len(received') = Len(received) + 1
        /\ received'[Len(received) + 1] = slaveMsg
        /\ \A k \in 1 .. Len(received) : received'[k] = received[k]
    BY <1>1 DEF SlaveRelease, TypeOK
  <2> QED
    BY <1>0, <2>1, <2>2 DEF FifoInv
<1>2. CASE ~ SlaveRelease /\ UNCHANGED committed
  BY <1>2, WriterSlot DEF FifoInv
<1>3. ASSUME NEW t \in Thread, pc[t] = "index",
             committed' = Append(committed, msg[t]), UNCHANGED received
      PROVE  FifoInv'
  <2>1. \A k \in 1 .. Len(committed) : committed'[k] = committed[k]
    BY <1>3 DEF TypeOK, MsgInv
  <2> QED
    BY <1>0, <1>3, <2>1 DEF FifoInv
<1> QED
  BY <1>1, <1>2, <1>3, CommitOrNot

-----------------------------------------------------------------------------
(* The theorems.                                                           *)

LEMMA InvInit == Init => Inv
<1> SUFFICES ASSUME Init PROVE Inv
  OBVIOUS
<1>1. TypeInv
  BY TypeInit
<1>2. OwnerInv
  BY TxAssumption DEF Init, OwnerInv, Critical
<1>3. RxAvail(r_wr, r_wr) = 0 /\ \A i \in Slots : ~ RxAvail(i, r_wr) < 0
  BY RxAvailRange, RingSizeAssumption, TxAssumption DEF Init
<1>4. IndexOrder
  BY <1>3 DEF Init, IndexOrder
<1>5. SlaveInv /\ FifoInv
  BY DEF Init, SlaveInv, FifoInv
<1>6. ContentInv
  BY <1>3 DEF Init, ContentInv, Backlog
<1> QED
  BY <1>1, <1>2, <1>4, <1>5, <1>6 DEF Inv

LEMMA InvStep == Inv /\ [Next]_vars => Inv'
  BY TypeStep, OwnerStep, OrderStep, SlaveInvStep, ContentStep, FifoStep DEF Inv

LEMMA InvAlways == Spec => []Inv
  BY InvInit, InvStep, PTL DEF Spec

\* The cached indices never run ahead of the slave's, through every failure of
\* a transfer and every interleaving of the senders with the slave.
THEOREM IndexOrderHolds == Spec => []IndexOrder
  BY InvAlways, PTL DEF Inv

\* Every slot that the slave may read holds a valid descriptor and the whole
\* message it describes.
THEOREM PublishedIntactHolds == Spec => []PublishedIntact
<1>1. Inv => PublishedIntact
  <2> SUFFICES ASSUME Inv, NEW i \in Slots, Published(i)
               PROVE  desc[i].valid /\ buf[i] # Torn /\ desc[i].of = buf[i]
    BY DEF PublishedIntact
  <2> USE DEF Inv, TypeInv
  <2>1. /\ RxAvail(i, r_rd) \in 0 .. N-1
        /\ Len(committed) \in Nat /\ Len(received) \in Nat
    <3>1. RxAvail(i, r_rd) \in 0 .. N-1
      BY RxAvailRange DEF TypeOK
    <3> QED
      BY <3>1 DEF TypeOK
  <2>2. RxAvail(i, r_rd) < Backlog /\ Backlog \in Nat
    BY <2>1, BacklogParts, RingSizeAssumption DEF Published
  <2>3. /\ buf[i] = committed[Len(received) + RxAvail(i, r_rd) + 1]
        /\ desc[i] = [valid |-> TRUE, of |-> buf[i]]
    BY <2>2 DEF ContentInv
  <2>4. Len(received) + RxAvail(i, r_rd) + 1 \in 1 .. Len(committed)
    BY <2>1, <2>2, RingSizeAssumption DEF ContentInv
  <2>5. buf[i] \in Call
    BY <2>3, <2>4 DEF TypeOK
  <2> QED
    BY <2>3, <2>5, TxAssumption DEF Call, Torn
<1> QED
  BY <1>1, InvAlways, PTL

\* No return path of ring_send leaves tx_lock locked.
THEOREM LockNotLeakedHolds == Spec => []LockNotLeaked
<1>1. Inv => LockNotLeaked
  BY DEF Inv, TypeInv, TypeOK, OwnerInv, LockNotLeaked
<1> QED
  BY <1>1, InvAlways, PTL

\* No sender touches the slot the slave is copying a message out of.
THEOREM SlaveCopyStableHolds == Spec => SlaveCopyStable
<1>1. ASSUME Inv, [Next]_vars, slave = "release", slave' = "release"
      PROVE  buf'[r_rd] = buf[r_rd] /\ desc'[r_rd] = desc[r_rd]
  <2>1. ~ SlaveRelease
    BY <1>1 DEF SlaveRelease
  <2>2. r_rd # c_wr /\ r_rd \in Slots
    BY <1>1, SlaveSlotNotFilled DEF Inv, TypeInv, TypeOK
  <2> QED
    BY <1>1, <2>1, <2>2, WriterSlot
<1>2. Inv /\ [Next]_vars =>
        [(slave = "release" /\ slave' = "release") =>
            buf'[r_rd] = buf[r_rd] /\ desc'[r_rd] = desc[r_rd]]_vars
  BY <1>1
<1> QED
  BY <1>2, InvAlways, PTL DEF Spec, SlaveCopyStable

-----------------------------------------------------------------------------
(* The ring implements the channel.                                        *)

\* The calls under way have different messages, none of which is committed
\* before its call reaches the write index.
FreshInv ==
  /\ \A t \in Thread : pc[t] # "idle" => msg[t] <= calls
  /\ \A k \in 1 .. Len(committed) : committed[k] <= calls
  /\ \A t \in Thread : pc[t] \in Critical \cup {"lock"} =>
       \A k \in 1 .. Len(committed) : committed[k] # msg[t]
  /\ \A t, u \in Thread :
       t # u /\ pc[t] # "idle" /\ pc[u] # "idle" => msg[t] # msg[u]

LEMMA FreshStep == Inv /\ FreshInv /\ [Next]_vars => FreshInv'
<1> SUFFICES ASSUME Inv, FreshInv, [Next]_vars PROVE FreshInv'
  OBVIOUS
<1> USE DEF Inv, TypeInv, TypeOK, Critical, FreshInv
<1>0. calls \in Nat /\ \A t \in Thread : msg[t] \in Nat
  BY TxAssumption DEF Content, Call, Torn
<1>0a. \A k \in 1 .. Len(committed) : committed[k] \in Nat
  BY TxAssumption DEF Call
<1>1. ASSUME NEW t \in Thread, RingSend(t) PROVE FreshInv'
  BY <1>0, <1>0a, <1>1 DEF RingSend, Goto
<1>2. ASSUME NEW t \in Thread, PublishWr(t) \/ PublishWrFails(t) PROVE FreshInv'
  <2>1. /\ pc[t] = "index" /\ calls' = calls
        /\ \A u \in Thread : pc'[u] # "idle" => msg'[u] = msg[u]
        /\ pc' = [pc EXCEPT ![t] = "irq"] \/ pc' = [pc EXCEPT ![t] = "idle"]
        /\ committed' = Append(committed, msg[t])
    BY <1>2 DEF PublishWr, PublishWrFails, AdvanceCachedWr, UnlockReturn, Return, Goto
  <2>2. \A u \in Thread : u # t => pc[u] \notin Critical
    BY <2>1 DEF OwnerInv
  <2>3. msg[t] \in Call
    BY <2>1 DEF MsgInv
  <2>4. /\ Len(committed') = Len(committed) + 1 /\ Len(committed) \in Nat
        /\ committed'[Len(committed) + 1] = msg[t]
        /\ \A k \in 1 .. Len(committed) : committed'[k] = committed[k]
    BY <2>1, <2>3
  <2>5. \A k \in 1 .. Len(committed') : k \in 1 .. Len(committed) \/ k = Len(committed) + 1
    BY <2>4
  <2>6. \A u \in Thread : /\ pc'[u] # "idle" => pc[u] # "idle"
                          /\ pc'[u] \in Critical \cup {"lock"} => u # t /\ pc[u] = "lock"
    BY <2>1, <2>2
  <2>7. \A u \in Thread : pc'[u] # "idle" => msg'[u] <= calls'
    BY <2>1, <2>6
  <2>8. \A k \in 1 .. Len(committed') : committed'[k] <= calls'
    BY <2>1, <2>4, <2>5
  <2>9. ASSUME NEW u \in Thread, pc'[u] \in Critical \cup {"lock"}
        PROVE  \A k \in 1 .. Len(committed') : committed'[k] # msg'[u]
    <3>1. msg[u] # msg[t] /\ msg'[u] = msg[u]
      BY <2>1, <2>6, <2>9
    <3>2. \A k \in 1 .. Len(committed) : committed[k] # msg[u]
      BY <2>6, <2>9
    <3> QED
      BY <2>4, <2>5, <3>1, <3>2
  <2>10. \A u, v \in Thread :
           u # v /\ pc'[u] # "idle" /\ pc'[v] # "idle" => msg'[u] # msg'[v]
    BY <2>1, <2>6
  <2> QED
    BY <2>7, <2>8, <2>9, <2>10
<1>3. ASSUME NEW t \in Thread, UNCHANGED <<calls, committed>>,
             \A u \in Thread : pc'[u] # "idle" => msg'[u] = msg[u],
             NEW pcs \in {"idle", "data", "desc", "index", "read_rd"},
             pc[t] \in Critical \cup {"lock"} \/ pcs = "idle",
             pc' = [pc EXCEPT ![t] = pcs]
      PROVE  FreshInv'
  BY <1>3
<1>4. CASE UNCHANGED <<pc, msg, calls, committed>>
  BY <1>4
<1>5. ASSUME NEW t \in Thread, ThreadStep(t), ~ PublishWr(t), ~ PublishWrFails(t)
      PROVE  FreshInv'
  BY <1>3, <1>5
  DEF ThreadStep, Lock, LockTimeout, ReadRemoteRd, ReadRemoteRdFails, WriteData,
      WriteDataFails, WriteDescriptor, WriteDescriptorFails, TriggerInterrupt,
      UnlockReturn, Return, Goto
<1> QED
  BY <1>1, <1>2, <1>4, <1>5
  DEF Next, SlaveStep, vars, hostVars, SlaveInterrupt, SlaveTake, SlaveEmpty,
      SlaveRelease

\* Every commit is an Accept of the channel and every release a Receive.
LEMMA ChannelStep ==
  ASSUME Inv, FreshInv, [Next]_vars
  PROVE  [Channel!ChannelNext]_(Channel!channelVars)
<1> USE DEF Inv, TypeInv
<1>0. /\ Len(committed) \in Nat /\ Len(received) \in Nat
      /\ RxAvail(r_wr, r_rd) \in 0 .. N-1 /\ Backlog \in 0 .. N-1
  <2>1. RxAvail(r_wr, r_rd) \in 0 .. N-1 /\ Backlog \in 0 .. N-1
    BY RxAvailRange DEF TypeOK, Backlog
  <2> QED
    BY <2>1 DEF TypeOK
<1>1. CASE SlaveRelease
  <2>1. RxAvail(r_wr, r_rd) # 0 /\ slaveMsg = committed[Len(received) + 1]
    BY <1>1, OldestMessage DEF SlaveRelease, SlaveInv
  <2>2. /\ UNCHANGED <<committed, r_wr>> /\ r_rd' = NextIdx(r_rd)
        /\ received' = Append(received, slaveMsg)
        /\ Len(received') = Len(received) + 1
    BY <1>1 DEF SlaveRelease, hostVars, TypeOK
  <2>3. VisibleCount' = VisibleCount
    BY <1>0, <2>1, <2>2, ReleaseDistances, RingSizeAssumption DEF VisibleCount
  <2>4. Len(received) < VisibleCount
    BY <1>0, <2>1, RingSizeAssumption DEF VisibleCount
  <2> QED
    BY <2>1, <2>2, <2>3, <2>4 DEF Channel!ChannelNext, Channel!Receive
<1>2. CASE ~ SlaveRelease /\ UNCHANGED <<c_wr, r_wr, committed>>
  BY <1>2, WriterSlot DEF Channel!channelVars, VisibleCount
<1>3. ASSUME NEW t \in Thread, pc[t] = "index",
             committed' = Append(committed, msg[t]),
             r_wr' \in {r_wr, NextIdx(c_wr)},
             UNCHANGED <<received, r_rd>>
      PROVE  Channel!ChannelNext
  <2>1. TxAvail(c_wr, c_rd) # 0 /\ msg[t] \in Call
    BY <1>3 DEF OwnerInv, MsgInv
  <2>2. RxAvail(NextIdx(c_wr), r_rd) = Backlog + 1
    BY <2>1, CommitDistances DEF Backlog
  <2>3. Len(committed) - Len(received) < N - 1
    <3>1. NextIdx(c_wr) \in Slots
      BY NextIdxStep DEF TypeOK
    <3>2. Backlog + 1 \in 0 .. N-1
      BY <2>2, <3>1, RxAvailRange DEF TypeOK
    <3> QED
      BY <1>0, <3>2, RingSizeAssumption DEF ContentInv
  <2>4. \A k \in 1 .. Len(committed) : committed[k] # msg[t]
    BY <1>3 DEF FreshInv, Critical
  <2>5. Len(committed') = Len(committed) + 1
    BY <1>3, <2>1 DEF TypeOK
  <2>6. VisibleCount' \in {VisibleCount, Len(committed')}
    <3>1. CASE r_wr' = r_wr
      BY <1>3, <3>1 DEF VisibleCount
    <3>2. CASE r_wr' = NextIdx(c_wr)
      <4>1. VisibleCount' = Len(received) + (Backlog + 1)
        BY <1>3, <2>2, <3>2 DEF VisibleCount
      <4> QED
        BY <1>0, <2>5, <4>1 DEF ContentInv
    <3> QED
      BY <1>3, <3>1, <3>2
  <2> QED
    BY <1>3, <2>1, <2>3, <2>4, <2>6 DEF Channel!ChannelNext, Channel!Accept
<1> QED
  BY <1>1, <1>2, <1>3, CommitOrNot

\* One direction of the ring, with every thread, cached index and failed
\* transfer, implements a bounded FIFO channel of capacity N - 1.
THEOREM RingImplementsChannel == Spec => ImplementsChannel
<1>1. Init => FreshInv
  BY DEF Init, FreshInv, Critical
<1>2. Spec => [](Inv /\ FreshInv)
  BY <1>1, InvInit, InvStep, FreshStep, PTL DEF Spec
<1>3. Init => Channel!ChannelInit
  <2> SUFFICES ASSUME Init PROVE Channel!ChannelInit
    OBVIOUS
  <2>1. RxAvail(r_wr, r_wr) = 0
    BY RxAvailRange, TxAssumption DEF Init
  <2> QED
    BY <2>1 DEF Init, Channel!ChannelInit, VisibleCount
<1>4. (Inv /\ FreshInv) /\ [Next]_vars => [Channel!ChannelNext]_(Channel!channelVars)
  BY ChannelStep
<1> QED
  BY <1>2, <1>3, <1>4, PTL DEF Spec, ImplementsChannel, Channel!ChannelSpec

-----------------------------------------------------------------------------
(* A send that reported success.                                           *)

Seen(m) == \E k \in 1 .. VisibleCount : committed[k] = m

\* A message is visible from the moment the published index moves, before the
\* call interrupts the slave and returns.
VisibleInv ==
  /\ VisibleCount \in 0 .. Len(committed)
  /\ \A m \in Call : result[m] \in {"OK", "OK_NOIRQ"} => Seen(m)
  /\ \A t \in Thread : pc[t] = "irq" => Seen(msg[t])

\* What is visible stays so.
LEMMA SeenGrows ==
  ASSUME Inv, FreshInv, VisibleInv, [Next]_vars
  PROVE  /\ VisibleCount' \in 0 .. Len(committed')
         /\ \A m \in Call : Seen(m) => Seen(m)'
<1>1. Len(committed) \in Nat /\ VisibleCount \in 0 .. Len(committed)
  BY DEF Inv, TypeInv, TypeOK, VisibleInv
<1>2. [Channel!ChannelNext]_(Channel!channelVars)
  BY ChannelStep
<1>3. CASE \E m \in Call : Channel!Accept(m)
  <2>1. PICK m \in Call : committed' = Append(committed, m)
                          /\ VisibleCount' \in {VisibleCount, Len(committed')}
    BY <1>3 DEF Channel!Accept
  <2>2. Len(committed') = Len(committed) + 1
        /\ \A k \in 1 .. Len(committed) : committed'[k] = committed[k]
    BY <2>1 DEF Inv, TypeInv, TypeOK
  <2>3. VisibleCount' \in 0 .. Len(committed') /\ VisibleCount' >= VisibleCount
    BY <1>1, <2>1, <2>2
  <2>4. \A k \in 1 .. VisibleCount : k \in 1 .. VisibleCount' /\ committed'[k] = committed[k]
    BY <1>1, <2>2, <2>3
  <2> QED  BY <2>3, <2>4 DEF Seen
<1>4. CASE UNCHANGED <<committed, VisibleCount>>
  BY <1>1, <1>4 DEF Seen
<1> QED
  BY <1>2, <1>3, <1>4 DEF Channel!ChannelNext, Channel!Receive, Channel!channelVars

\* Publishing the index makes every committed message visible.
LEMMA PublishShows ==
  ASSUME Inv, NEW t \in Thread, PublishWr(t)
  PROVE  Seen(msg[t])'
<1> USE DEF Inv, TypeInv
<1>1. /\ pc[t] = "index" /\ committed' = Append(committed, msg[t]) /\ msg' = msg
      /\ r_wr' = NextIdx(c_wr) /\ UNCHANGED <<received, r_rd>>
  BY DEF PublishWr, AdvanceCachedWr, OwnerInv, Critical, slaveVars
<1>2. TxAvail(c_wr, c_rd) # 0 /\ msg[t] \in Call
  BY <1>1 DEF OwnerInv, MsgInv
<1>3. RxAvail(NextIdx(c_wr), r_rd) = Backlog + 1
  BY <1>2, CommitDistances DEF Backlog
<1>4. /\ Len(committed') = Len(committed) + 1 /\ committed'[Len(committed')] = msg[t]
      /\ Len(committed) \in Nat /\ Len(received) \in Nat
  BY <1>1, <1>2 DEF TypeOK
<1>5. VisibleCount' = Len(received) + (Backlog + 1)
  BY <1>1, <1>3 DEF VisibleCount
<1>6. VisibleCount' = Len(committed')
  BY <1>4, <1>5 DEF ContentInv
<1> QED  BY <1>1, <1>4, <1>6 DEF Seen

LEMMA VisibleStep == Inv /\ FreshInv /\ VisibleInv /\ [Next]_vars => VisibleInv'
<1> SUFFICES ASSUME Inv, FreshInv, VisibleInv, [Next]_vars PROVE VisibleInv'
  OBVIOUS
<1> USE DEF Inv, TypeInv, TypeOK
<1>1. VisibleCount' \in 0 .. Len(committed') /\ \A m \in Call : Seen(m) => Seen(m)'
  BY SeenGrows
<1>2. \A m \in Call : result[m] \in {"OK", "OK_NOIRQ"} =>
        \E k \in 1 .. VisibleCount' : committed'[k] = m
  BY <1>1 DEF VisibleInv, Seen
<1>3. \A t \in Thread : pc[t] = "irq" =>
        msg[t] \in Call /\ \E k \in 1 .. VisibleCount' : committed'[k] = msg[t]
  <2>1. \A t \in Thread : pc[t] = "irq" => msg[t] \in Call /\ Seen(msg[t])
    BY DEF MsgInv, VisibleInv
  <2> QED  BY <1>1, <2>1 DEF Seen
<1>4. ASSUME NEW t \in Thread, PublishWr(t) PROVE VisibleInv'
  <2>1. UNCHANGED <<msg, result>> /\ pc' = [pc EXCEPT ![t] = "irq"]
    BY <1>4 DEF PublishWr, Goto
  <2>2. \E k \in 1 .. VisibleCount' : committed'[k] = msg'[t]
    BY <1>4, PublishShows DEF Seen
  <2>3. \A u \in Thread : pc'[u] = "irq" =>
          \E k \in 1 .. VisibleCount' : committed'[k] = msg'[u]
    BY <1>3, <2>1, <2>2
  <2> QED  BY <1>1, <1>2, <2>1, <2>3 DEF VisibleInv, Seen
<1>5. ASSUME NEW t \in Thread, TriggerInterrupt(t) PROVE VisibleInv'
  <2>1. /\ pc[t] = "irq" /\ pc' = [pc EXCEPT ![t] = "idle"]
        /\ msg' = [msg EXCEPT ![t] = Torn]
        /\ \A m \in Call : m # msg[t] => result'[m] = result[m]
    BY <1>5 DEF TriggerInterrupt, Return, Goto
  <2>2. \A m \in Call : result'[m] \in {"OK", "OK_NOIRQ"} =>
          \E k \in 1 .. VisibleCount' : committed'[k] = m
    BY <1>2, <1>3, <2>1
  <2>3. \A u \in Thread : pc'[u] = "irq" => pc[u] = "irq" /\ msg'[u] = msg[u]
    BY <2>1
  <2> QED  BY <1>1, <1>3, <2>2, <2>3 DEF VisibleInv, Seen
<1>6. ASSUME \A u \in Thread : pc'[u] = "irq" => pc[u] = "irq" /\ msg'[u] = msg[u],
             \A m \in Call : result'[m] \in {"OK", "OK_NOIRQ"} => result'[m] = result[m]
      PROVE  VisibleInv'
  BY <1>1, <1>2, <1>3, <1>6 DEF VisibleInv, Seen
<1>7. ASSUME NEW t \in Thread, RingSend(t) \/ (ThreadStep(t) /\ ~ PublishWr(t) /\ ~ TriggerInterrupt(t))
      PROVE  VisibleInv'
  <2>1. \A u \in Thread : pc'[u] = "irq" => pc[u] = "irq" /\ msg'[u] = msg[u]
    BY <1>7
    DEF RingSend, ThreadStep, Lock, LockTimeout, ReadRemoteRd, ReadRemoteRdFails,
        WriteData, WriteDataFails, WriteDescriptor, WriteDescriptorFails,
        PublishWrFails, UnlockReturn, Return, Goto
  <2>2. \A m \in Call : result'[m] \in {"OK", "OK_NOIRQ"} => result'[m] = result[m]
    BY <1>7
    DEF RingSend, ThreadStep, Lock, LockTimeout, ReadRemoteRd, ReadRemoteRdFails,
        WriteData, WriteDataFails, WriteDescriptor, WriteDescriptorFails,
        PublishWrFails, UnlockReturn, Return
  <2> QED  BY <1>6, <2>1, <2>2
<1>8. CASE SlaveStep \/ UNCHANGED vars
  BY <1>6, <1>8
  DEF SlaveStep, SlaveInterrupt, SlaveTake, SlaveRelease, SlaveEmpty, hostVars, vars
<1> QED  BY <1>4, <1>5, <1>7, <1>8 DEF Next

\* A send that returned success has put its message where the slave has been
\* told to look, whichever transfers of other calls failed.
THEOREM OkIsVisibleHolds == Spec => []OkIsVisible
<1>1. Init => FreshInv
  BY DEF Init, FreshInv, Critical
<1>2. Init => VisibleInv
  <2> SUFFICES ASSUME Init PROVE VisibleInv
    OBVIOUS
  <2>1. RxAvail(r_wr, r_rd) = 0
    BY RxAvailRange, TxAssumption DEF Init
  <2> QED  BY <2>1 DEF Init, VisibleInv, VisibleCount
<1>3. VisibleInv => OkIsVisible
  BY DEF VisibleInv, OkIsVisible, Seen
<1> QED
  BY <1>1, <1>2, <1>3, InvInit, InvStep, FreshStep, VisibleStep, PTL DEF Spec
=============================================================================
