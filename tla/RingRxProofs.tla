---------------------------- MODULE RingRxProofs ----------------------------
(***************************************************************************)
(* Safety of RingRx for every ring size, set of threads, kind of calls and *)
(* number of messages, with and without link faults.                       *)
(***************************************************************************)
EXTENDS RingRx, RingIndexProofs

-----------------------------------------------------------------------------
(* The inductive invariant.                                                *)

Critical == {"read_wr", "query", "reread", "desc", "data", "clear", "index"}

\* The slot after the last message whose descriptor is valid.  It is ahead of
\* the published write index while the slave has that to move.
Filled == IF slave = "index" THEN NextIdx(r_wr) ELSE r_wr

\* A call under way is one its thread makes; the slave has room for a message
\* it has begun.
TypeInv ==
  /\ TypeOK
  /\ \A t \in Thread : pc[t] # "idle" => mode[t] \in setting.modes[t]
  /\ slave = "desc" => Len(produced) < MaxSends

\* The owner of rx_lock is the one thread in the critical section.
LockInv == \A t \in Thread : pc[t] \in Critical <=> rx_lock = t

\* It works at the cached read index, past the check of the descriptor there is
\* a message, which it copies, and then the descriptor is cleared.
OwnerInv ==
  \A t \in Thread :
    /\ pc[t] \in {"desc", "data", "clear", "index"} => rd_idx[t] = c_rd
    /\ pc[t] \in {"data", "clear", "index"} => Backlog # 0
    /\ pc[t] \in {"clear", "index"} => data[t] = buf[c_rd]
    /\ pc[t] = "index" => ~ desc[c_rd].valid

\* The backlog lies between the cached read index and Filled, and the slave's
\* copy of the read index is behind it.
OrderInv ==
  /\ Backlog = RxAvail(Filled, c_rd)
  /\ RxAvail(Filled, r_rd) = Backlog + RxAvail(c_rd, r_rd)

SlaveInv ==
  /\ \A k \in 1 .. Len(produced) : produced[k] = k
  /\ slave = "desc" => TxAvail(r_wr, r_rd) # 0 /\ buf[r_wr] = Len(produced) + 1

\* A valid descriptor belongs to a message of the backlog.
ValidInv == \A i \in Slots : desc[i].valid => RxAvail(i, c_rd) < Backlog

Inv ==
  /\ TypeInv /\ LockInv /\ OwnerInv /\ OrderInv /\ SlaveInv
  /\ BacklogIntact /\ ValidInv

-----------------------------------------------------------------------------

LEMMA TypeInit == Init => TypeInv
<1> SUFFICES ASSUME Init PROVE TypeInv
  OBVIOUS
<1>1. Cleared \in Descriptor /\ Torn \in Content
  BY DEF Cleared, Descriptor, Content
<1>2. 0 \in Slots /\ 0 \in 0 .. N /\ 0 \in 0 .. MaxCalls
  BY RingSizeAssumption, RxAssumption DEF Slots
<1>3. r_wr \in Slots /\ r_rd \in Slots /\ c_rd \in Slots
  BY RxAssumption DEF Init
<1>4. reported \in [value : Nat, backlog : Int]
  BY DEF Init
<1>5. produced \in Seq(Msg) /\ consumed \in Seq(Content) /\ delivered \in Seq(Content)
  BY DEF Init
<1> QED
  BY <1>1, <1>2, <1>3, <1>4, <1>5, Zenon DEF Init, TypeInv, TypeOK, PC, Mode

\* What a thread's step may do to the types.
LEMMA ThreadTypes ==
  ASSUME TypeInv, NEW t \in Thread, ThreadStep(t), UNCHANGED setting
  PROVE  TypeInv'
<1> USE DEF TypeInv, TypeOK, Goto, UnlockReturn, PC
<1>1. CASE Lock(t)
  BY <1>1 DEF Lock
<1>2. CASE LockTimeout(t)
  BY <1>2 DEF LockTimeout
<1>3. CASE ReadWr(t)
  BY <1>3 DEF ReadWr
<1>4. CASE QueryAvail(t)
  <2>1. RxAvail(r_wr, c_rd) \in Nat /\ Backlog \in Int
    BY RxAvailRange, RingSizeAssumption DEF Backlog
  <2>2. reported' \in [value : Nat, backlog : Int]
    BY <1>4, <2>1 DEF QueryAvail
  <2> QED  BY <1>4, <2>2 DEF QueryAvail
<1>5. CASE ReadFails(t)
  BY <1>5 DEF ReadFails
<1>6. CASE SemTake(t) \/ SemTimeout(t)
  <2>1. rx_sem' \in 0 .. N
    BY <1>6, RingSizeAssumption DEF SemTake, SemTimeout
  <2> QED  BY <1>6, <2>1 DEF SemTake, SemTimeout
<1>7. CASE Relock(t) \/ Reread(t)
  BY <1>7 DEF Relock, Reread
<1>8. CASE ReadDescriptor(t)
  BY <1>8 DEF ReadDescriptor
<1>9. CASE ReadData(t)
  BY <1>9 DEF ReadData
<1>10. CASE ClearDescriptor(t) \/ ClearDescriptorFails(t)
  <2>1. Cleared \in Descriptor /\ desc[rd_idx[t]] \in Descriptor
    BY DEF Cleared, Descriptor, Content
  <2>2. CASE ClearDescriptor(t)
    <3>1. desc' \in [Slots -> Descriptor]
      BY <2>1, <2>2 DEF ClearDescriptor
    <3> QED  BY <2>2, <3>1 DEF ClearDescriptor
  <2>3. CASE ClearDescriptorFails(t)
    <3>1. desc' \in [Slots -> Descriptor]
      BY <2>1, <2>3 DEF ClearDescriptorFails
    <3> QED  BY <2>3, <3>1 DEF ClearDescriptorFails
  <2> QED  BY <1>10, <2>2, <2>3
<1>11. CASE PublishRd(t) \/ PublishRdFails(t)
  <2>1. NextIdx(rd_idx[t]) \in Slots
    BY NextIdxStep
  <2>2. Append(consumed, data[t]) \in Seq(Content) /\ Append(delivered, data[t]) \in Seq(Content)
    OBVIOUS
  <2>3. CASE PublishRd(t)
    BY <2>1, <2>2, <2>3 DEF PublishRd, AdvanceCachedRd
  <2>4. CASE PublishRdFails(t)
    BY <2>1, <2>2, <2>4 DEF PublishRdFails, AdvanceCachedRd
  <2> QED  BY <1>11, <2>3, <2>4
<1> QED
  BY <1>1, <1>2, <1>3, <1>4, <1>5, <1>6, <1>7, <1>8, <1>9, <1>10, <1>11 DEF ThreadStep

LEMMA TypeStep == TypeInv /\ [Next]_vars => TypeInv'
<1> SUFFICES ASSUME TypeInv, [Next]_vars PROVE TypeInv'
  OBVIOUS
<1> USE DEF TypeInv, TypeOK
<1>1. ASSUME NEW t \in Thread, ThreadStep(t), UNCHANGED setting PROVE TypeInv'
  BY <1>1, ThreadTypes
<1>2. ASSUME NEW t \in Thread, NEW m \in Mode, Call(t, m), UNCHANGED setting
      PROVE  TypeInv'
  <2>1. 0 \in Slots /\ Torn \in Content /\ "lock" \in PC
    BY RingSizeAssumption DEF Slots, Content, PC
  <2>2. calls' \in 0 .. MaxCalls
    BY <1>2, RxAssumption DEF Call
  <2> QED  BY <1>2, <2>1, <2>2 DEF Call, Goto
<1>3. CASE HostInterrupt /\ UNCHANGED setting
  <2>1. rx_sem' \in 0 .. N
    BY <1>3, RingSizeAssumption DEF HostInterrupt
  <2> QED  BY <1>3, <2>1 DEF HostInterrupt, hostVars
<1>4. CASE SlaveFill /\ UNCHANGED setting
  <2>1. Len(produced) + 1 \in Content /\ Len(produced) < MaxSends
    BY <1>4, RxAssumption DEF SlaveFill, Content, Msg
  <2> QED  BY <1>4, <2>1 DEF SlaveFill, hostVars
<1>5. CASE SlaveDescribe /\ UNCHANGED setting
  <2>1. Len(produced) + 1 \in Msg /\ Len(produced) + 1 \in Content
    BY <1>5, RxAssumption DEF SlaveDescribe, Content, Msg
  <2>2. desc' \in [Slots -> Descriptor]
    BY <1>5, <2>1 DEF SlaveDescribe, Descriptor
  <2> QED  BY <1>5, <2>1, <2>2 DEF SlaveDescribe, hostVars
<1>6. CASE (SlavePublish \/ SlaveInterruptsHost) /\ UNCHANGED setting
  BY <1>6, NextIdxStep DEF SlavePublish, SlaveInterruptsHost, hostVars
<1>7. CASE UNCHANGED vars
  BY <1>7 DEF vars, hostVars
<1> QED
  BY <1>1, <1>2, <1>3, <1>4, <1>5, <1>6, <1>7 DEF Next, Step, SlaveStep

\* Every variable of the receive side keeps its type: the indices stay in the
\* ring and the semaphore below its limit.
THEOREM TypeCorrect == Spec => []TypeOK
<1>1. TypeInv => TypeOK
  BY DEF TypeInv
<1> QED  BY <1>1, TypeInit, TypeStep, PTL DEF Spec

-----------------------------------------------------------------------------
(* What a step does to the ring.                                           *)

ringVars == <<c_rd, r_rd, r_wr, desc, buf, slave, produced, consumed>>

Clears(t) ==
  /\ pc[t] = "clear"
  /\ \/ pc' = [pc EXCEPT ![t] = "index"] /\ desc' = [desc EXCEPT ![c_rd] = Cleared]
     \/ /\ pc' = [pc EXCEPT ![t] = "idle"] /\ setting.faults
        /\ desc' = [desc EXCEPT ![c_rd] = Cleared] \/ desc' = desc
  /\ UNCHANGED <<c_rd, r_rd, r_wr, buf, slave, produced, consumed, rd_idx, data>>

Consumes(t) ==
  /\ pc[t] = "index" /\ pc' = [pc EXCEPT ![t] = "idle"]
  /\ c_rd' = NextIdx(c_rd)
  /\ consumed' = Append(consumed, data[t])
  /\ r_rd' \in {r_rd, NextIdx(c_rd)}
  /\ UNCHANGED <<r_wr, desc, buf, slave, produced, rd_idx, data>>

\* A step of a thread leaves the ring alone, clears the descriptor at the read
\* index, or consumes the message there.
LEMMA ThreadEffects ==
  ASSUME Inv, NEW t \in Thread, ThreadStep(t)
  PROVE  Clears(t) \/ Consumes(t) \/ UNCHANGED ringVars
<1> USE DEF Inv, TypeInv, TypeOK, OwnerInv
<1>1. CASE ClearDescriptor(t) \/ ClearDescriptorFails(t)
  <2>1. rd_idx[t] = c_rd
    BY <1>1 DEF ClearDescriptor, ClearDescriptorFails
  <2>2. CASE ClearDescriptor(t)
    BY <2>1, <2>2 DEF ClearDescriptor, Clears, Goto
  <2>3. CASE ClearDescriptorFails(t)
    <3>1. \/ desc' = [desc EXCEPT ![c_rd] = Cleared]
          \/ desc' = [desc EXCEPT ![c_rd] = desc[c_rd]]
      BY <2>1, <2>3 DEF ClearDescriptorFails
    <3>2. [desc EXCEPT ![c_rd] = desc[c_rd]] = desc
      OBVIOUS
    <3> QED  BY <2>3, <3>1, <3>2 DEF ClearDescriptorFails, Clears, Goto, UnlockReturn
  <2> QED  BY <1>1, <2>2, <2>3
<1>2. CASE PublishRd(t) \/ PublishRdFails(t)
  <2>1. rd_idx[t] = c_rd
    BY <1>2 DEF PublishRd, PublishRdFails
  <2> QED
    BY <1>2, <2>1
    DEF PublishRd, PublishRdFails, AdvanceCachedRd, UnlockReturn, Goto, Consumes
<1> QED
  BY <1>1, <1>2
  DEF ThreadStep, ringVars, Lock, LockTimeout, ReadWr, QueryAvail, ReadFails, SemTake,
      SemTimeout, Relock, Reread, ReadDescriptor, ReadData

\* The same of any step, beside those of the slave, which leave the threads alone.
LEMMA Effects ==
  ASSUME Inv, [Next]_vars
  PROVE  \/ UNCHANGED ringVars
         \/ \E t \in Thread : Clears(t) \/ Consumes(t)
         \/ SlaveStep
BY ThreadEffects
DEF Next, Step, Call, HostInterrupt, hostVars, vars, ringVars

LEMMA LockStep == Inv /\ [Next]_vars => LockInv'
<1> SUFFICES ASSUME Inv, [Next]_vars PROVE LockInv'
  OBVIOUS
<1> USE RxAssumption DEF Inv, TypeInv, TypeOK, LockInv, Critical
<1>1. ASSUME NEW t \in Thread, Lock(t) \/ Relock(t) PROVE LockInv'
  BY <1>1 DEF Lock, Relock, Goto
<1>2. ASSUME NEW t \in Thread,
             \/ Call(t, "nowait") \/ Call(t, "timed") \/ Call(t, "forever")
             \/ Call(t, "query") \/ LockTimeout(t) \/ SemTake(t) \/ SemTimeout(t)
      PROVE  LockInv'
  BY <1>2 DEF Call, LockTimeout, SemTake, SemTimeout, Goto
<1>3. ASSUME NEW t \in Thread, pc[t] \in Critical, rx_lock' = None,
             NEW to \in {"idle", "wait"}, pc' = [pc EXCEPT ![t] = to]
      PROVE  LockInv'
  BY <1>3
<1>4. ASSUME NEW t \in Thread, pc[t] \in Critical, rx_lock' = rx_lock,
             NEW to \in Critical, pc' = [pc EXCEPT ![t] = to]
      PROVE  LockInv'
  BY <1>4
<1>5. ASSUME NEW t \in Thread,
             \/ ReadWr(t) \/ QueryAvail(t) \/ ReadFails(t) \/ Reread(t)
             \/ ReadDescriptor(t) \/ ReadData(t) \/ ClearDescriptor(t)
             \/ ClearDescriptorFails(t) \/ PublishRd(t) \/ PublishRdFails(t)
      PROVE  LockInv'
  BY <1>3, <1>4, <1>5
  DEF ReadWr, QueryAvail, ReadFails, Reread, ReadDescriptor, ReadData, ClearDescriptor,
      ClearDescriptorFails, PublishRd, PublishRdFails, UnlockReturn, Goto
<1>6. CASE UNCHANGED <<pc, rx_lock>>
  BY <1>6
<1> QED
  BY <1>1, <1>2, <1>5, <1>6
  DEF Next, Step, ThreadStep, SlaveStep, HostInterrupt, SlaveFill, SlaveDescribe,
      SlavePublish, SlaveInterruptsHost, hostVars, vars, Mode

-----------------------------------------------------------------------------
(* The order of the indices.                                               *)

LEMMA Distances ==
  ASSUME TypeOK, OrderInv
  PROVE  /\ Filled \in Slots /\ r_wr \in Slots /\ c_rd \in Slots /\ r_rd \in Slots
         /\ Len(produced) \in Nat /\ Len(consumed) \in Nat
         /\ Backlog \in 0 .. N-1 /\ Backlog = Len(produced) - Len(consumed)
         /\ RxAvail(c_rd, r_rd) \in 0 .. N-1 /\ RxAvail(Filled, r_rd) \in 0 .. N-1
         /\ RxAvail(c_rd, c_rd) = 0
<1>1. Filled \in Slots
  BY NextIdxStep DEF TypeOK, Filled
<1>2. /\ RxAvail(Filled, c_rd) \in 0 .. N-1 /\ RxAvail(c_rd, r_rd) \in 0 .. N-1
      /\ RxAvail(Filled, r_rd) \in 0 .. N-1 /\ RxAvail(c_rd, c_rd) = 0
  BY <1>1, RxAvailRange DEF TypeOK
<1> QED  BY <1>1, <1>2 DEF TypeOK, OrderInv, Backlog

\* Moving the cached read index over a message.
LEMMA ConsumeDistances ==
  ASSUME TypeOK, OrderInv, Backlog # 0
  PROVE  /\ NextIdx(c_rd) \in Slots
         /\ RxAvail(Filled, NextIdx(c_rd)) = Backlog - 1
         /\ RxAvail(NextIdx(c_rd), r_rd) = RxAvail(c_rd, r_rd) + 1
         /\ RxAvail(NextIdx(c_rd), NextIdx(c_rd)) = 0
<1>1. RxAvail(c_rd, r_rd) # N - 1
  BY Distances, RingSizeAssumption DEF OrderInv
<1>2. RxAvail(Filled, NextIdx(c_rd)) = Backlog - 1
  BY Distances, RxAvailNextRd DEF OrderInv
<1> QED  BY <1>1, <1>2, Distances, RxAvailNextWr, NextIdxStep, RxAvailRange

\* Making the descriptor at Filled valid.
LEMMA DescribeDistances ==
  ASSUME TypeOK, OrderInv, TxAvail(Filled, r_rd) # 0
  PROVE  /\ RxAvail(NextIdx(Filled), c_rd) = Backlog + 1
         /\ RxAvail(NextIdx(Filled), r_rd) = RxAvail(Filled, r_rd) + 1
         /\ Backlog < N - 1
<1>1. RxAvail(Filled, r_rd) # N - 1
  BY Distances, RxAvailRange, RingSizeAssumption
<1>2. RxAvail(Filled, c_rd) # N - 1 /\ Backlog < N - 1
  BY <1>1, Distances, RingSizeAssumption DEF OrderInv
<1> QED  BY <1>1, <1>2, Distances, RxAvailNextWr DEF OrderInv

\* What a message consumed does to the counts.
LEMMA ConsumeCounts ==
  ASSUME Inv, NEW t \in Thread, Consumes(t)
  PROVE  /\ Backlog # 0 /\ Backlog' = Backlog - 1 /\ Filled' = Filled
         /\ Len(consumed') = Len(consumed) + 1
<1> USE DEF Inv, TypeInv
<1>1. Len(consumed') = Len(consumed) + 1
  BY DEF Consumes, TypeOK
<1> QED  BY <1>1, Distances DEF Consumes, OwnerInv, Backlog, Filled

\* What a message produced does to them.
LEMMA DescribeCounts ==
  ASSUME Inv, SlaveDescribe
  PROVE  /\ Backlog' = Backlog + 1 /\ Filled = r_wr /\ Filled' = NextIdx(r_wr)
         /\ TxAvail(Filled, r_rd) # 0
         /\ Len(produced') = Len(produced) + 1
         /\ UNCHANGED <<c_rd, r_rd, r_wr, buf, consumed>>
<1> USE DEF Inv, TypeInv
<1>1. Len(produced') = Len(produced) + 1
  BY DEF SlaveDescribe, TypeOK
<1>2. UNCHANGED <<c_rd, r_rd, r_wr, buf, consumed>>
  BY DEF SlaveDescribe, hostVars
<1> QED  BY <1>1, <1>2, Distances DEF SlaveDescribe, Backlog, Filled, SlaveInv

LEMMA OrderStep == Inv /\ [Next]_vars => OrderInv'
<1> SUFFICES ASSUME Inv, [Next]_vars PROVE OrderInv'
  OBVIOUS
<1> USE DEF Inv, TypeInv
<1>1. ASSUME NEW t \in Thread, Consumes(t) PROVE OrderInv'
  <2>1. /\ c_rd' = NextIdx(c_rd)
        /\ r_rd' = r_rd \/ r_rd' = NextIdx(c_rd)
    BY <1>1 DEF Consumes
  <2> QED
    BY <1>1, <2>1, ConsumeCounts, ConsumeDistances, Distances DEF OrderInv
<1>2. CASE SlaveDescribe
  BY <1>2, DescribeCounts, DescribeDistances, Distances DEF OrderInv
<1>3. CASE SlaveFill \/ SlavePublish \/ SlaveInterruptsHost
  <2>1. Filled' = Filled /\ UNCHANGED <<c_rd, r_rd, produced, consumed>>
    BY <1>3 DEF SlaveFill, SlavePublish, SlaveInterruptsHost, hostVars, Filled
  <2> QED  BY <2>1 DEF OrderInv, Backlog
<1>4. ASSUME NEW t \in Thread, Clears(t) PROVE OrderInv'
  BY <1>4 DEF Clears, OrderInv, Backlog, Filled
<1>5. CASE UNCHANGED ringVars
  BY <1>5 DEF ringVars, OrderInv, Backlog, Filled
<1> QED  BY <1>1, <1>2, <1>3, <1>4, <1>5, Effects DEF SlaveStep

-----------------------------------------------------------------------------
(* The thread that owns the lock.                                          *)

\* A thread's step leaves the other threads alone, and the ring too while one
\* of them is in the critical section.
LEMMA OtherThreads ==
  ASSUME Inv, NEW t \in Thread, NEW u \in Thread, u # t,
         ThreadStep(t) \/ \E m \in Mode : Call(t, m)
  PROVE  /\ pc'[u] = pc[u] /\ rd_idx'[u] = rd_idx[u] /\ data'[u] = data[u]
         /\ pc[u] \in Critical => UNCHANGED ringVars
<1> USE DEF Inv, TypeInv, TypeOK
<1>1. pc'[u] = pc[u] /\ rd_idx'[u] = rd_idx[u] /\ data'[u] = data[u]
  BY DEF ThreadStep, Call, Lock, LockTimeout, ReadWr, QueryAvail, ReadFails, SemTake,
         SemTimeout, Relock, Reread, ReadDescriptor, ReadData, ClearDescriptor,
         ClearDescriptorFails, PublishRd, PublishRdFails, UnlockReturn, Goto
<1>2. ASSUME pc[u] \in Critical PROVE ~ Clears(t) /\ ~ Consumes(t)
  BY <1>2 DEF LockInv, Critical, Clears, Consumes
<1> QED  BY <1>1, <1>2, ThreadEffects DEF Call, ringVars

\* What the owner of the lock finds after a step of its own.
LEMMA OwnSteps ==
  ASSUME Inv, NEW t \in Thread, ThreadStep(t) \/ \E m \in Mode : Call(t, m)
  PROVE  /\ pc'[t] \in {"desc", "data", "clear", "index"} => rd_idx'[t] = c_rd'
         /\ pc'[t] \in {"data", "clear", "index"} => Backlog' # 0
         /\ pc'[t] \in {"clear", "index"} => data'[t] = buf'[c_rd']
         /\ pc'[t] = "index" => ~ desc'[c_rd'].valid
<1> DEFINE Goal ==
             /\ pc'[t] \in {"desc", "data", "clear", "index"} => rd_idx'[t] = c_rd'
             /\ pc'[t] \in {"data", "clear", "index"} => Backlog' # 0
             /\ pc'[t] \in {"clear", "index"} => data'[t] = buf'[c_rd']
             /\ pc'[t] = "index" => ~ desc'[c_rd'].valid
<1> USE DEF Inv, TypeInv, TypeOK, Goto, UnlockReturn
<1>1. CASE ReadWr(t) \/ Reread(t)
  BY <1>1 DEF ReadWr, Reread
<1>2. CASE ReadDescriptor(t)
  <2>1. desc[c_rd].valid => Backlog # 0
    BY Distances DEF ValidInv
  <2>2. rd_idx[t] = c_rd
    BY <1>2 DEF ReadDescriptor, OwnerInv
  <2>3. Backlog' = Backlog /\ c_rd' = c_rd /\ rd_idx' = rd_idx
    BY <1>2 DEF ReadDescriptor, Backlog
  <2>4. pc'[t] \in {"data", "idle"} /\ (pc'[t] = "data" => desc[rd_idx[t]].valid)
    BY <1>2 DEF ReadDescriptor
  <2> QED  BY <2>1, <2>2, <2>3, <2>4
<1>3. CASE ReadData(t)
  <2>1. rd_idx[t] = c_rd /\ Backlog # 0
    BY <1>3 DEF ReadData, OwnerInv
  <2>2. Backlog' = Backlog
    BY <1>3 DEF ReadData, Backlog
  <2> QED  BY <1>3, <2>1, <2>2 DEF ReadData
<1>4. CASE Clears(t)
  <2>1. rd_idx[t] = c_rd /\ Backlog # 0 /\ data[t] = buf[c_rd]
    BY <1>4 DEF Clears, OwnerInv
  <2>2. Backlog' = Backlog
    BY <1>4 DEF Clears, Backlog
  <2>3. pc'[t] = "index" => ~ desc'[c_rd].valid
    BY <1>4 DEF Clears, Cleared
  <2> QED  BY <1>4, <2>1, <2>2, <2>3 DEF Clears
<1>5. CASE pc'[t] \notin {"desc", "data", "clear", "index"}
  BY <1>5
<1>6. ASSUME ClearDescriptor(t) PROVE Clears(t)
  <2>1. pc[t] = "clear" /\ pc'[t] = "index" /\ desc' = [desc EXCEPT ![rd_idx[t]] = Cleared]
    BY <1>6 DEF ClearDescriptor
  <2>2. rd_idx[t] = c_rd
    BY <2>1 DEF OwnerInv
  <2> QED  BY <1>6, <2>1, <2>2 DEF ClearDescriptor, Clears
<1>7. ClearDescriptorFails(t) => pc'[t] = "idle"
  BY DEF ClearDescriptorFails
<1> QED
  BY <1>1, <1>2, <1>3, <1>4, <1>5, <1>6, <1>7
  DEF ThreadStep, Call, Lock, LockTimeout, QueryAvail, ReadFails, SemTake, SemTimeout,
      Relock, PublishRd, PublishRdFails

\* The slave never writes where the owner of the lock reads.
LEMMA SlaveApart ==
  ASSUME Inv, SlaveStep
  PROVE  /\ UNCHANGED <<pc, rd_idx, data, c_rd, consumed>>
         /\ Backlog # 0 => Backlog' # 0 /\ buf'[c_rd] = buf[c_rd] /\ desc'[c_rd] = desc[c_rd]
<1> USE DEF Inv, TypeInv
<1>1. UNCHANGED <<pc, rd_idx, data, c_rd, consumed>>
  BY DEF SlaveStep, SlaveFill, SlaveDescribe, SlavePublish, SlaveInterruptsHost, hostVars
<1>2. CASE SlaveFill
  <2>1. Backlog # 0 => r_wr # c_rd
    BY <1>2, Distances DEF SlaveFill, Filled, OrderInv
  <2>2. buf'[c_rd] = buf[c_rd] \/ r_wr = c_rd
    BY <1>2 DEF SlaveFill, TypeOK
  <2> QED  BY <1>1, <1>2, <2>1, <2>2 DEF SlaveFill, Backlog
<1>3. CASE SlaveDescribe
  <2>1. Backlog # 0 => r_wr # c_rd
    BY <1>3, Distances DEF SlaveDescribe, Filled, OrderInv
  <2>2. desc'[c_rd] = desc[c_rd] \/ r_wr = c_rd
    BY <1>3 DEF SlaveDescribe, TypeOK
  <2> QED  BY <1>1, <1>3, <2>1, <2>2, DescribeCounts, Distances
<1>4. CASE SlavePublish \/ SlaveInterruptsHost
  BY <1>1, <1>4 DEF SlavePublish, SlaveInterruptsHost, Backlog
<1> QED  BY <1>1, <1>2, <1>3, <1>4 DEF SlaveStep

LEMMA OwnerStep == Inv /\ [Next]_vars => OwnerInv'
<1> SUFFICES ASSUME Inv, [Next]_vars, NEW u \in Thread
    PROVE  /\ pc'[u] \in {"desc", "data", "clear", "index"} => rd_idx'[u] = c_rd'
           /\ pc'[u] \in {"data", "clear", "index"} => Backlog' # 0
           /\ pc'[u] \in {"clear", "index"} => data'[u] = buf'[c_rd']
           /\ pc'[u] = "index" => ~ desc'[c_rd'].valid
  BY DEF OwnerInv
<1> USE DEF Inv, TypeInv
<1>1. ASSUME NEW t \in Thread, ThreadStep(t) \/ \E m \in Mode : Call(t, m), u # t
      PROVE  pc[u] \in Critical => /\ pc'[u] = pc[u] /\ rd_idx'[u] = rd_idx[u]
                                   /\ data'[u] = data[u] /\ Backlog' = Backlog
                                   /\ UNCHANGED <<c_rd, buf, desc>>
  BY <1>1, OtherThreads DEF ringVars, Backlog
<1>2. ASSUME NEW t \in Thread, ThreadStep(t) \/ \E m \in Mode : Call(t, m), u # t
      PROVE  pc'[u] = pc[u]
  BY <1>2, OtherThreads
<1>3. ASSUME NEW t \in Thread, ThreadStep(t) \/ \E m \in Mode : Call(t, m), u = t
      PROVE  /\ pc'[u] \in {"desc", "data", "clear", "index"} => rd_idx'[u] = c_rd'
             /\ pc'[u] \in {"data", "clear", "index"} => Backlog' # 0
             /\ pc'[u] \in {"clear", "index"} => data'[u] = buf'[c_rd']
             /\ pc'[u] = "index" => ~ desc'[c_rd'].valid
  BY <1>3, OwnSteps
<1>4. CASE SlaveStep
  BY <1>4, SlaveApart DEF OwnerInv
<1>5. CASE HostInterrupt \/ UNCHANGED vars
  BY <1>5 DEF HostInterrupt, hostVars, vars, OwnerInv, Backlog
<1> QED
  BY <1>1, <1>2, <1>3, <1>4, <1>5 DEF Next, Step, OwnerInv, Critical

-----------------------------------------------------------------------------
(* The slave and the messages.                                             *)

LEMMA SlaveInvStep == Inv /\ [Next]_vars => SlaveInv'
<1> SUFFICES ASSUME Inv, [Next]_vars PROVE SlaveInv'
  OBVIOUS
<1> USE DEF Inv, TypeInv, SlaveInv
<1>1. ASSUME NEW t \in Thread, Consumes(t) PROVE SlaveInv'
  <2>1. /\ r_rd' = r_rd \/ r_rd' = NextIdx(c_rd)
        /\ UNCHANGED <<produced, slave, buf, r_wr>>
    BY <1>1 DEF Consumes
  <2>2. ASSUME slave = "desc", r_rd' = NextIdx(c_rd) PROVE TxAvail(r_wr, r_rd') # 0
    <3>1. Filled = r_wr /\ Backlog # 0
      BY <1>1, <2>2 DEF Filled, Consumes, OwnerInv
    <3>2. RxAvail(r_wr, NextIdx(c_rd)) = Backlog - 1 /\ NextIdx(c_rd) \in Slots
      BY <3>1, ConsumeDistances
    <3> QED  BY <2>2, <3>1, <3>2, Distances, RxAvailRange, RingSizeAssumption
  <2> QED  BY <2>1, <2>2
<1>2. CASE SlaveFill
  BY <1>2 DEF SlaveFill, TypeOK, hostVars
<1>3. CASE SlaveDescribe
  <2>1. produced' = Append(produced, Len(produced) + 1) /\ slave' = "index"
    BY <1>3 DEF SlaveDescribe
  <2>2. /\ Len(produced) \in Nat /\ Len(produced') = Len(produced) + 1
        /\ \A k \in 1 .. Len(produced) : produced'[k] = produced[k]
        /\ produced'[Len(produced) + 1] = Len(produced) + 1
    BY <2>1 DEF TypeOK
  <2> QED  BY <2>1, <2>2
<1>4. CASE SlavePublish \/ SlaveInterruptsHost
  BY <1>4 DEF SlavePublish, SlaveInterruptsHost
<1>5. ASSUME NEW t \in Thread, Clears(t) PROVE SlaveInv'
  BY <1>5 DEF Clears
<1>6. CASE UNCHANGED ringVars
  BY <1>6 DEF ringVars
<1> QED  BY <1>1, <1>2, <1>3, <1>4, <1>5, <1>6, Effects DEF SlaveStep

\* The slots of the backlog after a message left it are those of before without
\* the one at the read index.
LEMMA ConsumeSlots ==
  ASSUME Inv, NEW t \in Thread, Consumes(t), NEW i \in Slots,
         RxAvail(i, c_rd') < Backlog'
  PROVE  /\ i # c_rd /\ RxAvail(i, c_rd) < Backlog
         /\ RxAvail(i, c_rd') = RxAvail(i, c_rd) - 1
<1> USE DEF Inv, TypeInv
<1>1. c_rd' = NextIdx(c_rd) /\ Backlog' = Backlog - 1
  BY ConsumeCounts DEF Consumes
<1>2. RxAvail(i, NextIdx(c_rd)) < Backlog - 1
  BY <1>1
<1>3. c_rd \in Slots /\ Backlog \in 0 .. N-1
  BY Distances
<1>4. i # c_rd
  <2>1. RxAvail(c_rd, NextIdx(c_rd)) = N - 1
    BY <1>3, RxAvailBehind
  <2> QED  BY <1>2, <1>3, <2>1, RingSizeAssumption
<1>5. RxAvail(i, c_rd) \in 0 .. N-1 /\ RxAvail(i, c_rd) # 0
  BY <1>3, <1>4, RxAvailRange
<1>6. RxAvail(i, NextIdx(c_rd)) = RxAvail(i, c_rd) - 1
  BY <1>3, <1>5, RxAvailNextRd
<1>7. RxAvail(i, c_rd) < Backlog
  BY <1>2, <1>3, <1>5, <1>6, RingSizeAssumption
<1> QED  BY <1>1, <1>4, <1>6, <1>7

\* The slots of the backlog after a message entered it are those of before and
\* the one at the write index.
LEMMA DescribeSlots ==
  ASSUME Inv, SlaveDescribe, NEW i \in Slots
  PROVE  /\ RxAvail(i, c_rd) < Backlog + 1 => RxAvail(i, c_rd) < Backlog \/ i = r_wr
         /\ RxAvail(r_wr, c_rd) = Backlog
<1> USE DEF Inv, TypeInv
<1>1. RxAvail(r_wr, c_rd) = Backlog
  BY DescribeCounts DEF OrderInv
<1>2. RxAvail(i, c_rd) \in 0 .. N-1
  BY Distances, RxAvailRange
<1>3. RxAvail(i, c_rd) = Backlog => i = r_wr
  BY <1>1, Distances, RxAvailInjective
<1> QED  BY <1>1, <1>2, <1>3, Distances, RingSizeAssumption

LEMMA IntactStep == Inv /\ [Next]_vars => BacklogIntact'
<1> SUFFICES ASSUME Inv, [Next]_vars PROVE BacklogIntact'
  OBVIOUS
<1> USE DEF Inv, TypeInv
<1>1. ASSUME NEW t \in Thread, Consumes(t), NEW i \in Slots, RxAvail(i, c_rd') < Backlog'
      PROVE  buf'[i] = produced'[Len(consumed') + RxAvail(i, c_rd') + 1]
  <2>1. buf[i] = produced[Len(consumed) + RxAvail(i, c_rd) + 1]
    BY <1>1, ConsumeSlots DEF BacklogIntact
  <2>2. RxAvail(i, c_rd) \in Nat
    BY Distances, RxAvailRange
  <2>3. Len(consumed') + RxAvail(i, c_rd') + 1 = Len(consumed) + RxAvail(i, c_rd) + 1
    BY <1>1, <2>2, ConsumeSlots, ConsumeCounts, Distances
  <2>4. UNCHANGED <<buf, produced>>
    BY <1>1 DEF Consumes
  <2> QED  BY <2>1, <2>3, <2>4
<1>2. ASSUME SlaveFill, NEW i \in Slots, RxAvail(i, c_rd') < Backlog'
      PROVE  buf'[i] = produced'[Len(consumed') + RxAvail(i, c_rd') + 1]
  <2>1. UNCHANGED <<c_rd, produced, consumed>> /\ slave = "idle"
        /\ buf' = [buf EXCEPT ![r_wr] = Len(produced) + 1]
    BY <1>2 DEF SlaveFill, hostVars
  <2>2. RxAvail(i, c_rd) < Backlog
    BY <1>2, <2>1 DEF Backlog
  <2>3. RxAvail(r_wr, c_rd) = Backlog
    BY <2>1 DEF Filled, OrderInv
  <2>4. i # r_wr
    BY <2>2, <2>3, Distances
  <2> QED  BY <2>1, <2>2, <2>4 DEF BacklogIntact, TypeOK
<1>3. ASSUME SlaveDescribe, NEW i \in Slots, RxAvail(i, c_rd') < Backlog'
      PROVE  buf'[i] = produced'[Len(consumed') + RxAvail(i, c_rd') + 1]
  <2> DEFINE k == Len(consumed) + RxAvail(i, c_rd) + 1
  <2>1. /\ produced' = Append(produced, Len(produced) + 1)
        /\ UNCHANGED <<c_rd, buf, consumed>> /\ Backlog' = Backlog + 1
        /\ buf[r_wr] = Len(produced) + 1
    BY <1>3, DescribeCounts DEF SlaveDescribe, SlaveInv
  <2>2. RxAvail(i, c_rd) < Backlog \/ i = r_wr
    BY <1>3, <2>1, DescribeSlots
  <2>3. RxAvail(i, c_rd) \in Nat /\ Len(consumed) \in Nat /\ Len(produced) \in Nat
        /\ Backlog = Len(produced) - Len(consumed)
    BY Distances, RxAvailRange
  <2>4. CASE RxAvail(i, c_rd) < Backlog
    <3>1. buf[i] = produced[k] /\ k \in 1 .. Len(produced)
      BY <2>3, <2>4 DEF BacklogIntact
    <3>2. produced'[k] = produced[k]
      BY <2>1, <3>1 DEF TypeOK
    <3> QED  BY <2>1, <3>1, <3>2
  <2>5. CASE i = r_wr
    <3>1. k = Len(produced) + 1
      BY <1>3, <2>3, <2>5, DescribeSlots
    <3>2. produced'[Len(produced) + 1] = Len(produced) + 1
      BY <2>1 DEF TypeOK
    <3> QED  BY <2>1, <2>5, <3>1, <3>2
  <2> QED  BY <2>2, <2>4, <2>5
<1>4. CASE UNCHANGED <<c_rd, buf, produced, consumed>>
  BY <1>4 DEF BacklogIntact, Backlog
<1>5. SlavePublish \/ SlaveInterruptsHost => UNCHANGED <<c_rd, buf, produced, consumed>>
  BY DEF SlavePublish, SlaveInterruptsHost, hostVars
<1>6. ASSUME NEW t \in Thread, Clears(t) PROVE UNCHANGED <<c_rd, buf, produced, consumed>>
  BY <1>6 DEF Clears
<1>7. UNCHANGED ringVars => UNCHANGED <<c_rd, buf, produced, consumed>>
  BY DEF ringVars
<1>8. CASE \A i \in Slots : RxAvail(i, c_rd') < Backlog' =>
        buf'[i] = produced'[Len(consumed') + RxAvail(i, c_rd') + 1]
  BY <1>8 DEF BacklogIntact
<1> QED
  BY <1>1, <1>2, <1>3, <1>4, <1>5, <1>6, <1>7, <1>8, Effects DEF SlaveStep

LEMMA ValidStep == Inv /\ [Next]_vars => ValidInv'
<1> SUFFICES ASSUME Inv, [Next]_vars, NEW i \in Slots, desc'[i].valid
    PROVE RxAvail(i, c_rd') < Backlog'
  BY DEF ValidInv
<1> USE DEF Inv, TypeInv
<1>1. ASSUME NEW t \in Thread, Consumes(t) PROVE RxAvail(i, c_rd') < Backlog'
  <2>1. desc' = desc /\ c_rd' = NextIdx(c_rd) /\ Backlog' = Backlog - 1
    BY <1>1, ConsumeCounts DEF Consumes
  <2>2. ~ desc[c_rd].valid
    BY <1>1 DEF Consumes, OwnerInv
  <2>3. i # c_rd /\ RxAvail(i, c_rd) < Backlog
    BY <2>1, <2>2 DEF ValidInv
  <2>4. c_rd \in Slots /\ Backlog \in Int
    BY Distances
  <2>5. RxAvail(i, c_rd) \in Nat /\ RxAvail(i, c_rd) # 0
    BY <2>3, <2>4, RxAvailRange
  <2>6. RxAvail(i, NextIdx(c_rd)) = RxAvail(i, c_rd) - 1
    BY <2>4, <2>5, RxAvailNextRd
  <2>7. RxAvail(i, c_rd') = RxAvail(i, NextIdx(c_rd))
    BY <2>1
  <2> QED  BY <2>1, <2>3, <2>4, <2>5, <2>6, <2>7
<1>2. CASE SlaveDescribe
  <2>1. desc'[i] = desc[i] \/ i = r_wr
    BY <1>2 DEF SlaveDescribe, TypeOK
  <2>2. c_rd' = c_rd /\ Backlog' = Backlog + 1 /\ Backlog \in Int
    BY <1>2, DescribeCounts, Distances
  <2>3. CASE desc'[i] = desc[i]
    <3>1. RxAvail(i, c_rd) < Backlog
      BY <2>3 DEF ValidInv
    <3>2. RxAvail(i, c_rd) \in Nat
      BY Distances, RxAvailRange
    <3>3. RxAvail(i, c_rd) < Backlog + 1
      BY <2>2, <3>1, <3>2
    <3> QED  BY <2>2, <3>3
  <2>4. CASE i = r_wr
    BY <1>2, <2>2, <2>4, DescribeSlots
  <2> QED  BY <2>1, <2>3, <2>4
<1>3. ASSUME NEW t \in Thread, Clears(t) PROVE RxAvail(i, c_rd') < Backlog'
  <2>1. desc' = desc => desc[i].valid
    OBVIOUS
  <2>2. ASSUME desc' = [desc EXCEPT ![c_rd] = Cleared] PROVE desc[i].valid
    <3>1. i # c_rd => desc'[i] = desc[i]
      BY <2>2 DEF TypeOK
    <3>2. i = c_rd => ~ desc'[i].valid
      BY <2>2 DEF TypeOK, Cleared
    <3> QED  BY <3>1, <3>2
  <2>3. desc[i].valid
    BY <1>3, <2>1, <2>2 DEF Clears
  <2> QED  BY <1>3, <2>3 DEF Clears, ValidInv, Backlog
<1>4. CASE UNCHANGED <<c_rd, desc, produced, consumed>>
  BY <1>4 DEF ValidInv, Backlog
<1>5. SlaveFill \/ SlavePublish \/ SlaveInterruptsHost =>
        UNCHANGED <<c_rd, desc, produced, consumed>>
  BY DEF SlaveFill, SlavePublish, SlaveInterruptsHost, hostVars
<1>6. UNCHANGED ringVars => UNCHANGED <<c_rd, desc, produced, consumed>>
  BY DEF ringVars
<1> QED  BY <1>1, <1>2, <1>3, <1>4, <1>5, <1>6, Effects DEF SlaveStep

-----------------------------------------------------------------------------
(* The invariant holds.                                                    *)

LEMMA InvInit == Init => Inv
<1> SUFFICES ASSUME Init PROVE Inv
  OBVIOUS
<1>1. TypeInv /\ TypeOK
  BY TypeInit DEF TypeInv
<1>2. Filled = r_wr /\ c_rd = r_wr /\ r_rd = r_wr /\ Backlog = 0
  BY DEF Init, Filled, Backlog
<1>3. \A i \in Slots : RxAvail(i, c_rd) \in 0 .. N-1
  BY <1>1, RxAvailRange DEF TypeOK
<1>4. RxAvail(r_wr, r_wr) = 0
  BY <1>1, RxAvailRange DEF TypeOK
<1>5. LockInv
  BY RxAssumption DEF Init, LockInv, Critical
<1>6. OrderInv
  BY <1>2, <1>4 DEF OrderInv
<1>7. OwnerInv
  BY DEF Init, OwnerInv
<1>8. SlaveInv
  BY DEF Init, SlaveInv
<1>9. BacklogIntact
  BY <1>2, <1>3, RingSizeAssumption DEF BacklogIntact
<1>10. ValidInv
  BY DEF Init, ValidInv, Cleared
<1> QED  BY <1>1, <1>5, <1>6, <1>7, <1>8, <1>9, <1>10 DEF Inv

LEMMA InvStep == Inv /\ [Next]_vars => Inv'
BY TypeStep, LockStep, OwnerStep, OrderStep, SlaveInvStep, IntactStep, ValidStep DEF Inv

\* The slave never overwrites a message the host has not consumed, however the
\* threads call, whichever transfers fail, and although its copy of the read
\* index may be out of date.
THEOREM BacklogIntactHolds == Spec => []BacklogIntact
<1>1. Inv => BacklogIntact
  BY DEF Inv
<1> QED  BY <1>1, InvInit, InvStep, PTL DEF Spec

-----------------------------------------------------------------------------
(* The ring implements the channel.                                        *)

LEMMA ChannelStep ==
  ASSUME Inv, [Next]_vars
  PROVE  [Channel!ChannelNext]_(Channel!channelVars)
<1> USE DEF Inv, TypeInv
<1>1. ASSUME NEW t \in Thread, Consumes(t) PROVE Channel!ChannelNext
  <2>1. Backlog # 0 /\ Backlog \in 0 .. N-1 /\ Backlog = Len(produced) - Len(consumed)
        /\ Len(produced) \in Nat /\ Len(consumed) \in Nat /\ c_rd \in Slots
        /\ RxAvail(c_rd, c_rd) = 0
    BY <1>1, ConsumeCounts, Distances
  <2>2. data[t] = buf[c_rd]
    BY <1>1 DEF Consumes, OwnerInv
  <2>3. buf[c_rd] = produced[Len(consumed) + 0 + 1]
    BY <2>1, RingSizeAssumption DEF BacklogIntact
  <2>4. consumed' = Append(consumed, produced[Len(consumed) + 1])
    BY <1>1, <2>1, <2>2, <2>3 DEF Consumes
  <2>5. Len(consumed) < Len(produced) /\ produced' = produced
    BY <1>1, <2>1, RingSizeAssumption DEF Consumes
  <2> QED  BY <2>4, <2>5 DEF Channel!ChannelNext, Channel!Receive
<1>2. CASE SlaveDescribe
  <2> DEFINE m == Len(produced) + 1
  <2>1. m \in Msg
    BY <1>2, RxAssumption DEF SlaveDescribe, Msg, TypeOK
  <2>2. Len(produced) - Len(consumed) < N - 1
    BY <1>2, DescribeCounts, DescribeDistances, Distances
  <2>3. \A k \in 1 .. Len(produced) : produced[k] # m
    BY Distances DEF SlaveInv
  <2>4. produced' = Append(produced, m) /\ consumed' = consumed
    BY <1>2, DescribeCounts DEF SlaveDescribe
  <2> QED
    BY <2>1, <2>2, <2>3, <2>4 DEF Channel!ChannelNext, Channel!Accept
<1>3. CASE UNCHANGED <<produced, consumed>>
  BY <1>3 DEF Channel!channelVars
<1>4. SlaveFill \/ SlavePublish \/ SlaveInterruptsHost => UNCHANGED <<produced, consumed>>
  BY DEF SlaveFill, SlavePublish, SlaveInterruptsHost, hostVars
<1>5. ASSUME NEW t \in Thread, Clears(t) PROVE UNCHANGED <<produced, consumed>>
  BY <1>5 DEF Clears
<1>6. UNCHANGED ringVars => UNCHANGED <<produced, consumed>>
  BY DEF ringVars
<1> QED  BY <1>1, <1>2, <1>3, <1>4, <1>5, <1>6, Effects DEF SlaveStep

\* The receive direction of the ring, with every thread, the read index cached
\* and published late and transfers that fail, implements the same bounded FIFO
\* channel as the transmit direction, from valid descriptors to moved index.
THEOREM ReceiveImplementsChannel == Spec => ImplementsChannel
<1>1. Init => Channel!ChannelInit
  BY DEF Init, Channel!ChannelInit
<1>2. Inv /\ [Next]_vars => [Channel!ChannelNext]_(Channel!channelVars)
  BY ChannelStep
<1> QED
  BY <1>1, <1>2, InvInit, InvStep, PTL DEF Spec, ImplementsChannel, Channel!ChannelSpec

-----------------------------------------------------------------------------
(* No message is stuck.                                                    *)

\* A thread that has cleared a descriptor moves the index past it next.
LEMMA IndexStays ==
  ASSUME Inv, [Next]_vars, NEW u \in Thread, pc[u] = "index"
  PROVE  Consumes(u) \/ (pc'[u] = "index" /\ rd_idx'[u] = rd_idx[u])
<1> USE DEF Inv, TypeInv
<1>1. ASSUME NEW t \in Thread, ThreadStep(t) \/ \E m \in Mode : Call(t, m), t # u
      PROVE  pc'[u] = "index" /\ rd_idx'[u] = rd_idx[u]
  BY <1>1, OtherThreads
<1>2. CASE \E m \in Mode : Call(u, m)
  BY <1>2 DEF Call
<1>3. CASE ThreadStep(u)
  <2>1. PublishRd(u) \/ PublishRdFails(u)
    BY <1>3
    DEF ThreadStep, Lock, LockTimeout, ReadWr, QueryAvail, ReadFails, SemTake,
        SemTimeout, Relock, Reread, ReadDescriptor, ReadData, ClearDescriptor,
        ClearDescriptorFails
  <2>2. rd_idx[u] = c_rd
    BY DEF OwnerInv
  <2> QED
    BY <2>1, <2>2
    DEF PublishRd, PublishRdFails, AdvanceCachedRd, UnlockReturn, Goto, Consumes
<1>4. CASE SlaveStep
  BY <1>4, SlaveApart
<1>5. CASE HostInterrupt \/ UNCHANGED vars
  BY <1>5 DEF HostInterrupt, hostVars, vars
<1> QED  BY <1>1, <1>2, <1>3, <1>4, <1>5 DEF Next, Step

LEMMA NotWedgedStep == Inv /\ NotWedged /\ [Next]_vars => NotWedged'
<1> SUFFICES ASSUME Inv, NotWedged, [Next]_vars, ~ setting.faults', NEW i \in Slots,
                    RxAvail(i, c_rd') < Backlog'
    PROVE desc'[i].valid \/ \E u \in Thread : pc'[u] = "index" /\ rd_idx'[u] = i
  BY DEF NotWedged
<1> USE DEF Inv, TypeInv
<1>0. ~ setting.faults
  BY DEF Next, vars
<1>1. ASSUME RxAvail(i, c_rd) < Backlog, \A t \in Thread : ~ Consumes(t),
             desc[i].valid => desc'[i].valid
      PROVE  desc'[i].valid \/ \E u \in Thread : pc'[u] = "index" /\ rd_idx'[u] = i
  BY <1>0, <1>1, IndexStays DEF NotWedged
<1>2. ASSUME NEW t \in Thread, Consumes(t) PROVE desc'[i].valid
  <2>1. i # c_rd /\ RxAvail(i, c_rd) < Backlog /\ desc' = desc
    BY <1>2, ConsumeSlots DEF Consumes
  <2> QED  BY <1>0, <2>1 DEF NotWedged, OwnerInv
<1>3. ASSUME NEW t \in Thread, Clears(t)
      PROVE  desc'[i].valid \/ \E u \in Thread : pc'[u] = "index" /\ rd_idx'[u] = i
  <2>1. pc' = [pc EXCEPT ![t] = "index"] /\ desc' = [desc EXCEPT ![c_rd] = Cleared]
    BY <1>0, <1>3 DEF Clears
  <2>2. rd_idx'[t] = c_rd /\ pc'[t] = "index"
    BY <1>3, <2>1 DEF Clears, OwnerInv, TypeOK
  <2>3. RxAvail(i, c_rd) < Backlog
    BY <1>3 DEF Clears, Backlog
  <2>4. i # c_rd => desc'[i] = desc[i]
    BY <2>1 DEF TypeOK
  <2>5. i # c_rd => desc[i].valid
    BY <1>0, <2>3 DEF NotWedged, OwnerInv
  <2> QED  BY <2>2, <2>4, <2>5
<1>4. CASE SlaveDescribe
  <2>1. desc'[i] = desc[i] \/ desc'[i].valid
    BY <1>4 DEF SlaveDescribe, TypeOK
  <2>2. i = r_wr => desc'[i].valid
    BY <1>4 DEF SlaveDescribe, TypeOK
  <2>3. RxAvail(i, c_rd) < Backlog \/ i = r_wr
    BY <1>4, DescribeCounts, DescribeSlots
  <2>4. \A t \in Thread : ~ Consumes(t)
    BY <1>4, DescribeCounts, ConsumeCounts, Distances
  <2> QED  BY <1>1, <2>1, <2>2, <2>3, <2>4
<1>5. CASE UNCHANGED <<c_rd, desc, produced, consumed>>
  <2>1. RxAvail(i, c_rd) < Backlog
    BY <1>5 DEF Backlog
  <2> QED  BY <1>1, <1>2, <1>5, <2>1
<1>6. SlaveFill \/ SlavePublish \/ SlaveInterruptsHost =>
        UNCHANGED <<c_rd, desc, produced, consumed>>
  BY DEF SlaveFill, SlavePublish, SlaveInterruptsHost, hostVars
<1>7. UNCHANGED ringVars => UNCHANGED <<c_rd, desc, produced, consumed>>
  BY DEF ringVars
<1> QED  BY <1>2, <1>3, <1>4, <1>5, <1>6, <1>7, Effects DEF SlaveStep

\* While the link works, no message waits behind a descriptor the host cleared
\* without going on to move its read index.
THEOREM NotWedgedHolds == Spec => []NotWedged
<1>1. Init => NotWedged
  <2> SUFFICES ASSUME Init PROVE \A i \in Slots : ~ (RxAvail(i, c_rd) < Backlog)
    BY DEF NotWedged
  <2>1. Backlog = 0 /\ c_rd \in Slots
    BY RxAssumption DEF Init, Backlog
  <2> QED  BY <2>1, RxAvailRange, RingSizeAssumption
<1> QED  BY <1>1, InvInit, InvStep, NotWedgedStep, PTL DEF Spec

-----------------------------------------------------------------------------
(* Callers that do not wait, as those of the applications.                 *)

Receiving == {"desc", "data", "clear", "index"}

\* Nobody reads a descriptor beyond the published write index, so the message
\* the slave has described and not yet published is still in the ring.
PollInv ==
  /\ \A t \in Thread : pc[t] \notin {"wait", "relock", "reread"}
  /\ \A t \in Thread : pc[t] = "read_wr" => mode[t] = "nowait"
  /\ \A t \in Thread : pc[t] \in Receiving => RxAvail(r_wr, c_rd) # 0
  /\ slave = "index" => Backlog # 0
  /\ AvailIsTrue

\* What the published write index shows of the backlog.
LEMMA Published ==
  ASSUME Inv, PollInv
  PROVE  /\ RxAvail(r_wr, c_rd) = IF slave = "index" THEN Backlog - 1 ELSE Backlog
         /\ Backlog \in 0 .. N-1
<1> USE DEF Inv, TypeInv
<1>1. Backlog \in 0 .. N-1 /\ r_wr \in Slots /\ c_rd \in Slots
      /\ RxAvail(c_rd, c_rd) = 0
  BY Distances
<1>2. RxAvail(r_wr, c_rd) \in 0 .. N-1
  BY <1>1, RxAvailRange
<1>3. CASE slave = "index"
  <2>1. RxAvail(NextIdx(r_wr), c_rd) = Backlog /\ Backlog # 0
    BY <1>3 DEF OrderInv, Filled, PollInv
  <2>2. RxAvail(r_wr, c_rd) # N - 1
    BY <1>1, <2>1, RxAvailFarthest
  <2>3. RxAvail(NextIdx(r_wr), c_rd) = RxAvail(r_wr, c_rd) + 1
    BY <1>1, <2>2, RxAvailNextWr
  <2> QED  BY <1>1, <1>2, <1>3, <2>1, <2>3
<1>4. CASE slave # "index"
  BY <1>1, <1>4 DEF OrderInv, Filled
<1> QED  BY <1>1, <1>3, <1>4

\* The labels a thread may reach when it does not wait.
LEMMA PollLabels ==
  ASSUME Inv, Polled, PollInv, NEW t \in Thread,
         ThreadStep(t) \/ \E m \in Mode : Call(t, m)
  PROVE  /\ pc'[t] \notin {"wait", "relock", "reread"}
         /\ pc'[t] = "read_wr" => mode'[t] = "nowait"
         /\ pc'[t] \in Receiving =>
              /\ UNCHANGED <<r_wr, c_rd>>
              /\ pc[t] \in Receiving \/ RxAvail(r_wr, c_rd) # 0
<1> USE DEF Inv, TypeInv, TypeOK, Goto, UnlockReturn
<1>0. setting.modes[t] \cap {"timed", "forever"} = {} /\ setting.modes[t] \subseteq Mode
  BY RxAssumption DEF Polled, Blocking, Setting
<1>1. pc[t] # "idle" => mode[t] \in {"nowait", "query"}
  BY <1>0 DEF Mode
<1>2. CASE ReadWr(t)
  BY <1>2 DEF ReadWr, PollInv, Receiving
<1>3. CASE Lock(t)
  BY <1>1, <1>3 DEF Lock, Receiving
<1>4. CASE SemTake(t) \/ Relock(t) \/ Reread(t)
  BY <1>4 DEF SemTake, Relock, Reread, PollInv
<1>5. CASE ReadDescriptor(t) \/ ReadData(t) \/ ClearDescriptor(t)
  BY <1>5 DEF ReadDescriptor, ReadData, ClearDescriptor, Receiving
<1>6. CASE pc'[t] \in {"idle", "lock"}
  BY <1>6 DEF Receiving
<1> QED
  BY <1>2, <1>3, <1>4, <1>5, <1>6
  DEF ThreadStep, Call, LockTimeout, QueryAvail, ReadFails, SemTimeout,
      ClearDescriptorFails, PublishRd, PublishRdFails

LEMMA PollThread ==
  ASSUME Inv, Polled, PollInv, NEW t \in Thread,
         ThreadStep(t) \/ \E m \in Mode : Call(t, m), UNCHANGED setting
  PROVE  PollInv'
<1> USE DEF Inv, TypeInv
<1>1. ASSUME NEW u \in Thread, u # t
      PROVE  /\ pc'[u] = pc[u] /\ mode'[u] = mode[u]
             /\ pc[u] \in Receiving => UNCHANGED <<r_wr, c_rd>>
  <2>1. mode' = mode \/ \E m \in Mode : mode' = [mode EXCEPT ![t] = m]
    BY DEF ThreadStep, Call, Lock, LockTimeout, ReadWr, QueryAvail, ReadFails, SemTake,
           SemTimeout, Relock, Reread, ReadDescriptor, ReadData, ClearDescriptor,
           ClearDescriptorFails, PublishRd, PublishRdFails
  <2>2. mode'[u] = mode[u]
    BY <1>1, <2>1 DEF TypeOK
  <2> QED  BY <1>1, <2>2, OtherThreads DEF Receiving, Critical, ringVars
<1>2. slave' = "index" => Backlog' # 0
  <2>1. CASE Consumes(t)
    <3>1. RxAvail(r_wr, c_rd) # 0 /\ slave' = slave
      BY <2>1 DEF Consumes, PollInv, Receiving
    <3> QED  BY <2>1, <3>1, ConsumeCounts, Published, RingSizeAssumption
  <2>2. CASE Clears(t) \/ UNCHANGED ringVars
    BY <2>2 DEF Clears, ringVars, PollInv, Backlog
  <2>3. (\E m \in Mode : Call(t, m)) => UNCHANGED ringVars
    BY DEF Call, ringVars
  <2> QED  BY <2>1, <2>2, <2>3, ThreadEffects
<1>3. AvailIsTrue'
  <2>1. CASE QueryAvail(t)
    <3>1. reported' = [value |-> RxAvail(r_wr, c_rd), backlog |-> Backlog]
      BY <2>1 DEF QueryAvail
    <3> QED  BY <3>1, Published, RingSizeAssumption DEF AvailIsTrue
  <2>2. CASE reported' = reported
    BY <2>2 DEF PollInv, AvailIsTrue
  <2> QED
    BY <2>1, <2>2
    DEF ThreadStep, Call, Lock, LockTimeout, ReadWr, ReadFails, SemTake, SemTimeout,
        Relock, Reread, ReadDescriptor, ReadData, ClearDescriptor, ClearDescriptorFails,
        PublishRd, PublishRdFails
<1>4. ASSUME NEW u \in Thread
      PROVE  /\ pc'[u] \notin {"wait", "relock", "reread"}
             /\ pc'[u] = "read_wr" => mode'[u] = "nowait"
             /\ pc'[u] \in Receiving => RxAvail(r_wr', c_rd') # 0
  <2>1. CASE u = t
    BY <2>1, PollLabels DEF PollInv
  <2>2. CASE u # t
    BY <1>1, <2>2 DEF PollInv
  <2> QED  BY <2>1, <2>2
<1> QED  BY <1>2, <1>3, <1>4 DEF PollInv

LEMMA PollStep == Inv /\ (Polled => PollInv) /\ [Next]_vars => (Polled => PollInv)'
<1> SUFFICES ASSUME Inv, Polled => PollInv, [Next]_vars, Polled' PROVE PollInv'
  OBVIOUS
<1> USE DEF Inv, TypeInv
<1>0. UNCHANGED setting /\ Polled /\ PollInv
  BY DEF Next, vars, Polled, Blocking
<1>1. ASSUME NEW t \in Thread, ThreadStep(t) \/ \E m \in Mode : Call(t, m) PROVE PollInv'
  BY <1>0, <1>1, PollThread
<1>2. CASE SlaveDescribe
  <2>1. UNCHANGED <<pc, mode, r_wr, c_rd, reported>>
    BY <1>2 DEF SlaveDescribe, hostVars
  <2>2. Backlog' # 0
    BY <1>2, DescribeCounts, Distances
  <2> QED  BY <1>0, <2>1, <2>2 DEF PollInv, AvailIsTrue
<1>3. CASE SlavePublish
  <2>1. /\ UNCHANGED <<pc, mode, c_rd, reported>> /\ slave' = "irq" /\ slave = "index"
        /\ r_wr' = NextIdx(r_wr)
    BY <1>3 DEF SlavePublish, hostVars
  <2>2. RxAvail(NextIdx(r_wr), c_rd) = Backlog /\ Backlog # 0
    BY <1>0, <2>1 DEF OrderInv, Filled, PollInv
  <2>3. RxAvail(r_wr', c_rd') # 0
    BY <2>1, <2>2
  <2> QED  BY <1>0, <2>1, <2>3 DEF PollInv, AvailIsTrue
<1>4. CASE SlaveFill \/ SlaveInterruptsHost
  <2>1. UNCHANGED <<pc, mode, r_wr, c_rd, reported>> /\ slave' # "index"
    BY <1>4 DEF SlaveFill, SlaveInterruptsHost, hostVars
  <2> QED  BY <1>0, <2>1 DEF PollInv, AvailIsTrue
<1>5. CASE HostInterrupt \/ UNCHANGED vars
  BY <1>0, <1>5 DEF HostInterrupt, hostVars, vars, PollInv, AvailIsTrue, Backlog
<1> QED  BY <1>1, <1>2, <1>3, <1>4, <1>5 DEF Next, Step, SlaveStep

\* ring_get_rx_available never reports more than the ring holds to callers that
\* do not wait.
THEOREM AvailIsTrueWhenPolled == Spec => [](Polled => AvailIsTrue)
<1>1. Init => (Polled => PollInv)
  <2> SUFFICES ASSUME Init PROVE PollInv
    OBVIOUS
  <2> QED  BY DEF Init, PollInv, AvailIsTrue, Receiving
<1>2. (Polled => PollInv) => (Polled => AvailIsTrue)
  BY DEF PollInv
<1> QED  BY <1>1, <1>2, InvInit, InvStep, PollStep, PTL DEF Spec

\* A descriptor that such a caller reads on a working link is valid.
LEMMA NoErrorStep ==
  /\ Inv /\ NotWedged /\ (Polled => PollInv)
  /\ PollingFindsData
  /\ [Next]_vars
  => PollingFindsData'
<1> SUFFICES ASSUME Inv, NotWedged, Polled => PollInv,
                    PollingFindsData, [Next]_vars,
                    Polled', LargeBuffers', ~ setting.faults'
    PROVE ~ rx_errors'
  BY DEF EmptyIsNoError, PollingFindsData
<1> USE DEF Inv, TypeInv
<1>1. Polled /\ LargeBuffers /\ ~ setting.faults
  BY DEF Next, vars, Polled, Blocking, LargeBuffers
<1>2. ~ rx_errors /\ PollInv
  BY <1>1 DEF EmptyIsNoError, PollingFindsData
<1>3. ASSUME NEW t \in Thread, pc[t] = "desc" PROVE desc[rd_idx[t]].valid
  <2>1. rd_idx[t] = c_rd
    BY <1>3 DEF OwnerInv
  <2>2. Backlog # 0
    <3>1. RxAvail(r_wr, c_rd) # 0
      BY <1>2, <1>3 DEF PollInv, Receiving
    <3> QED  BY <1>2, <3>1, Published DEF PollInv
  <2>3. \A u \in Thread : pc[u] # "index"
    BY <1>3 DEF LockInv, Critical
  <2>4. c_rd \in Slots /\ RxAvail(c_rd, c_rd) < Backlog
    BY <2>2, Distances
  <2> QED  BY <1>1, <2>1, <2>3, <2>4 DEF NotWedged
<1>4. ASSUME NEW t \in Thread, ReadDescriptor(t) PROVE ~ rx_errors'
  <2>1. desc[rd_idx[t]].valid /\ ~ TooLong(t, desc[rd_idx[t]])
    BY <1>1, <1>3, <1>4 DEF ReadDescriptor, LargeBuffers, TooLong
  <2> QED  BY <1>2, <1>4, <2>1 DEF ReadDescriptor
<1>5. CASE UNCHANGED rx_errors
  BY <1>2, <1>5
<1> QED
  BY <1>4, <1>5
  DEF Next, Step, ThreadStep, SlaveStep, Call, Lock, LockTimeout, ReadWr, QueryAvail,
      ReadFails, SemTake, SemTimeout, Relock, Reread, ReadData, ClearDescriptor,
      ClearDescriptorFails, PublishRd, PublishRdFails, HostInterrupt, SlaveFill,
      SlaveDescribe, SlavePublish, SlaveInterruptsHost, hostVars, vars

\* On a working link, a caller that does not wait and whose buffer is large
\* enough never finds an empty ring to be an error.
THEOREM NoErrorWhenPolled == Spec => []PollingFindsData
<1>1. Init => (Polled => PollInv)
  <2> SUFFICES ASSUME Init PROVE PollInv
    OBVIOUS
  <2> QED  BY DEF Init, PollInv, AvailIsTrue, Receiving
<1>2. Init => PollingFindsData
  BY DEF Init, EmptyIsNoError, PollingFindsData
<1>3. Spec => []NotWedged
  BY NotWedgedHolds
<1> QED
  BY <1>1, <1>2, <1>3, InvInit, InvStep, PollStep, NoErrorStep, PTL DEF Spec
=============================================================================
