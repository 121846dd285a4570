------------------------------- MODULE RingTx -------------------------------
(***************************************************************************)
(* Host-to-slave direction of one ring: ring_send of ring_service_host.c   *)
(* run by several host threads, against the slave that drains the ring.    *)
(* The control block, descriptors and buffers live in the slave's memory   *)
(* and every access to them is one transfer over the link, which may fail; *)
(* the host works on a cached copy of the indices.                         *)
(***************************************************************************)
EXTENDS RingIndex, Sequences

CONSTANTS
  Thread,      \* host threads that call ring_send
  Impatient,   \* those that pass a finite timeout for tx_lock
  MaxSends,    \* bound: number of ring_send calls in a behaviour
  LinkFaults,  \* may a transfer over the link fail?
  StartIdx,    \* bound: where the indices of the empty ring may stand at first
  None         \* no owner

ASSUME TxAssumption ==
  /\ StartIdx \subseteq Slots
  /\ Impatient \subseteq Thread
  /\ MaxSends \in Nat
  /\ LinkFaults \in BOOLEAN
  /\ None \notin Thread

VARIABLES
  pc,          \* where each thread is in ring_send
  msg,         \* the message of each thread's current call
  wr_idx,      \* ring_send's local copy of the write index
  tx_lock,     \* owner of rings[].tx_lock, or None
  c_wr, c_rd,  \* ctrl_cache.tx_wr_idx, ctrl_cache.tx_rd_idx
  r_wr, r_rd,  \* tx_wr_idx, tx_rd_idx of the control block in slave memory
  desc, buf,   \* descriptors and buffers in slave memory
  irq,         \* interrupt request to the slave pending
  slave,       \* what the slave is doing: idle, drain or release
  slaveMsg,    \* the message the slave has copied out of the ring
  result,      \* history: return value of each call; "OK_NOIRQ" is also 0,
               \* of a call whose interrupt failed
  calls,       \* history: number of calls made
  committed,   \* history: messages for which the cached write index moved
  received     \* history: messages the slave took, in order

hostVars == <<pc, msg, wr_idx, tx_lock, c_wr, c_rd>>
slaveVars == <<slave, slaveMsg>>
vars == <<hostVars, slaveVars, r_wr, r_rd, desc, buf, irq,
          result, calls, committed, received>>

Call == 1 .. MaxSends      \* a message is named by the call that sends it
Torn == 0                  \* a buffer holding no whole message
Content == Call \cup {Torn}
Critical == {"read_rd", "data", "desc", "index"}
PC == Critical \cup {"idle", "lock", "irq"}
Result == {"none", "OK", "OK_NOIRQ", "EAGAIN", "ETIMEDOUT", "EIO"}
Cleared == [valid |-> FALSE, of |-> Torn]
Descriptor == [valid : BOOLEAN, of : Content]

TypeOK ==
  /\ pc \in [Thread -> PC]
  /\ msg \in [Thread -> Content]
  /\ wr_idx \in [Thread -> Slots]
  /\ tx_lock \in Thread \cup {None}
  /\ c_wr \in Slots /\ c_rd \in Slots /\ r_wr \in Slots /\ r_rd \in Slots
  /\ desc \in [Slots -> Descriptor]
  /\ buf \in [Slots -> Content]
  /\ irq \in BOOLEAN
  /\ slave \in {"idle", "drain", "release"}
  /\ slaveMsg \in Content
  /\ result \in [Call -> Result]
  /\ calls \in 0 .. MaxSends
  /\ committed \in Seq(Call)
  /\ received \in Seq(Content)

\* ring_service_host_init has copied the control block of an empty ring,
\* whose indices stand anywhere if the slave ran before the host restarted.
Init ==
  /\ pc = [t \in Thread |-> "idle"]
  /\ msg = [t \in Thread |-> Torn]
  /\ wr_idx = [t \in Thread |-> 0]
  /\ tx_lock = None
  /\ r_wr \in StartIdx /\ r_rd = r_wr /\ c_wr = r_wr /\ c_rd = r_wr
  /\ desc = [i \in Slots |-> Cleared]
  /\ buf = [i \in Slots |-> Torn]
  /\ irq = FALSE
  /\ slave = "idle" /\ slaveMsg = Torn
  /\ result = [m \in Call |-> "none"]
  /\ calls = 0
  /\ committed = << >> /\ received = << >>

-----------------------------------------------------------------------------
(* ring_send, one action per transfer or lock operation.                   *)

Goto(t, label) == pc' = [pc EXCEPT ![t] = label]

\* The call's local variables die with it.
Return(t, ret) ==
  /\ Goto(t, "idle")
  /\ result' = [result EXCEPT ![msg[t]] = ret]
  /\ msg' = [msg EXCEPT ![t] = Torn]
  /\ wr_idx' = [wr_idx EXCEPT ![t] = 0]

\* Every error return inside the critical section unlocks first.
UnlockReturn(t, ret) == tx_lock' = None /\ Return(t, ret)

\* A call with parameters that pass the checks; a rejected one changes nothing.
RingSend(t) ==
  /\ pc[t] = "idle"
  /\ calls < MaxSends
  /\ calls' = calls + 1
  /\ msg' = [msg EXCEPT ![t] = calls + 1]
  /\ Goto(t, "lock")
  /\ UNCHANGED <<wr_idx, tx_lock, c_wr, c_rd, r_wr, r_rd, desc, buf, irq,
                 slaveVars, result, committed, received>>

\* Mutant: the write index is taken from the wrong field of the cache.
LockWrongIndex(t) ==
  /\ pc[t] = "lock"
  /\ tx_lock = None
  /\ tx_lock' = t
  /\ wr_idx' = [wr_idx EXCEPT ![t] = c_rd]
  /\ Goto(t, IF TxAvail(c_wr, c_rd) = 0 THEN "read_rd" ELSE "data")
  /\ UNCHANGED <<msg, c_wr, c_rd, r_wr, r_rd, desc, buf, irq, slaveVars,
                 result, calls, committed, received>>

\* The space check runs on the cached indices; only a ring that looks full
\* makes the host ask the slave how far it has read.
Lock(t) ==
  /\ pc[t] = "lock"
  /\ tx_lock = None
  /\ tx_lock' = t
  /\ wr_idx' = [wr_idx EXCEPT ![t] = c_wr]
  /\ Goto(t, IF TxAvail(c_wr, c_rd) = 0 THEN "read_rd" ELSE "data")
  /\ UNCHANGED <<msg, c_wr, c_rd, r_wr, r_rd, desc, buf, irq, slaveVars,
                 result, calls, committed, received>>

LockTimeout(t) ==
  /\ pc[t] = "lock"
  /\ t \in Impatient
  /\ tx_lock # None
  /\ Return(t, "ETIMEDOUT")
  /\ UNCHANGED <<tx_lock, c_wr, c_rd, r_wr, r_rd, desc, buf, irq,
                 slaveVars, calls, committed, received>>

\* Mutant: the EAGAIN return forgets to unlock.
ReadRemoteRdNoUnlock(t) ==
  /\ pc[t] = "read_rd"
  /\ c_rd' = r_rd
  /\ \/ TxAvail(wr_idx[t], r_rd) = 0 /\ Return(t, "EAGAIN")
     \/ TxAvail(wr_idx[t], r_rd) # 0 /\ Goto(t, "data") /\ UNCHANGED <<result, msg, wr_idx>>
  /\ UNCHANGED <<tx_lock, c_wr, r_wr, r_rd, desc, buf, irq,
                 slaveVars, calls, committed, received>>

ReadRemoteRd(t) ==
  /\ pc[t] = "read_rd"
  /\ c_rd' = r_rd
  /\ \/ /\ TxAvail(wr_idx[t], r_rd) = 0
        /\ UnlockReturn(t, "EAGAIN")
     \/ /\ TxAvail(wr_idx[t], r_rd) # 0
        /\ Goto(t, "data")
        /\ UNCHANGED <<tx_lock, result, msg, wr_idx>>
  /\ UNCHANGED <<c_wr, r_wr, r_rd, desc, buf, irq, slaveVars,
                 calls, committed, received>>

ReadRemoteRdFails(t) ==
  /\ pc[t] = "read_rd"
  /\ LinkFaults
  /\ UnlockReturn(t, "EIO")
  /\ UNCHANGED <<c_wr, c_rd, r_wr, r_rd, desc, buf, irq,
                 slaveVars, calls, committed, received>>

WriteData(t) ==
  /\ pc[t] = "data"
  /\ buf' = [buf EXCEPT ![wr_idx[t]] = msg[t]]
  /\ Goto(t, "desc")
  /\ UNCHANGED <<msg, wr_idx, tx_lock, c_wr, c_rd, r_wr, r_rd, desc, irq,
                 slaveVars, result, calls, committed, received>>

\* A failed write may have reached the slave whole, in part or not at all.
WriteDataFails(t) ==
  /\ pc[t] = "data"
  /\ LinkFaults
  /\ \E content \in {buf[wr_idx[t]], Torn, msg[t]} :
       buf' = [buf EXCEPT ![wr_idx[t]] = content]
  /\ UnlockReturn(t, "EIO")
  /\ UNCHANGED <<c_wr, c_rd, r_wr, r_rd, desc, irq, slaveVars,
                 calls, committed, received>>

\* buffer_addr is that of the slot; `of' stands for the length of the message.
FilledDescriptor(t) == [valid |-> TRUE, of |-> msg[t]]

WriteDescriptor(t) ==
  /\ pc[t] = "desc"
  /\ desc' = [desc EXCEPT ![wr_idx[t]] = FilledDescriptor(t)]
  /\ Goto(t, "index")
  /\ UNCHANGED <<msg, wr_idx, tx_lock, c_wr, c_rd, r_wr, r_rd, buf, irq,
                 slaveVars, result, calls, committed, received>>

\* Mutant: the result of the descriptor write is not checked.
WriteDescriptorUnchecked(t) ==
  /\ pc[t] = "desc"
  /\ LinkFaults
  /\ Goto(t, "index")
  /\ UNCHANGED <<msg, wr_idx, tx_lock, c_wr, c_rd, r_wr, r_rd, desc, buf, irq,
                 slaveVars, result, calls, committed, received>>

WriteDescriptorFails(t) ==
  /\ pc[t] = "desc"
  /\ LinkFaults
  /\ \E d \in {desc[wr_idx[t]], FilledDescriptor(t)} :
       desc' = [desc EXCEPT ![wr_idx[t]] = d]
  /\ UnlockReturn(t, "EIO")
  /\ UNCHANGED <<c_wr, c_rd, r_wr, r_rd, buf, irq, slaveVars,
                 calls, committed, received>>

\* The cached write index moves before the transfer that publishes it.
AdvanceCachedWr(t) ==
  /\ c_wr' = NextIdx(wr_idx[t])
  /\ committed' = Append(committed, msg[t])

PublishWr(t) ==
  /\ pc[t] = "index"
  /\ AdvanceCachedWr(t)
  /\ r_wr' = NextIdx(wr_idx[t])
  /\ tx_lock' = None
  /\ Goto(t, "irq")
  /\ UNCHANGED <<msg, wr_idx, c_rd, r_rd, desc, buf, irq, slaveVars, result,
                 calls, received>>

\* Mutant: the cached write index moves only when the transfer succeeded.
PublishWrFailsNoAdvance(t) ==
  /\ pc[t] = "index"
  /\ LinkFaults
  /\ r_wr' \in {r_wr, NextIdx(wr_idx[t])}
  /\ UnlockReturn(t, "EIO")
  /\ UNCHANGED <<c_wr, c_rd, r_rd, desc, buf, irq, slaveVars,
                 calls, committed, received>>

\* Mutant: the result of the index write is not checked.
PublishWrUnchecked(t) ==
  /\ pc[t] = "index"
  /\ LinkFaults
  /\ AdvanceCachedWr(t)
  /\ tx_lock' = None
  /\ Goto(t, "irq")
  /\ UNCHANGED <<msg, wr_idx, c_rd, r_wr, r_rd, desc, buf, irq, slaveVars,
                 result, calls, received>>

PublishWrFails(t) ==
  /\ pc[t] = "index"
  /\ LinkFaults
  /\ AdvanceCachedWr(t)
  /\ r_wr' \in {r_wr, NextIdx(wr_idx[t])}
  /\ UnlockReturn(t, "EIO")
  /\ UNCHANGED <<c_rd, r_rd, desc, buf, irq, slaveVars, calls,
                 received>>

\* Mutant: the slave is not interrupted.
TriggerInterruptMissing(t) ==
  /\ pc[t] = "irq"
  /\ Return(t, "OK")
  /\ UNCHANGED <<tx_lock, c_wr, c_rd, r_wr, r_rd, desc, buf, irq,
                 slaveVars, calls, committed, received>>

\* A failure to interrupt the slave is logged only: the call still returns 0.
TriggerInterrupt(t) ==
  /\ pc[t] = "irq"
  /\ \/ irq' = TRUE /\ Return(t, "OK")
     \/ LinkFaults /\ irq' \in {irq, TRUE} /\ Return(t, "OK_NOIRQ")
  /\ UNCHANGED <<tx_lock, c_wr, c_rd, r_wr, r_rd, desc, buf,
                 slaveVars, calls, committed, received>>

ThreadStep(t) ==
  \/ Lock(t) \/ LockTimeout(t)
  \/ ReadRemoteRd(t) \/ ReadRemoteRdFails(t)
  \/ WriteData(t) \/ WriteDataFails(t)
  \/ WriteDescriptor(t) \/ WriteDescriptorFails(t)
  \/ PublishWr(t) \/ PublishWrFails(t)
  \/ TriggerInterrupt(t)

-----------------------------------------------------------------------------
(* The slave: its interrupt runs a callback that receives until the ring   *)
(* is empty.                                                               *)

SlaveInterrupt ==
  /\ slave = "idle" /\ irq
  /\ slave' = "drain" /\ irq' = FALSE
  /\ UNCHANGED <<hostVars, slaveMsg, r_wr, r_rd, desc, buf, result, calls,
                 committed, received>>

SlaveTake ==
  /\ slave = "drain"
  /\ RxAvail(r_wr, r_rd) # 0
  /\ slave' = "release"
  /\ slaveMsg' = IF desc[r_rd].valid THEN buf[r_rd] ELSE Torn
  /\ UNCHANGED <<hostVars, r_wr, r_rd, desc, buf, irq, result, calls,
                 committed, received>>

SlaveRelease ==
  /\ slave = "release"
  /\ slave' = "drain"
  /\ desc' = [desc EXCEPT ![r_rd] = Cleared]
  /\ r_rd' = NextIdx(r_rd)
  /\ received' = Append(received, slaveMsg)
  /\ UNCHANGED <<hostVars, slaveMsg, r_wr, buf, irq, result, calls, committed>>

SlaveEmpty ==
  /\ slave = "drain"
  /\ RxAvail(r_wr, r_rd) = 0
  /\ slave' = "idle"
  /\ UNCHANGED <<hostVars, slaveMsg, r_wr, r_rd, desc, buf, irq, result, calls,
                 committed, received>>

SlaveStep == SlaveInterrupt \/ SlaveTake \/ SlaveRelease \/ SlaveEmpty

Next ==
  \/ \E t \in Thread : RingSend(t) \/ ThreadStep(t)
  \/ SlaveStep

Spec == Init /\ [][Next]_vars

\* The scheduler runs every thread that can run, transfers end, and the slave
\* serves its interrupt.  Nothing obliges a thread to call ring_send again.
Fairness == (\A t \in Thread : WF_vars(ThreadStep(t))) /\ WF_vars(SlaveStep)

FairSpec == Spec /\ Fairness

-----------------------------------------------------------------------------
(* Properties.                                                             *)

\* Going round the ring one meets the cached read index, the slave's read
\* index, the published write index and the cached write index in this order:
\* the cached copies are stale only in the safe direction, through failed
\* transfers too.
IndexOrder ==
  RxAvail(c_wr, c_rd) =
    RxAvail(c_wr, r_wr) + RxAvail(r_wr, r_rd) + RxAvail(r_rd, c_rd)

Published(i) == RxAvail(i, r_rd) < RxAvail(r_wr, r_rd)

\* A slot the slave may read holds a valid descriptor and the whole message it
\* describes, whatever send failed half way in that slot before.
PublishedIntact ==
  \A i \in Slots : Published(i) =>
    /\ desc[i].valid
    /\ buf[i] # Torn
    /\ desc[i].of = buf[i]

VisibleCount == Len(received) + RxAvail(r_wr, r_rd)

\* A call that returned 0 has its message in the part of the ring that the
\* slave has been told of, or already received.
OkIsVisible ==
  \A m \in Call : result[m] \in {"OK", "OK_NOIRQ"} =>
    \E k \in 1 .. VisibleCount : committed[k] = m

\* tx_lock is free whenever no call is inside its critical section: no return
\* path of ring_send leaves the mutex locked.
LockNotLeaked == tx_lock # None => pc[tx_lock] \in Critical

\* From the moment the slave copies a message out of a slot until it gives the
\* slot back, no ring_send writes the slot's buffer or descriptor.
SlaveCopyStable ==
  [][(slave = "release" /\ slave' = "release") =>
        /\ buf'[r_rd] = buf[r_rd]
        /\ desc'[r_rd] = desc[r_rd]]_vars

\* The ring is a FIFO of capacity N - 1: nothing is reordered, duplicated or
\* received before it is published.
Channel ==
  INSTANCE RingChannel WITH
    Message <- Call, Capacity <- N - 1,
    accepted <- committed, visible <- VisibleCount, received <- received

ImplementsChannel == Channel!ChannelSpec

\* Every message whose call returned 0 reaches the slave, if the interrupt that
\* the call ended with was raised.
OkIsDelivered ==
  \A m \in Call : result[m] = "OK" ~> \E k \in 1 .. Len(received) : received[k] = m
=============================================================================
