------------------------------- MODULE RingRx -------------------------------
(***************************************************************************)
(* Slave-to-host direction of one ring: ring_recv and                      *)
(* ring_get_rx_available of ring_service_host.c run by several host        *)
(* threads, against the slave that fills the ring and interrupts the host. *)
(***************************************************************************)
EXTENDS RingIndex, Sequences

CONSTANTS
  Thread,      \* host threads
  Settings,    \* how the ring is used: one of these, for good (see Setting)
  Long,        \* messages that need the larger buffer
  MaxSends,    \* bound: messages the slave produces
  MaxCalls,    \* bound: calls the host makes
  StartIdx,    \* bound: where the indices of the empty ring may stand at first
  None         \* no owner

\* ring_recv without waiting, with a finite timeout, with
\* QC_OSAL_TIMEOUT_FOREVER, and ring_get_rx_available
Mode == {"nowait", "timed", "forever", "query"}

\* modes[t]: the calls thread t makes; short: threads whose buffer is too small
\* for a long message; faults: may a transfer over the link fail?
Setting == [modes : [Thread -> SUBSET Mode], short : SUBSET Thread, faults : BOOLEAN]

ASSUME RxAssumption ==
  /\ StartIdx \subseteq Slots
  /\ Settings \subseteq Setting
  /\ MaxSends \in Nat /\ MaxCalls \in Nat
  /\ Long \subseteq 1 .. MaxSends
  /\ None \notin Thread

VARIABLES
  setting,     \* the setting chosen at the start
  pc, mode,    \* where each thread is, and in which call
  rd_idx,      \* ring_recv's local copy of the read index
  data,        \* the caller's buffer
  rx_lock,     \* owner of rings[].rx_lock, or None
  rx_sem,      \* rings[].rx_sem
  c_rd,        \* ctrl_cache.rx_rd_idx
  r_wr, r_rd,  \* rx_wr_idx, rx_rd_idx of the control block in slave memory
  desc, buf,   \* descriptors and buffers in slave memory
  slave,       \* where the slave is in its own send
  irq,         \* interrupt request to the host pending
  rx_errors,   \* stats.rx_errors has counted something
  reported,    \* last return of ring_get_rx_available, beside the real backlog
  calls,       \* history: calls made
  produced,    \* history: messages whose descriptor the slave made valid
  consumed,    \* history: messages for which the cached read index moved
  delivered    \* history: messages returned to a caller

hostVars == <<pc, mode, rd_idx, data, rx_lock, c_rd, rx_errors, reported, calls,
              consumed, delivered>>
vars == <<setting, hostVars, rx_sem, r_wr, r_rd, desc, buf, slave, irq, produced>>

Msg == 1 .. MaxSends
Torn == 0
Content == Msg \cup {Torn}
PC == {"idle", "lock", "wait", "relock", "read_wr", "query", "reread", "desc", "data",
       "clear", "index"}
Cleared == [valid |-> FALSE, of |-> Torn]
Descriptor == [valid : BOOLEAN, of : Content]

\* The indices stay in the ring, the semaphore below its limit, and only whole
\* messages are produced.
TypeOK ==
  /\ setting \in Settings
  /\ pc \in [Thread -> PC]
  /\ mode \in [Thread -> Mode]
  /\ rd_idx \in [Thread -> Slots]
  /\ data \in [Thread -> Content]
  /\ rx_lock \in Thread \cup {None}
  /\ rx_sem \in 0 .. N
  /\ c_rd \in Slots /\ r_wr \in Slots /\ r_rd \in Slots
  /\ desc \in [Slots -> Descriptor]
  /\ buf \in [Slots -> Content]
  /\ slave \in {"idle", "desc", "index", "irq"}
  /\ irq \in BOOLEAN
  /\ rx_errors \in BOOLEAN
  /\ reported \in [value : Nat, backlog : Int]
  /\ calls \in 0 .. MaxCalls
  /\ produced \in Seq(Msg)
  /\ consumed \in Seq(Content)
  /\ delivered \in Seq(Content)

Init ==
  /\ setting \in Settings
  /\ pc = [t \in Thread |-> "idle"]
  /\ mode = [t \in Thread |-> "nowait"]
  /\ rd_idx = [t \in Thread |-> 0]
  /\ data = [t \in Thread |-> Torn]
  /\ rx_lock = None /\ rx_sem = 0
  /\ r_wr \in StartIdx /\ r_rd = r_wr /\ c_rd = r_wr
  /\ desc = [i \in Slots |-> Cleared]
  /\ buf = [i \in Slots |-> Torn]
  /\ slave = "idle" /\ irq = FALSE
  /\ rx_errors = FALSE /\ reported = [value |-> 0, backlog |-> 0] /\ calls = 0
  /\ produced = << >> /\ consumed = << >> /\ delivered = << >>

-----------------------------------------------------------------------------
(* ring_recv, one action per transfer, lock or semaphore operation.        *)

Goto(t, label) == pc' = [pc EXCEPT ![t] = label]

UnlockReturn(t) == rx_lock' = None /\ Goto(t, "idle")

Call(t, m) ==
  /\ pc[t] = "idle" /\ m \in setting.modes[t]
  /\ calls < MaxCalls
  /\ calls' = calls + 1
  /\ mode' = [mode EXCEPT ![t] = m]
  /\ data' = [data EXCEPT ![t] = Torn]
  /\ rd_idx' = [rd_idx EXCEPT ![t] = 0]
  /\ Goto(t, "lock")
  /\ UNCHANGED <<rx_lock, c_rd, rx_errors, reported, consumed, delivered,
                 rx_sem, r_wr, r_rd, desc, buf, slave, irq, produced>>

Lock(t) ==
  /\ pc[t] = "lock" /\ rx_lock = None
  /\ rx_lock' = t
  /\ Goto(t, IF mode[t] = "query" THEN "query" ELSE "read_wr")
  /\ UNCHANGED <<mode, rd_idx, data, c_rd, rx_errors, reported, calls, consumed,
                 delivered, rx_sem, r_wr, r_rd, desc, buf, slave, irq, produced>>

\* A caller that does not wait, or not forever, gives up on a held lock.
LockTimeout(t) ==
  /\ pc[t] = "lock" /\ rx_lock # None
  /\ mode[t] \in {"nowait", "timed"}
  /\ Goto(t, "idle")
  /\ UNCHANGED <<mode, rd_idx, data, rx_lock, c_rd, rx_errors, reported, calls,
                 consumed, delivered, rx_sem, r_wr, r_rd, desc, buf, slave, irq,
                 produced>>

\* Any transfer that reads slave memory may fail; the call unlocks and returns.
ReadFails(t) ==
  /\ pc[t] \in {"read_wr", "query", "reread", "desc", "data"}
  /\ setting.faults
  /\ UnlockReturn(t)
  /\ UNCHANGED <<mode, rd_idx, data, c_rd, rx_errors, reported, calls, consumed,
                 delivered, rx_sem, r_wr, r_rd, desc, buf, slave, irq, produced>>

\* Messages in the ring.
Backlog == Len(produced) - Len(consumed)

QueryAvail(t) ==
  /\ pc[t] = "query"
  /\ reported' = [value |-> RxAvail(r_wr, c_rd), backlog |-> Backlog]
  /\ UnlockReturn(t)
  /\ UNCHANGED <<mode, rd_idx, data, c_rd, rx_errors, calls, consumed, delivered,
                 rx_sem, r_wr, r_rd, desc, buf, slave, irq, produced>>

\* Mutant: an empty ring is not noticed.
ReadWrUnchecked(t) ==
  /\ pc[t] = "read_wr"
  /\ rd_idx' = [rd_idx EXCEPT ![t] = c_rd]
  /\ Goto(t, "desc")
  /\ UNCHANGED <<mode, data, rx_lock, c_rd, rx_errors, reported, calls, consumed,
                 delivered, rx_sem, r_wr, r_rd, desc, buf, slave, irq, produced>>

ReadWr(t) ==
  /\ pc[t] = "read_wr"
  /\ rd_idx' = [rd_idx EXCEPT ![t] = c_rd]
  /\ \/ /\ RxAvail(r_wr, c_rd) # 0
        /\ Goto(t, "desc") /\ UNCHANGED rx_lock
     \/ /\ RxAvail(r_wr, c_rd) = 0 /\ mode[t] = "nowait"
        /\ UnlockReturn(t)
     \/ /\ RxAvail(r_wr, c_rd) = 0 /\ mode[t] # "nowait"
        /\ Goto(t, "wait") /\ rx_lock' = None
  /\ UNCHANGED <<mode, data, c_rd, rx_errors, reported, calls, consumed,
                 delivered, rx_sem, r_wr, r_rd, desc, buf, slave, irq, produced>>

SemTake(t) ==
  /\ pc[t] = "wait" /\ rx_sem > 0
  /\ rx_sem' = rx_sem - 1
  /\ Goto(t, "relock")
  /\ UNCHANGED <<mode, rd_idx, data, rx_lock, c_rd, rx_errors, reported, calls,
                 consumed, delivered, r_wr, r_rd, desc, buf, slave, irq, produced>>

SemTimeout(t) ==
  /\ pc[t] = "wait" /\ rx_sem = 0
  /\ mode[t] = "timed"
  /\ Goto(t, "idle")
  /\ UNCHANGED <<mode, rd_idx, data, rx_lock, c_rd, rx_errors, reported, calls,
                 consumed, delivered, rx_sem, r_wr, r_rd, desc, buf, slave, irq,
                 produced>>

Relock(t) ==
  /\ pc[t] = "relock" /\ rx_lock = None
  /\ rx_lock' = t
  /\ Goto(t, "reread")
  /\ UNCHANGED <<mode, rd_idx, data, c_rd, rx_errors, reported, calls, consumed,
                 delivered, rx_sem, r_wr, r_rd, desc, buf, slave, irq, produced>>

\* Both indices are read again, and the available count is not computed again.
Reread(t) ==
  /\ pc[t] = "reread"
  /\ rd_idx' = [rd_idx EXCEPT ![t] = c_rd]
  /\ Goto(t, "desc")
  /\ UNCHANGED <<mode, data, rx_lock, c_rd, rx_errors, reported, calls, consumed,
                 delivered, rx_sem, r_wr, r_rd, desc, buf, slave, irq, produced>>

TooLong(t, d) == t \in setting.short /\ d.of \in Long

\* Mutant: the valid flag is not checked.
ReadDescriptorUnchecked(t) ==
  /\ pc[t] = "desc"
  /\ Goto(t, "data")
  /\ UNCHANGED <<mode, rd_idx, data, rx_lock, c_rd, rx_errors, reported, calls,
                 consumed, delivered, rx_sem, r_wr, r_rd, desc, buf, slave, irq,
                 produced>>

ReadDescriptor(t) ==
  /\ pc[t] = "desc"
  /\ LET d == desc[rd_idx[t]] IN
     \/ /\ d.valid /\ ~ TooLong(t, d)
        /\ Goto(t, "data")
        /\ UNCHANGED <<rx_lock, rx_errors>>
     \/ /\ ~ d.valid \/ TooLong(t, d)
        /\ rx_errors' = TRUE
        /\ UnlockReturn(t)
  /\ UNCHANGED <<mode, rd_idx, data, c_rd, reported, calls, consumed, delivered,
                 rx_sem, r_wr, r_rd, desc, buf, slave, irq, produced>>

ReadData(t) ==
  /\ pc[t] = "data"
  /\ data' = [data EXCEPT ![t] = buf[rd_idx[t]]]
  /\ Goto(t, "clear")
  /\ UNCHANGED <<mode, rd_idx, rx_lock, c_rd, rx_errors, reported, calls,
                 consumed, delivered, rx_sem, r_wr, r_rd, desc, buf, slave, irq,
                 produced>>

ClearDescriptor(t) ==
  /\ pc[t] = "clear"
  /\ desc' = [desc EXCEPT ![rd_idx[t]] = Cleared]
  /\ Goto(t, "index")
  /\ UNCHANGED <<mode, rd_idx, data, rx_lock, c_rd, rx_errors, reported, calls,
                 consumed, delivered, rx_sem, r_wr, r_rd, buf, slave, irq, produced>>

\* A failed write may have reached the slave or not.
ClearDescriptorFails(t) ==
  /\ pc[t] = "clear" /\ setting.faults
  /\ \E d \in {desc[rd_idx[t]], Cleared} :
       desc' = [desc EXCEPT ![rd_idx[t]] = d]
  /\ UnlockReturn(t)
  /\ UNCHANGED <<mode, rd_idx, data, c_rd, rx_errors, reported, calls, consumed,
                 delivered, rx_sem, r_wr, r_rd, buf, slave, irq, produced>>

\* Mutant: the cached read index does not move.
AdvanceCachedRdMissing(t) ==
  /\ c_rd' = c_rd
  /\ consumed' = Append(consumed, data[t])

\* The cached read index moves before the transfer that publishes it.
AdvanceCachedRd(t) ==
  /\ c_rd' = NextIdx(rd_idx[t])
  /\ consumed' = Append(consumed, data[t])

PublishRd(t) ==
  /\ pc[t] = "index"
  /\ AdvanceCachedRd(t)
  /\ r_rd' = NextIdx(rd_idx[t])
  /\ delivered' = Append(delivered, data[t])
  /\ UnlockReturn(t)
  /\ UNCHANGED <<mode, rd_idx, data, rx_errors, reported, calls, rx_sem, r_wr,
                 desc, buf, slave, irq, produced>>

PublishRdFails(t) ==
  /\ pc[t] = "index" /\ setting.faults
  /\ AdvanceCachedRd(t)
  /\ r_rd' \in {r_rd, NextIdx(rd_idx[t])}
  /\ UnlockReturn(t)
  /\ UNCHANGED <<mode, rd_idx, data, rx_errors, reported, calls, delivered,
                 rx_sem, r_wr, desc, buf, slave, irq, produced>>

ThreadStep(t) ==
  \/ Lock(t) \/ LockTimeout(t)
  \/ ReadWr(t) \/ QueryAvail(t) \/ ReadFails(t)
  \/ SemTake(t) \/ SemTimeout(t) \/ Relock(t) \/ Reread(t)
  \/ ReadDescriptor(t) \/ ReadData(t)
  \/ ClearDescriptor(t) \/ ClearDescriptorFails(t)
  \/ PublishRd(t) \/ PublishRdFails(t)

-----------------------------------------------------------------------------
(* The interrupt gives the semaphore, which saturates at its limit N.      *)

\* Mutant: the semaphore is not given.
HostInterruptNoGive ==
  /\ irq
  /\ irq' = FALSE
  /\ UNCHANGED <<hostVars, rx_sem, r_wr, r_rd, desc, buf, slave, produced>>

HostInterrupt ==
  /\ irq
  /\ irq' = FALSE
  /\ rx_sem' = IF rx_sem < N THEN rx_sem + 1 ELSE rx_sem
  /\ UNCHANGED <<hostVars, r_wr, r_rd, desc, buf, slave, produced>>

-----------------------------------------------------------------------------
(* The slave: buffer, descriptor, write index, interrupt.                  *)

SlaveFill ==
  /\ slave = "idle"
  /\ Len(produced) < MaxSends
  /\ TxAvail(r_wr, r_rd) # 0
  /\ buf' = [buf EXCEPT ![r_wr] = Len(produced) + 1]
  /\ slave' = "desc"
  /\ UNCHANGED <<hostVars, rx_sem, r_wr, r_rd, desc, irq, produced>>

SlaveDescribe ==
  /\ slave = "desc"
  /\ desc' = [desc EXCEPT ![r_wr] = [valid |-> TRUE, of |-> Len(produced) + 1]]
  /\ produced' = Append(produced, Len(produced) + 1)
  /\ slave' = "index"
  /\ UNCHANGED <<hostVars, rx_sem, r_wr, r_rd, buf, irq>>

SlavePublish ==
  /\ slave = "index"
  /\ r_wr' = NextIdx(r_wr)
  /\ slave' = "irq"
  /\ UNCHANGED <<hostVars, rx_sem, r_rd, desc, buf, irq, produced>>

SlaveInterruptsHost ==
  /\ slave = "irq"
  /\ irq' = TRUE
  /\ slave' = "idle"
  /\ UNCHANGED <<hostVars, rx_sem, r_wr, r_rd, desc, buf, produced>>

SlaveStep == SlaveFill \/ SlaveDescribe \/ SlavePublish \/ SlaveInterruptsHost

Step ==
  \/ \E t \in Thread : ThreadStep(t) \/ \E m \in Mode : Call(t, m)
  \/ HostInterrupt
  \/ SlaveStep

Next == Step /\ UNCHANGED setting

Spec == Init /\ [][Next]_vars

\* The scheduler runs every thread that can run, transfers end, the interrupt
\* is served and the slave finishes a send it has begun.
Fairness ==
  /\ \A t \in Thread : WF_vars(ThreadStep(t) /\ UNCHANGED setting)
  /\ WF_vars(HostInterrupt /\ UNCHANGED setting)
  /\ WF_vars(SlaveStep /\ UNCHANGED setting)

FairSpec == Spec /\ Fairness

-----------------------------------------------------------------------------
(* Properties.                                                             *)

\* The slave never overwrites a message the host has not consumed: each slot of
\* the backlog, counted from the cached read index, holds its own message.
BacklogIntact ==
  \A i \in Slots : RxAvail(i, c_rd) < Backlog =>
    buf[i] = produced[Len(consumed) + RxAvail(i, c_rd) + 1]

\* Without link faults no message is stuck behind a descriptor that the host
\* cleared without moving its read index past it.
NotWedged == ~ setting.faults =>
  \A i \in Slots : RxAvail(i, c_rd) < Backlog =>
    desc[i].valid \/ \E t \in Thread : pc[t] = "index" /\ rd_idx[t] = i

\* The host receives in order, nothing twice, and never more than N - 1
\* messages are under way.
Channel ==
  INSTANCE RingChannel WITH
    Message <- Msg, Capacity <- N - 1,
    accepted <- produced, visible <- Len(produced), received <- consumed

ImplementsChannel == Channel!ChannelSpec

Blocking == {t \in Thread : setting.modes[t] \cap {"timed", "forever"} # {}}
Polled == Blocking = {}
LargeBuffers == setting.short = {}

WaitsBesideMessage(t) == pc[t] = "wait" /\ RxAvail(r_wr, c_rd) # 0

\* The slave is about to raise an interrupt while one is pending: the two may
\* become one, and two messages give one token.
Coalescing == irq /\ slave = "irq"

\* A receiver that waits while the ring holds a published message gets to read
\* the ring: no interrupt is lost between the check and the wait, and no other
\* caller returned with rx_lock, which the waiter needs again. For the only
\* thread of a ring that ever waits this holds whatever fails. Of several that
\* wait, none is left beside a message on a working link as long as no two
\* interrupts coalesce; when they do, one token stands for two messages, a single
\* waiter leaves and the claim is not made.
NoLostWakeup ==
  \A t \in Thread :
    /\ Blocking \subseteq {t} => (WaitsBesideMessage(t) ~> pc[t] = "idle")
    /\ ~ setting.faults /\ [](~ Coalescing)
         => (WaitsBesideMessage(t) ~> (pc[t] = "idle" \/ RxAvail(r_wr, c_rd) = 0))

\* "Wait for data": on a working link, a call whose wait succeeded finds data,
\* and an empty ring is not an error.
EmptyIsNoError == ~ setting.faults => ~ rx_errors

\* The same of callers that never wait and whose buffers are large enough.
PollingFindsData == Polled /\ LargeBuffers => EmptyIsNoError

\* "Get available RX descriptors count": never more than the ring holds.
AvailIsTrue == reported.value <= reported.backlog
=============================================================================
