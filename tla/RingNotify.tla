----------------------------- MODULE RingNotify -----------------------------
(***************************************************************************)
(* From the slave's interrupt to an empty ring: ring_rx_handler, the work  *)
(* queue of either OS port, rx_work_handler, and the application callback  *)
(* that drains the ring, with the shell's status command beside it.  The   *)
(* content of a ring is its number of unread messages (RingRx has the      *)
(* rest).                                                                  *)
(***************************************************************************)
EXTENDS Integers, Sequences

CONSTANTS
  NumRings,    \* g_ring_service.num_rings
  Os,          \* the OS port: "zephyr" or "freertos"
  QueueLimit,  \* length of the FreeRTOS work queue
  RingCap,     \* messages a ring can hold
  MaxSends,    \* bound: messages the slave publishes
  StatusShell, \* does the shell query the rings?
  LinkFaults   \* may a transfer over the link fail?

ASSUME NotifyAssumption ==
  /\ NumRings \in Nat \ {0}
  /\ Os \in {"zephyr", "freertos"}
  /\ QueueLimit \in Nat \ {0}
  /\ RingCap \in Nat /\ MaxSends \in Nat
  /\ StatusShell \in BOOLEAN /\ LinkFaults \in BOOLEAN

Ring == 0 .. NumRings - 1
NoRing == -1

VARIABLES
  backlog,     \* backlog[r]: published messages the host has not consumed
  slave,       \* is the slave between publishing and raising its interrupt?
  line,        \* rising edge latched for the host
  isr,         \* next ring of ring_rx_handler's loop, NumRings outside it
  queue,       \* work items waiting, each named by its ring
  wpc, wring,  \* the work queue thread: its step, and the ring it serves
  status,      \* ring whose rx_lock the shell holds, or NoRing
  sends,       \* history: messages published
  aborted      \* aborted[r]: the last service of ring r ended in an error

vars == <<backlog, slave, line, isr, queue, wpc, wring, status, sends, aborted>>

Queued(r) == \E k \in 1 .. Len(queue) : queue[k] = r

\* The work queue holds rings, within its limit on FreeRTOS and without
\* repetition on Zephyr.
TypeOK ==
  /\ backlog \in [Ring -> 0 .. RingCap]
  /\ slave \in {"idle", "irq"}
  /\ line \in BOOLEAN
  /\ isr \in 0 .. NumRings
  /\ queue \in Seq(Ring)
  /\ Os = "freertos" => Len(queue) <= QueueLimit
  /\ Os = "zephyr" => \A j, k \in 1 .. Len(queue) : queue[j] = queue[k] => j = k
  /\ wpc \in {"idle", "avail", "recv", "done"}
  /\ wring \in Ring \cup {NoRing}
  /\ wpc # "idle" => wring \in Ring
  /\ status \in Ring \cup {NoRing}
  /\ sends \in 0 .. MaxSends
  /\ aborted \in [Ring -> BOOLEAN]

Init ==
  /\ backlog = [r \in Ring |-> 0]
  /\ slave = "idle" /\ line = FALSE /\ isr = NumRings
  /\ queue = << >>
  /\ wpc = "idle" /\ wring = NoRing
  /\ status = NoRing
  /\ sends = 0
  /\ aborted = [r \in Ring |-> FALSE]

-----------------------------------------------------------------------------
(* The slave publishes a message and interrupts the host.                  *)

SlavePublish(r) ==
  /\ slave = "idle" /\ sends < MaxSends
  /\ backlog[r] < RingCap
  /\ backlog' = [backlog EXCEPT ![r] = @ + 1]
  /\ slave' = "irq" /\ sends' = sends + 1
  /\ UNCHANGED <<line, isr, queue, wpc, wring, status, aborted>>

SlaveRaise ==
  /\ slave = "irq"
  /\ slave' = "idle" /\ line' = TRUE
  /\ UNCHANGED <<backlog, isr, queue, wpc, wring, status, sends, aborted>>

-----------------------------------------------------------------------------
(* ring_rx_handler submits a work item for every ring, in order, and does  *)
(* not look at the result.                                                 *)

\* Mutant: an item is not queued while its ring is being served.
SubmitUnlessRunning(q, r) ==
  IF (wpc # "idle" /\ wring = r) \/ \E k \in 1 .. Len(q) : q[k] = r
    THEN q ELSE Append(q, r)

\* Mutant: an item is queued again while it is still waiting.
SubmitAgain(q, r) == Append(q, r)

\* qc_osal_work_submit: Zephyr queues an item once, FreeRTOS queues it again
\* and again until the queue is full.
Submit(q, r) ==
  IF IF Os = "zephyr" THEN \A k \in 1 .. Len(q) : q[k] # r ELSE Len(q) < QueueLimit
    THEN Append(q, r)
    ELSE q

InIsr == isr < NumRings

RingRxHandler ==
  /\ line /\ ~ InIsr
  /\ line' = FALSE /\ isr' = 0
  /\ UNCHANGED <<backlog, slave, queue, wpc, wring, status, sends, aborted>>

SubmitNext ==
  /\ InIsr
  /\ queue' = Submit(queue, isr)
  /\ isr' = isr + 1
  /\ aborted' = [aborted EXCEPT ![isr] = FALSE]
  /\ UNCHANGED <<backlog, slave, line, wpc, wring, status, sends>>

IsrStep == RingRxHandler \/ SubmitNext

-----------------------------------------------------------------------------
(* The work queue thread.  No thread runs inside the interrupt handler.    *)

WorkTake ==
  /\ ~ InIsr /\ wpc = "idle" /\ queue # << >>
  /\ wring' = Head(queue) /\ queue' = Tail(queue)
  /\ wpc' = "avail"
  /\ UNCHANGED <<backlog, slave, line, isr, status, sends, aborted>>

\* The handler has seen an empty ring, or an error, and is about to return.
Finish == wpc' = "done" /\ UNCHANGED wring

WorkDone ==
  /\ ~ InIsr /\ wpc = "done"
  /\ wpc' = "idle" /\ wring' = NoRing
  /\ UNCHANGED <<backlog, slave, line, isr, queue, status, sends, aborted>>

\* An error ends the service of the ring, whatever the ring still holds.
Abort ==
  /\ Finish
  /\ aborted' = [aborted EXCEPT ![wring] = TRUE]
  /\ UNCHANGED <<backlog, slave, line, isr, queue, status, sends>>

\* rx_work_handler calls ring_get_rx_available, which waits for rx_lock.
RxWorkHandler ==
  /\ ~ InIsr /\ wpc = "avail" /\ status # wring
  /\ \/ backlog[wring] = 0 /\ Finish
     \/ backlog[wring] # 0 /\ wpc' = "recv" /\ UNCHANGED wring
  /\ UNCHANGED <<backlog, slave, line, isr, queue, status, sends, aborted>>

RxWorkHandlerFails ==
  /\ ~ InIsr /\ wpc = "avail" /\ status # wring
  /\ LinkFaults
  /\ Abort

\* Mutant: the callback receives one message and returns.
CallbackReceivesOne ==
  /\ ~ InIsr /\ wpc = "recv" /\ status # wring
  /\ Finish
  /\ backlog' = [backlog EXCEPT ![wring] = IF @ = 0 THEN 0 ELSE @ - 1]
  /\ UNCHANGED <<slave, line, isr, queue, status, sends, aborted>>

\* The callback calls ring_recv with a zero timeout until it returns 0.
CallbackReceives ==
  /\ ~ InIsr /\ wpc = "recv" /\ status # wring
  /\ \/ /\ backlog[wring] = 0
        /\ Finish /\ UNCHANGED backlog
     \/ /\ backlog[wring] # 0
        /\ backlog' = [backlog EXCEPT ![wring] = @ - 1]
        /\ UNCHANGED <<wpc, wring>>
  /\ UNCHANGED <<slave, line, isr, queue, status, sends, aborted>>

\* The zero timeout also applies to rx_lock: while the shell holds it,
\* ring_recv fails and the callback leaves its loop.
CallbackLockBusy ==
  /\ ~ InIsr /\ wpc = "recv" /\ status = wring
  /\ Abort

CallbackFails ==
  /\ ~ InIsr /\ wpc = "recv" /\ status # wring
  /\ LinkFaults
  /\ Abort

WorkStep ==
  \/ WorkTake \/ RxWorkHandler \/ RxWorkHandlerFails
  \/ CallbackReceives \/ CallbackLockBusy \/ CallbackFails \/ WorkDone

-----------------------------------------------------------------------------
(* cmd_ring_status: ring_get_rx_available holds rx_lock over a transfer.   *)

StatusLock(r) ==
  /\ ~ InIsr /\ StatusShell /\ status = NoRing
  /\ status' = r
  /\ UNCHANGED <<backlog, slave, line, isr, queue, wpc, wring, sends, aborted>>

StatusUnlock ==
  /\ ~ InIsr /\ status # NoRing
  /\ status' = NoRing
  /\ UNCHANGED <<backlog, slave, line, isr, queue, wpc, wring, sends, aborted>>

Next ==
  \/ \E r \in Ring : SlavePublish(r) \/ StatusLock(r)
  \/ SlaveRaise \/ IsrStep \/ WorkStep \/ StatusUnlock

Spec == Init /\ [][Next]_vars

\* The slave finishes its send, the interrupt is served, the work queue thread
\* runs, also against a shell that keeps coming back for the lock, and the
\* shell ends its transfer.
Fairness ==
  /\ WF_vars(SlaveRaise) /\ WF_vars(IsrStep)
  /\ SF_vars(WorkStep) /\ WF_vars(StatusUnlock)

FairSpec == Spec /\ Fairness

-----------------------------------------------------------------------------
(* Properties.                                                             *)

\* Somebody will still look at ring r.
Pending(r) ==
  slave = "irq" \/ line \/ isr <= r \/ Queued(r)
    \/ (wpc \in {"avail", "recv"} /\ wring = r)

\* A ring is left with unread messages and nobody to read them only if its
\* last service ended in an error.
StrandedOnlyAfterError ==
  \A r \in Ring : backlog[r] > 0 => Pending(r) \/ aborted[r]

\* "Submit work items for all configured rings": no ring with data is ever
\* left without a work item to serve it.
NoneStranded == \A r \in Ring : backlog[r] > 0 => Pending(r)

\* A ring with messages is drained, or an error has ended its service.
DrainedUnlessAborted ==
  \A r \in Ring : backlog[r] > 0 ~> backlog[r] = 0 \/ aborted[r]

\* "Checks for more data after processing": messages in a ring are read.
Drained == \A r \in Ring : backlog[r] > 0 ~> backlog[r] = 0
=============================================================================
