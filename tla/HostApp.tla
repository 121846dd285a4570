------------------------------ MODULE HostApp ------------------------------
(***************************************************************************)
(* The host application around the ring service: start-up, the reset       *)
(* command, and the burst test, on Zephyr and on FreeRTOS.  One thread,    *)
(* main or the shell, starts the service, gives commands and sends; burst  *)
(* threads send beside it; each initialisation brings a work queue with a  *)
(* thread of its own, which drains the ring.  What ring_send and ring_recv *)
(* do while they hold a lock is RingTx and RingRx; here it is one step,    *)
(* which may fail.                                                         *)
(***************************************************************************)
EXTENDS Integers, FiniteSets

CONSTANTS
  Burst,       \* burst threads
  Shell,       \* main on Zephyr while it starts, then the shell's thread
  None,        \* no owner
  MaxGen,      \* bound: initialisations of the ring service
  MaxCommands, \* bound: commands given
  MaxPackets,  \* bound: packets the limit of a burst allows
  MaxRetries,  \* how often Zephyr's burst repeats a packet
  MaxMessages  \* bound: messages the slave sends

Sender == Burst \cup {Shell}
Gen == 0 .. MaxGen

ASSUME HostAppAssumption ==
  /\ Shell \notin Burst /\ None \notin Sender \cup Gen
  /\ MaxGen \in Nat \ {0} /\ MaxCommands \in Nat
  /\ MaxPackets \in Nat \ {0} /\ MaxMessages \in Nat /\ MaxRetries \in Nat

VARIABLES
  os,        \* "zephyr" or "freertos"
  shell,     \* what the shell's thread does next
  booting,   \* start-up has not ended
  service,   \* g_ring_service.initialized
  callback,  \* a callback is registered
  gen,       \* initialisations so far: which mutexes and work queue are current
  lock,      \* lock[g]: tx_lock created by initialisation g, owner and lock count
  irqOn,     \* the interrupt of the slave is enabled
  irq,       \* an edge of the slave is latched
  slaveUp,   \* the slave has booted and set RING_STATUS_INITIALIZED
  backlog,   \* messages of the slave in the ring
  work,      \* work queues that hold an item, by their initialisation
  drain,     \* work queue threads inside the callback
  rxLock,    \* rxLock[g]: rx_lock created by initialisation g, and which thread has it
  recv,      \* recv[g]: what thread g found in the ring while it has rx_lock: "data",
             \* "none" or a "fault"; "out" while it has not
  send,      \* send[t]: where t is in ring_send, "idle" outside
  handle,    \* handle[t]: the mutex t's ring_send locks
  burst,     \* burst[b]: "none", "loop", "failing" (its data's last packet failed),
             \* "again" (a packet is to be repeated) or "done" (limit reached or
             \* stopped)
  sent,      \* sent[b]: packets that count for the limit
  retries,   \* retries[b]: repetitions of the packet
  running,   \* burst_params.running
  data,      \* burst_params.mode: the limit is an amount of data
  count,     \* burst_params: packets that reach the limit, also that of time
  completion,\* burst_params.completion_sem
  commands,  \* commands given
  produced,  \* messages sent by the slave
  missed,    \* history: the last interrupt of the backlog led to no work
  failed,    \* history: the last work for the backlog ended on an error
  aborted,   \* history: a burst thread was aborted inside ring_send
  renewed,   \* history: mutexes were created anew while one was in use
  torn       \* history: the slave or the service was restarted inside a read

serviceVars == <<service, callback, gen, lock>>
slaveVars == <<irqOn, irq, slaveUp, backlog, produced, missed, failed>>
rxVars == <<rxLock, recv>>
workVars == <<work, drain, rxVars>>
sendVars == <<send, handle>>
burstVars == <<burst, sent, retries, running, data, count, completion>>
historyVars == <<aborted, renewed, torn>>
vars == <<os, shell, booting, serviceVars, slaveVars, workVars, sendVars, burstVars,
          commands, historyVars>>

Free == [owner |-> None, depth |-> 0]
ShellSteps == {"toggle", "deinit", "init", "enable", "callback", "up", "waiting"}

\* Values, the shell's step with what it has to wait for, and lock counts that
\* go with their owners.
TypeOK ==
  /\ os \in {"zephyr", "freertos"} /\ shell \in ShellSteps /\ booting \in BOOLEAN
  /\ send[Shell] # "idle" => shell = "up"
  /\ shell = "waiting" => os = "zephyr"
  /\ service \in BOOLEAN /\ callback \in BOOLEAN /\ gen \in Gen
  /\ service => gen > 0
  /\ lock \in [Gen -> [owner : Sender \cup {None}, depth : 0 .. MaxCommands + 1]]
  /\ \A g \in Gen : lock[g].owner = None <=> lock[g].depth = 0
  /\ irqOn \in BOOLEAN /\ irq \in BOOLEAN /\ slaveUp \in BOOLEAN
  /\ backlog \in 0 .. MaxMessages /\ produced \in 0 .. MaxMessages
  /\ ~ slaveUp => backlog = 0
  /\ work \subseteq Gen /\ drain \subseteq Gen
  /\ rxLock \in [Gen -> Gen \cup {None}]
  /\ recv \in [Gen -> {"out", "data", "none", "fault"}]
  /\ send \in [Sender -> {"idle", "lock", "critical"}]
  /\ handle \in [Sender -> Gen]
  /\ burst \in [Burst -> {"none", "loop", "failing", "again", "done"}]
  /\ \A b \in Burst : burst[b] # "loop" => send[b] = "idle"
  /\ sent \in [Burst -> 0 .. MaxPackets] /\ retries \in [Burst -> 0 .. MaxRetries]
  /\ running \in BOOLEAN /\ data \in BOOLEAN
  /\ count \in 0 .. MaxPackets /\ completion \in BOOLEAN
  /\ commands \in 0 .. MaxCommands
  /\ missed \in BOOLEAN /\ failed \in BOOLEAN
  /\ aborted \in BOOLEAN /\ renewed \in BOOLEAN /\ torn \in BOOLEAN

\* The slave may have booted before the host.
Init ==
  /\ os \in {"zephyr", "freertos"}
  /\ shell = IF os = "zephyr" THEN "init" ELSE "toggle"
  /\ booting = TRUE
  /\ service = FALSE /\ callback = FALSE
  /\ gen = 0 /\ lock = [g \in Gen |-> Free]
  /\ irqOn = (os = "freertos") /\ irq = FALSE
  /\ slaveUp \in BOOLEAN /\ backlog = 0
  /\ work = {} /\ drain = {}
  /\ rxLock = [g \in Gen |-> None] /\ recv = [g \in Gen |-> "out"]
  /\ send = [t \in Sender |-> "idle"] /\ handle = [t \in Sender |-> 0]
  /\ burst = [b \in Burst |-> "none"] /\ sent = [b \in Burst |-> 0]
  /\ retries = [b \in Burst |-> 0]
  /\ running = FALSE /\ data = FALSE /\ count = 0 /\ completion = FALSE
  /\ commands = 0 /\ produced = 0
  /\ missed = FALSE /\ failed = FALSE
  /\ aborted = FALSE /\ renewed = FALSE /\ torn = FALSE

-----------------------------------------------------------------------------
(* Start-up and reset.                                                     *)

Step(from, to) == shell = from /\ shell' = to

Reading == \E g \in Gen : recv[g] # "out"

\* Mutant: what the slave sent before the reset stays in the ring.
ToggleChipKeepsRing ==
  /\ Step("toggle", "deinit")
  /\ irqOn' = FALSE
  /\ slaveUp' = FALSE /\ UNCHANGED backlog /\ missed' = FALSE /\ failed' = FALSE
  /\ torn' = (torn \/ Reading)
  /\ UNCHANGED <<os, booting, serviceVars, irq, produced, workVars, sendVars, burstVars,
                 commands, aborted, renewed>>

\* qcc730_reset: the interrupt is disabled and the chip restarted.
ToggleChip ==
  /\ Step("toggle", "deinit")
  /\ irqOn' = FALSE
  /\ slaveUp' = FALSE /\ backlog' = 0 /\ missed' = FALSE /\ failed' = FALSE
  /\ torn' = (torn \/ Reading)
  /\ UNCHANGED <<os, booting, serviceVars, irq, produced, workVars, sendVars, burstVars,
                 commands, aborted, renewed>>

\* The callback stays registered.
ring_service_deinit ==
  /\ Step("deinit", "init")
  /\ service' = FALSE
  /\ UNCHANGED <<os, booting, callback, gen, lock, slaveVars, workVars, sendVars,
                 burstVars, commands, historyVars>>

InUse ==
  \/ drain # {} \/ Reading
  \/ \E t \in Sender : send[t] # "idle"

\* ring_service_host_init creates mutexes, a work queue and its thread; the old
\* ones stay as they are.
CreateObjects ==
  /\ gen < MaxGen
  /\ gen' = gen + 1
  /\ renewed' = (renewed \/ InUse)
  /\ torn' = (torn \/ Reading)

\* On FreeRTOS a failure starts the reset again, on Zephyr it is only logged.
init_qring ==
  /\ shell = "init"
  /\ \/ /\ slaveUp
        /\ CreateObjects
        /\ service' = TRUE
        /\ shell' = IF os = "zephyr" THEN "callback" ELSE "enable"
     \/ /\ \/ slaveUp /\ gen + 1 < MaxGen /\ CreateObjects
           \/ UNCHANGED <<gen, renewed, torn>>
        /\ UNCHANGED service
        /\ shell' = IF os = "zephyr" THEN "callback" ELSE "toggle"
  /\ UNCHANGED <<os, booting, callback, lock, slaveVars, workVars, sendVars,
                 burstVars, commands, aborted>>

\* FreeRTOS: the end of qcc730_reset; an edge latched meanwhile is served.
EnableIrq ==
  /\ os = "freertos"
  /\ Step("enable", IF booting THEN "callback" ELSE "up")
  /\ irqOn' = TRUE
  /\ UNCHANGED <<os, booting, serviceVars, irq, slaveUp, backlog, produced, missed,
                 failed, workVars, sendVars, burstVars, commands, historyVars>>

ring_register_callback ==
  /\ Step("callback", IF os = "zephyr" THEN "enable" ELSE "up")
  /\ callback' = service
  /\ booting' = (os = "zephyr")
  /\ UNCHANGED <<os, service, gen, lock, slaveVars, workVars, sendVars, burstVars,
                 commands, historyVars>>

\* Zephyr: rising edges count from here on.
ConfigureInterrupt ==
  /\ os = "zephyr"
  /\ Step("enable", "up")
  /\ irqOn' = TRUE /\ booting' = FALSE
  /\ UNCHANGED <<os, serviceVars, irq, slaveUp, backlog, produced, missed, failed,
                 workVars, sendVars, burstVars, commands, historyVars>>

-----------------------------------------------------------------------------
(* The slave, the interrupt and the work queues' threads.                  *)

SlaveBoots ==
  /\ ~ slaveUp
  /\ slaveUp' = TRUE
  /\ UNCHANGED <<os, shell, booting, serviceVars, irqOn, irq, backlog, produced, missed,
                 failed, workVars, sendVars, burstVars, commands, historyVars>>

\* An edge is latched on FreeRTOS also while the interrupt is disabled.
SlaveSends ==
  /\ slaveUp /\ produced < MaxMessages
  /\ produced' = produced + 1 /\ backlog' = backlog + 1
  /\ IF os = "freertos" \/ irqOn
       THEN irq' = TRUE /\ UNCHANGED missed
       ELSE missed' = TRUE /\ UNCHANGED irq
  /\ UNCHANGED <<os, shell, booting, serviceVars, irqOn, slaveUp, failed, workVars,
                 sendVars, burstVars, commands, historyVars>>

ring_rx_handler ==
  /\ irq /\ irqOn
  /\ irq' = FALSE
  /\ work' = IF service /\ callback THEN work \cup {gen} ELSE work
  /\ missed' = ~ (service /\ callback)
  /\ failed' = FALSE
  /\ UNCHANGED <<os, shell, booting, serviceVars, irqOn, slaveUp, backlog, produced,
                 drain, rxVars, sendVars, burstVars, commands, historyVars>>

\* Mutant: the ring is read also when rx_lock was not to be had.
LockRxAnyway(g) ==
  /\ rxLock' = [rxLock EXCEPT ![gen] = g]
  /\ \E found \in {IF backlog > 0 THEN "data" ELSE "none", "fault"} :
       recv' = [recv EXCEPT ![g] = found]

\* The ring is read while rx_lock is held: ring_get_rx_available and ring_recv.
\* It fails when the link does, when the descriptor is not valid, and when the
\* shell, whose status command takes rx_lock for a moment, has the lock.
LockRxAndRead(g) ==
  /\ rxLock[gen] = None
  /\ rxLock' = [rxLock EXCEPT ![gen] = g]
  /\ \E found \in {IF backlog > 0 THEN "data" ELSE "none", "fault"} :
       recv' = [recv EXCEPT ![g] = found]

\* Mutant: the handler does not wait for rx_lock.
HandlerGivesUp(g) ==
  /\ g \in work \ drain /\ recv[g] = "out"
  /\ work' = work \ {g}
  /\ IF g = gen /\ service /\ rxLock[gen] = None THEN LockRxAndRead(g)
                                               ELSE UNCHANGED rxVars
  /\ UNCHANGED <<os, shell, booting, serviceVars, slaveVars, drain, sendVars, burstVars,
                 commands, historyVars>>

\* An item of an earlier initialisation is not recognised.  The handler waits for
\* rx_lock for as long as it takes.
rx_work_handler(g) ==
  /\ g \in work \ drain /\ recv[g] = "out"
  /\ work' = work \ {g}
  /\ IF g = gen /\ service THEN LockRxAndRead(g) ELSE UNCHANGED rxVars
  /\ UNCHANGED <<os, shell, booting, serviceVars, slaveVars, drain, sendVars, burstVars,
                 commands, historyVars>>

\* One ring_recv of the callback's loop, which does not wait for rx_lock: the loop
\* ends when the lock is taken or the service down.  Of the reads that fail some
\* have taken the message.
ring_host_rx_callback(g) ==
  /\ g \in drain /\ recv[g] = "out"
  /\ \/ /\ service /\ LockRxAndRead(g)
        /\ backlog' \in {backlog, backlog - 1} \cap Nat
        /\ recv'[g] = "data" => backlog' < backlog
        /\ UNCHANGED drain
     \/ /\ ~ service \/ rxLock[gen] # None
        /\ drain' = drain \ {g}
        /\ UNCHANGED <<backlog, rxVars>>
  /\ UNCHANGED <<os, shell, booting, serviceVars, irqOn, irq, slaveUp, produced, missed,
                 failed, work, sendVars, burstVars, commands, historyVars>>

\* The rx_lock given back is the one current then.  With data the handler calls the
\* callback and the callback reads on; it leaves its loop on any other result.
UnlockRx(g) ==
  /\ recv[g] # "out"
  /\ rxLock' = [rxLock EXCEPT ![gen] = None]
  /\ recv' = [recv EXCEPT ![g] = "out"]
  /\ drain' = IF recv[g] = "data" /\ callback THEN drain \cup {g} ELSE drain \ {g}
  /\ failed' = (failed \/ (recv[g] = "fault" /\ gen \notin work))
  /\ UNCHANGED <<os, shell, booting, serviceVars, irqOn, irq, slaveUp, backlog, produced,
                 missed, work, sendVars, burstVars, commands, historyVars>>

-----------------------------------------------------------------------------
(* ring_send, seen from its callers: the lock it takes is the one current  *)
(* when it begins, the lock it gives back the one current when it ends.    *)

BeginSend(t) ==
  /\ send' = [send EXCEPT ![t] = "lock"]
  /\ handle' = [handle EXCEPT ![t] = gen]

\* Mutant: a failed packet counts in no mode.
CountedIfSent(b, ok) ==
  /\ sent' = IF ok THEN [sent EXCEPT ![b] = @ + 1] ELSE sent
  /\ burst' = [burst EXCEPT ![b] = "loop"]

\* Towards an amount of data only packets that were sent count.
Counted(b, ok) ==
  IF ok \/ ~ data
    THEN sent' = [sent EXCEPT ![b] = @ + 1] /\ burst' = [burst EXCEPT ![b] = "loop"]
    ELSE burst' = [burst EXCEPT ![b] = "failing"] /\ UNCHANGED sent

\* -EAGAIN on Zephyr.
Repeated(b, ok) ==
  /\ os = "zephyr" /\ ~ ok /\ retries[b] < MaxRetries
  /\ retries' = [retries EXCEPT ![b] = @ + 1]
  /\ burst' = [burst EXCEPT ![b] = "again"]
  /\ UNCHANGED sent

EndSend(t, ok) ==
  /\ send' = [send EXCEPT ![t] = "idle"]
  /\ \/ t = Shell /\ UNCHANGED <<sent, burst, retries>>
     \/ t # Shell /\ Counted(t, ok) /\ UNCHANGED retries
     \/ t # Shell /\ Repeated(t, ok)

\* A Zephyr mutex may be locked again by its owner.
Lockable(t) ==
  \/ lock[handle[t]].owner = None
  \/ os = "zephyr" /\ lock[handle[t]].owner = t

LockTx(t) ==
  /\ send[t] = "lock" /\ Lockable(t)
  /\ lock' = [lock EXCEPT ![handle[t]] = [owner |-> t, depth |-> @.depth + 1]]
  /\ send' = [send EXCEPT ![t] = "critical"]
  /\ UNCHANGED <<os, shell, booting, service, callback, gen, slaveVars, workVars, handle,
                 burstVars, commands, historyVars>>

\* Every sender waits for the lock for a limited time.
LockTxTimeout(t) ==
  /\ send[t] = "lock" /\ ~ Lockable(t)
  /\ EndSend(t, FALSE)
  /\ UNCHANGED <<os, shell, booting, serviceVars, slaveVars, workVars, handle, running, data,
                 count, completion, commands, historyVars>>

\* Mutant: ring_send returns without giving the lock back.
UnlockMissing(t) == UNCHANGED lock

\* FreeRTOS gives a mutex back whoever holds it, Zephyr only the owner's, once.
Unlock(t) ==
  LET l == lock[gen]
  IN  lock' = [lock EXCEPT ![gen] =
        CASE os = "freertos" -> Free
          [] os = "zephyr" /\ l.owner # t -> l
          [] OTHER -> IF l.depth = 1 THEN Free ELSE [l EXCEPT !.depth = l.depth - 1]]

UnlockTx(t) ==
  /\ send[t] = "critical"
  /\ Unlock(t)
  /\ \E ok \in BOOLEAN : EndSend(t, ok)
  /\ UNCHANGED <<os, shell, booting, service, callback, gen, slaveVars, workVars, handle, running,
                 data, count, completion, commands, historyVars>>

-----------------------------------------------------------------------------
(* The burst threads.                                                      *)

Looping(b) == burst[b] \in {"loop", "failing"} /\ send[b] = "idle"

\* Both limits are read anew for every packet.
BurstSends(b) ==
  /\ Looping(b)
  /\ running /\ sent[b] < count
  /\ IF service
       THEN BeginSend(b) /\ burst' = [burst EXCEPT ![b] = "loop"] /\ UNCHANGED sent
       ELSE Counted(b, FALSE) /\ UNCHANGED sendVars
  /\ retries' = [retries EXCEPT ![b] = 0]
  /\ UNCHANGED <<os, shell, booting, serviceVars, slaveVars, workVars, running, data, count,
                 completion, commands, historyVars>>

\* A repetition asks neither limit.
BurstRepeats(b) ==
  /\ burst[b] = "again" /\ send[b] = "idle"
  /\ BeginSend(b)
  /\ burst' = [burst EXCEPT ![b] = "loop"]
  /\ UNCHANGED <<os, shell, booting, serviceVars, slaveVars, workVars, sent, retries,
                 running, data, count, completion, commands, historyVars>>

BurstStops(b) ==
  /\ Looping(b)
  /\ ~ running \/ sent[b] >= count
  /\ burst' = [burst EXCEPT ![b] = "done"]
  /\ UNCHANGED <<os, shell, booting, serviceVars, slaveVars, workVars, sendVars, sent, retries, running,
                 data, count, completion, commands, historyVars>>

\* FreeRTOS: no memory for the packet.
BurstWithoutBuffer(b) ==
  /\ os = "freertos" /\ burst[b] = "loop" /\ send[b] = "idle" /\ sent[b] = 0
  /\ burst' = [burst EXCEPT ![b] = "none"]
  /\ running' = FALSE
  /\ UNCHANGED <<os, shell, booting, serviceVars, slaveVars, workVars, sendVars, sent, retries, data,
                 count, completion, commands, historyVars>>

\* The results are printed before running is cleared, and on Zephyr the shell woken.
BurstEnds(b) ==
  /\ burst[b] = "done"
  /\ burst' = [burst EXCEPT ![b] = "none"]
  /\ running' = FALSE
  /\ completion' = (os = "zephyr")
  /\ UNCHANGED <<os, shell, booting, serviceVars, slaveVars, workVars, sendVars, sent, retries, data,
                 count, commands, historyVars>>

-----------------------------------------------------------------------------
(* Commands.                                                               *)

Command ==
  /\ shell = "up" /\ send[Shell] = "idle"
  /\ commands < MaxCommands
  /\ commands' = commands + 1

Send ==
  /\ Command
  /\ service
  /\ BeginSend(Shell)
  /\ UNCHANGED <<os, shell, booting, serviceVars, slaveVars, workVars, burstVars, historyVars>>

\* A string, hexadecimal digits or a pattern.
cmd_ring_send == os = "zephyr" /\ Send
ring_send_cmd == os = "freertos" /\ Send

StartBurst(b) ==
  /\ burst[b] = "none"
  /\ burst' = [burst EXCEPT ![b] = "loop"]
  /\ sent' = [sent EXCEPT ![b] = 0]
  /\ running' = TRUE

\* One burst at a time; a packet count or a time.
SetParameters ==
  /\ Command
  /\ ~ running
  /\ count' \in 1 .. MaxPackets
  /\ UNCHANGED <<os, booting, serviceVars, slaveVars, workVars, sendVars, retries,
                 historyVars>>

\* There is one thread object for bursts; the shell waits for it.
cmd_ring_send_burst ==
  /\ os = "zephyr"
  /\ SetParameters
  /\ completion' = FALSE
  /\ StartBurst(CHOOSE b \in Burst : TRUE)
  /\ shell' = "waiting"
  /\ UNCHANGED data

\* Each burst gets a task of its own, if there is memory; the shell goes on.
ring_send_burst ==
  /\ os = "freertos"
  /\ SetParameters
  /\ data' \in BOOLEAN
  /\ \/ \E b \in Burst : StartBurst(b)
     \/ UNCHANGED <<burst, sent, running>>
  /\ UNCHANGED <<shell, completion>>

BurstCompleted ==
  /\ Step("waiting", "up")
  /\ completion
  /\ completion' = FALSE
  /\ UNCHANGED <<os, booting, serviceVars, slaveVars, workVars, sendVars, burst, sent, retries, running,
                 data, count, commands, historyVars>>

\* The wait has a limit; the thread is aborted where it is.
BurstAborted ==
  /\ Step("waiting", "up")
  /\ ~ completion
  /\ running' = FALSE
  /\ aborted' = (aborted \/ \E b \in Burst : send[b] = "critical")
  /\ burst' = [b \in Burst |-> "none"]
  /\ send' = [t \in Sender |-> IF t \in Burst THEN "idle" ELSE send[t]]
  /\ UNCHANGED <<os, booting, serviceVars, slaveVars, workVars, handle, sent, retries, data, count,
                 completion, commands, renewed, torn>>

\* ring_burst stop clears running and then waits while running is set.
StopCommand ==
  /\ Command
  /\ os = "freertos" /\ running
  /\ running' = FALSE
  /\ UNCHANGED <<os, shell, booting, serviceVars, slaveVars, workVars, sendVars, burst, sent, retries,
                 data, count, completion, historyVars>>

cmd_qcspi_reset ==
  /\ Command
  /\ os = "freertos" /\ gen < MaxGen
  /\ shell' = "toggle"
  /\ UNCHANGED <<os, booting, serviceVars, slaveVars, workVars, sendVars, burstVars,
                 historyVars>>

-----------------------------------------------------------------------------

ShellStep ==
  \/ ToggleChip \/ ring_service_deinit \/ init_qring \/ EnableIrq
  \/ ring_register_callback \/ ConfigureInterrupt
  \/ BurstCompleted \/ BurstAborted
  \/ LockTx(Shell) \/ LockTxTimeout(Shell) \/ UnlockTx(Shell)

BurstStep(b) ==
  \/ BurstSends(b) \/ BurstRepeats(b) \/ BurstStops(b) \/ BurstWithoutBuffer(b) \/ BurstEnds(b)
  \/ LockTx(b) \/ LockTxTimeout(b) \/ UnlockTx(b)

WorkStep(g) == rx_work_handler(g) \/ ring_host_rx_callback(g) \/ UnlockRx(g)

Next ==
  \/ ShellStep
  \/ cmd_ring_send \/ ring_send_cmd
  \/ cmd_ring_send_burst \/ ring_send_burst \/ StopCommand \/ cmd_qcspi_reset
  \/ \E b \in Burst : BurstStep(b)
  \/ SlaveBoots \/ SlaveSends \/ ring_rx_handler
  \/ \E g \in Gen : WorkStep(g)

Spec == Init /\ [][Next]_vars

\* Every thread that can run does, interrupts are served, and a reset that can
\* succeed does not fail for ever.
Fairness ==
  /\ WF_vars(ShellStep) /\ SF_vars(init_qring /\ service')
  /\ WF_vars(ring_rx_handler)
  /\ \A b \in Burst : WF_vars(BurstStep(b))
  /\ \A g \in Gen : WF_vars(WorkStep(g))

FairSpec == Spec /\ Fairness

-----------------------------------------------------------------------------
(* Properties.                                                             *)

\* One thread at a time is in the part of ring_send that tx_lock guards, and one
\* in the callback with its one receive buffer, unless a reset created the
\* mutexes and the work queue anew while somebody used them; and one thread at a
\* time reads the ring, also when the threads of two initialisations drain it,
\* unless the restart came inside a read.
Serialised ==
  /\ ~ renewed => /\ Cardinality({t \in Sender : send[t] = "critical"}) <= 1
                  /\ Cardinality(drain) <= 1
  /\ ~ torn => Cardinality({g \in Gen : recv[g] # "out"}) <= 1

\* The owner of tx_lock is about to give it back, unless a burst was aborted
\* inside ring_send, after which nobody gets the lock any more.
LockHasLivingOwner ==
  LET t == lock[gen].owner IN t # None => send[t] = "critical" \/ aborted

\* A message the slave announced is read, whatever the order of start-up, reset
\* and commands, unless its edge came before the interrupt was enabled (Zephyr) or
\* its interrupt before the callback was registered (FreeRTOS), or unless the work
\* its last interrupt led to ended on a failed read, or a restart came inside one.
\* That the threads of two initialisations drain the ring after a reset, and the
\* loop of one ends because the other has rx_lock, is no excuse.
MessagesRead == backlog > 0 ~> backlog = 0 \/ missed \/ failed \/ torn

\* A burst ends, also when its packets fail, when it is stopped and when another
\* one changes its parameters; only a burst of an amount of data goes on for as
\* long as its packets fail.
BurstTerminates ==
  \A b \in Burst : burst[b] # "none" ~> burst[b] \in {"none", "failing"}
=============================================================================
