# A TLA+ model of the QCC730 host and device applications

This directory keeps the formal models of `le_qzephyr_qoss_qapp`: the host side
of the QCSPI link and its message rings with the application around them
(`src/qcspi_app/`), the firmware upgrade service (`src/common/mcumgr_qcom/`) and
the sleep of the device (`src/common/pm_service/`, `src/common/shell/`). TLC checks small instances; TLAPS
proves the theorems listed below for every value of the constants. Every
definition that stands for code is listed with its lines in `PROJECT.json`
("map").

## 1. Inventory

| Component | State | Operations | Hard behaviour | What makes it correct |
|---|---|---|---|---|
| Ring service, transmit (`ring_service_host.c` 293-427) | `tx_lock`, cached indices `ctrl_cache`, control block, descriptors and buffers in slave memory | `ring_send`, `ring_get_tx_available` | several threads; every access is a transfer that may fail; cached indices; the slave works at the same time | no published slot overwritten; FIFO; the lock always released; a message sent is delivered |
| Ring service, receive (434-591) | `rx_lock`, `rx_sem`, cached indices | `ring_recv`, `ring_get_rx_available` | lock released during the wait; one token for any number of messages; failing index update | no message lost in the ring, doubled or reordered; no lost wake-up; an empty ring is no error |
| Notification (`ring_rx_handler`, `rx_work_handler`, application callback, OS work queues) | latched edge, work queue, the callback's loop | interrupt, submit, drain | one interrupt for all rings; item already queued or running; queue full; lock contention with the shell | unread messages always have somebody who will look at them |
| Ring initialisation (596-760) | `g_ring_service`; mutexes, work queue and its thread, made anew by each initialisation | init, register callback, deinit | retry until the slave's magic appears; callbacks registered after interrupts are on; objects in use replaced | no message from before registration is forgotten; one user of each object at a time |
| QCSPI driver (`qcspi_driver.c`) | `qcspi_mutex`, slave registers | read, write, interrupt, reset, init | a frame is two transfers under one chip select; lengths programmed separately; busy polling; read-modify-write of partial words and of the interrupt register | frames whole; mutex released; neighbours of unaligned data kept; an interrupt request not lost |
| QCSPI transport, OS layer, STM32 platform | initialised flags | pass-through | differences of the two OS ports | as their users need |
| Host applications, Zephyr and FreeRTOS | `burst_params`, burst threads, completion semaphore | start-up, callback, send commands, burst test and its stop, reset | reset while the work queue runs; a burst aborted after a timeout; bursts that overlap | nothing stranded; `tx_lock` always comes back; bursts end |
| Slave application | none | draining callback | send result ignored | received data echoed |
| Firmware upgrade session (`fw_upgrade.c`) | session context, download counters, partition handle | init, process, finish, done | chunk boundaries anywhere; retransmission; errors part way; power loss between flash writes | only a complete and verified image becomes trial; every state boots |
| Firmware descriptor table (`fw_upgrade_mem.c`, `flash_adapter.c`) | three descriptors in flash, boot records | select, accept, reject trial; set status | write order against power loss; bits only change from erased | some valid firmware to boot; ranks order the images |
| MCUmgr image group (`qcom_img_mgmt.c`) | upload offset | upload, erase, state | duplicated and lost packets | every byte written once and in order |
| PM timer service (`pm_timer.c`) | list of managed timers with what was saved of them, hash table of default tasks, whether they are suspended | register, unregister, the hooks before and after sleep, the service timer's callback | threads and interrupts run between the two hooks; names that share a hash slot | what was stopped or suspended for sleep comes back as it was; what was not is left alone |
| Power commands (`qpower_shell.c`, `qbmps_shell.c`) | count of sleep locks, `slp_count`, two timers | `s2ram`, `bmps_enable`, set and clear busy, stop all timers | a lock is checked in one step and put in another; timers' callbacks take and put locks meanwhile | locks taken and put balance; sleep is allowed again |
| Other shells, small applications, patches, test scripts | parsing only | - | - | not modelled |

Calls go down: application -> ring service -> transport -> driver -> SPI. Events
go up: GPIO interrupt -> `ring_rx_handler` (gives `rx_sem`, submits a work item
per ring) -> work queue thread -> application callback -> `ring_recv`. The host
and the slave share only the slave's memory and one interrupt line each way.

Firmware upgrade runs on the device, apart from the link: an MCUmgr request ->
`qcom_img_mgmt_upload` (which part of the packet is new) -> session (state
machine over the bytes) -> descriptor table and flash. The boot loader, which is
not in this repository, reads the table and leaves a boot record.

Sleep is apart from both: when no thread is ready the idle thread runs the hook
before sleep, sleeps or waits, and runs the hook after. Interrupts, and threads
they wake, run between the hooks, in the middle of a shell command too.

## 2. Modules

| Module | Models | Correspondence |
|---|---|---|
| `RingIndex` | the index arithmetic of a ring | `NextIdx`, `TxAvail`, `RxAvail` are the code's expressions, with their wrap-around branches |
| `RingChannel` | abstract: a bounded FIFO | what either direction of a ring promises |
| `RingTx` | `ring_send` in `Thread`, slave draining | `pc` is the next transfer or lock operation; `c_wr`, `c_rd` the cache; `r_wr`, `r_rd`, `desc`, `buf` slave memory; each transfer has a success and a failure action, and a failed write may or may not have reached the slave |
| `RingRx`, `MCRingRx` | `ring_recv` with all timeouts, `ring_get_rx_available`, the slave sending | likewise, with `rx_sem`, the interrupt, and a buffer that may be too short |
| `RingNotify` | interrupt, the two ports' work queues, `rx_work_handler`, the callback's loop, `cmd_ring_status` | a ring is its number of unread messages; a step of the callback is one call that takes `rx_lock` |
| `QcspiAlign` | splitting an unaligned range into word accesses | `ReadPlan`, `WritePlan` list the accesses the code makes |
| `QcspiDriver`, `MCQcspi` | driver calls of several threads, transfer by transfer, with polling, the length register and the interrupt register | `owner` is `qcspi_mutex`, `cs` the chip select a header leaves low, `todo` the accesses left, `buf` the `data_buf` of a write; a byte of memory tells who wrote it, in which call and for which address |
| `FwStore` | abstract: a confirmed, a staged and a running firmware | what an upgrade promises |
| `FwLayout` | where `fw_upgrade_select_trial_fwd` puts an image set | the code's expressions, in blocks |
| `FwTable` | the descriptors in flash, their searches, accepting, rejecting, erasing, booting | `fwd` is what the first three blocks hold, `flash` the rest, `active` and `boot_type` the boot record; an operation of several writes takes the number of writes done |
| `FwUpgrade`, `MCFwUpgrade` | the image group and the session over `FwTable` | `upload_off` is `upload_ctx.offset`, `session` the fields of `fw_upgrade_context_t`, `packet` the request being answered; an action is one turn of the loop in `fw_upgrade_session_process` |
| `HostApp`, `MCHostApp` | both host applications around the ring service: start-up, reset, commands, bursts, work queue threads | `shell` is the next step of main or the shell's thread; `gen` counts initialisations, `lock[g]` and `rxLock[g]` are the `tx_lock` and the `rx_lock` the g-th one made; `send[t]` says where t is in `ring_send`, whose inside is one step here and many in `RingTx`; `drain` are the work queue threads inside the callback, `recv[g]` what thread g found in the ring while it has `rx_lock`, and its loop ends on an error, a busy lock or no data as the code's does; `burst[b]` is where a burst thread is in its loop |
| `PmTimer`, `MCPmTimer` | the PM timer service and the power commands | `phase` says whether the system is between the hooks; `timer` is the kernel's timers, `saved` the fields of `pm_managed_timer`; a command takes a step per point where an interrupt may come between |
| `*Proofs` | theorems of the module they are named after | |

The slave's ring service is not in this repository. Its actions are modelled
from how the host and `qcc730_slave/src/main.c` use it, and marked external in
the map.

`RingTx` and `RingRx` stand on the driver as single transfers that succeed or
fail, which is what `QcspiDriver` shows of a write or an interrupt: whole frames, the
requested bytes and no others, a return in every case. Of a read it shows the frame
and the return; what it hands to its caller when its length register was not set, or
set anew by another reader, is not modelled, and `RingTx` and `RingRx` take a read
that succeeded to have delivered what is in memory. `RingNotify` stands on `RingRx`: one
`ring_recv` takes the oldest message or fails. `HostApp` stands on `RingTx` for
what happens under `tx_lock`, and on `RingRx` for what happens under `rx_lock`, and
asks which lock that is and who owns it.

What `HostApp` and `PmTimer` assume and abstract:

* A Zephyr mutex may be locked again by its owner and is only given back by it; a
  FreeRTOS mutex is given back by anybody. `ring_send` gives back `tx_lock` as it is when it ends, which
  after a reset is another one than it locked.
* A `ring_recv` or `ring_get_rx_available` of a work queue's thread takes the current
  `rx_lock`, finds data, nothing or a fault, and gives back what is current then. The
  work handler waits for the lock; the callback, with timeout 0, leaves its loop when
  the lock is taken, the service is down, or the read fails, and a failed read may have
  taken the message. Faults are those of the link, an invalid descriptor, and a lock
  that the shell's status command has for a moment (`NotifyStatusRace` is about the
  last one). What a read delivers when the slave or the service is restarted inside
  it is not modelled (`torn`).
* A burst of a number of packets, of a time or of an amount of data is a burst
  with a limit; packets that fail count towards the first two and not the third.
  When time reaches its limit is left open; a time is a number of packets.
* On FreeRTOS an edge is latched while the interrupt is disabled and served
  afterwards; on Zephyr rising edges count once they are configured.
* The idle thread runs when the shell's thread does not; the shell gives way only
  between its steps. All callers of `pm_timer_register` ask for `auto_restart`,
  so the branch without it is not modelled. That is so for the shell UART's timer
  too, although the comment above its registration (`pm_timer.c` 270-275) says that it
  is crucial to set `auto_restart` to false, and the one beside the argument says "no"
  (281): the call passes true, and the hook restarts that timer. The model follows the
  call, and no property takes a side: `WokenAsBefore` does not judge the UART's timer
  when the hook stopped it.
* Time passes in ticks for all timers at once, in sleep as well. What sleeps and
  how deep is the kernel's: asleep means that the hook before sleep suspended.

What `FwUpgrade` assumes of its surroundings and abstracts:

* Flash is counted in units, an erase block is `BlockUnits` of them. A cell is
  erased, spoilt, or holds a unit of a file: writing over a cell that is not
  erased spoils it, since a write only clears bits.
* A hash is "what was hashed is the beginning of this image in the header's
  file"; two files never have the same hash. A header put together from two
  files is recognised by the hash of its own.
* The first packet of a file holds at least the fixed part of the header, which
  the code reads without a check.
* Any flash operation of the session may fail, before or after its effect. So
  may the allocation of a session. Reads of descriptors do not fail.
* Power may go at any time: `Restart` is always enabled, and the delayed reset
  after an upload is one of its instances. A failed header frees its buffer, and
  the next packet then faults the processor (a `Restart`) or is refused.
* `zcbor_map_decode_bulk` returns 0 for success, which `qcom_img_mgmt.c` takes
  for failure in the confirm command (376-381) and the erase command (596-600).
  Accepting is therefore modelled as `fw_upgrade_session_done`, which an
  application calls, and erasing as erasing descriptor 1 whatever slot the
  request names.
* Erasing looks at nothing. With `CarefulErase` the operator erases descriptor
  1 only when it neither runs nor is confirmed and no upload has begun. Without
  it the confirmed firmware may be erased, which no document forbids.

## 3. Runs

| Run | Question | Bounds |
|---|---|---|
| `RingSend` | safety, liveness and refinement of sending with faults everywhere | 3 slots (2 usable), 4 sends, 2 threads, indices start at 2 |
| `RingReceive` | the same for receiving, in three settings: a worker beside a blocking reader with faults and one buffer too short; the applications' callers, which never block, on a working link, where an empty ring is no error, the count of available messages never too high and nothing wedges; and two readers that both wait, on a working link, of whom none is left beside a message as long as no interrupts coalesce | 3 slots, 4 messages, 4 calls |
| `RingRxEmptyError` | that an empty ring is no error, with a blocking reader: **violated** | 2 messages |
| `NotifyZephyr` | nothing is stranded except after an error, and everything else is drained | 3 rings of 2, 5 messages, shell and faults |
| `NotifyQueueFull` | the same property on FreeRTOS, where with two rings a full queue strands messages (with one it does not: `NoRingForgotten`): **violated** | the real queue of 16 |
| `NotifyStatusRace` | the status command strands messages: **violated** | 1 ring, 2 messages |
| `QcspiAligned` | two callers with word transfers, or one alone that writes one and six bytes at every alignment, with interrupts and faults: frames, mutex, interrupt, exactly the bytes asked, also after later calls, termination | 2 calls each, 3 of the two callers together, 3 polls, 12 bytes |
| `QcspiNopFrame` | unaligned write beside a read: **violated** | 12 bytes |
| `FwUpload` | uploads in pieces, repeated and mixed, with failures and resets: bootable images are whole, the image list the client reads is true to them, confirmed firmware and data survive, `FwUpgrade` implements `FwStore` | 14 blocks of 2 units, 2 files, header of 3 units, packets of at most 2, ranks to 2 |
| `FwAcceptUnrun` | only the running firmware may be accepted: **violated** | 1 file |
| `SleepWake` | sleep is quiet but for names lost in the hash table, what wakes is as it fell asleep and what was not stopped as its owner left it, the count of locks is sound, automatic sleep comes | 2 managed timers, times to 2 ticks, 2 commands, 1 change by an owner, 3 default tasks of which 2 share a slot |
| `HostApp` | both systems: at most one user of `tx_lock`, of the callback and of the ring, a lock's owner will return it, announced messages are read, bursts end | 2 bursts, 2 initialisations, 3 commands and messages together, of them 2 messages at most, up to 2 packets per burst, 1 repetition |

Why the bounds are enough. Three slots are the fewest with an empty, a partly
filled and a full ring; starting at slot 2 makes the indices wrap with the first
message, and four messages reuse slots, so every branch of the arithmetic is
taken in every relative position. Two threads produce every race for a lock. What the bounds leave
open for sending the proofs close: they hold for every ring size, number of
threads and number of calls. Of the writes of `QcspiAligned`, one byte at each offset is the
shortest range inside a word, and six bytes give, by offset, a whole word and a
partial one, a partial and a whole one, two partial ones, and a partial one at either
end of a whole one. Two calls let the second write beside or over what the
first one wrote. Every other length and address is the theorems'. Of the two callers' calls, three together let one of
them act between the two of the other. The queue of 16 is the code's.

The files of `FwUpload` have an image of length 0 (as the file system's is), one
that ends within its second block and one shorter than a packet. A header of 3
units and packets of 2 make a packet straddle the header and the first image;
overlaps cut packets to 1 unit, so that every unit is at some time first, last
and alone in a packet. Two files are enough to mix; they are interchangeable,
hence the symmetry. With ranks to 2 each layout sees a first upgrade, its
acceptance and a further upload, in which the roles of descriptors and file
systems are exchanged. Deadlock is checked.

`SleepWake` needs two ticks for a timer to be found running with part of its time
left, two commands for one to come while another's timer runs, and one
change by an owner between the hooks for the managed timers that change to be told
from those that do not. The colliding names are the code's own. `HostApp` needs two
initialisations for an object to be renewed while in use, three commands for a
burst, its stop and a second burst (or a burst, a send and a reset), two messages
for one to arrive while the other is drained, and three of both together (`MaxEvents`)
for a reset between or after two messages, which is what makes the old and the new
work queue's threads drain the ring at once. With up to 2 packets a later burst may
move the limit of an earlier one up or down; a packet is repeated 99 times by the
code and once here, which tells the first attempt from the last.

Deadlock checking is off in the runs where calls are bounded: after the last call the
system rests, rightly.

### What the violated runs show

* `RingRxEmptyError`: `rx_sem` may hold a token for data another reader took.
  `ring_recv` does not compute `avail` again after the wait, reads the cleared
  descriptor of an empty ring, counts an error and returns `-EINVAL`.
* `NotifyQueueFull`: the FreeRTOS work queue takes the same item repeatedly and
  `ring_rx_handler` ignores that a submission failed.
* `NotifyStatusRace`: the callback's timeout of 0 applies to `rx_lock` too.
  Sharing it with the shell makes it stop, without submitting itself again.
* `QcspiNopFrame`: the NOP of an unaligned write takes no mutex.
* `FwAcceptUnrun`: the boot record says "trial" until the next boot. After the
  running trial is accepted, a firmware uploaded next can be accepted too, and
  the running one becomes invalid, before the new one ever ran.

Also seen while modelling, in accordance with the code and contradicted by no
document: a `ring_send` whose index write failed returns an error, yet the next
call publishes its message; a reader of a stale token may pass the published
index; a descriptor clear reported failed although it arrived leaves the ring
refusing every later `ring_recv`; the transfer length of a read is programmed in
a critical section of its own and its failure only logged, so that a read may go out with
the length of another one; when that read was to complete a partial word, what it
delivered is written back, and bytes nobody asked to write may change (`spoilt` in
`NeighboursKept` and `OkIsWritten`); of two readers that wait in `ring_recv`, one is
left beside a message when two interrupts coalesce, as one interrupt is one token
(`Coalescing` in `NoLostWakeup`; no application waits).

Of the host applications: a reset makes new mutexes and a new work queue while
the old ones are in use, and leaks them (`renewed` in `Serialised`); a burst that
Zephyr's shell aborts inside `ring_send` leaves `tx_lock` locked (`aborted` in
`LockHasLivingOwner`), which no property forbids; a reset inside a read leaves the
ring read by two threads with the indices of two initialisations (`torn` in
`Serialised`); a work queue's thread that leaves on a failed read leaves its messages to
the next interrupt (`failed` in `MessagesRead`); a FreeRTOS burst of an amount of data goes on for as long
as its packets fail (`BurstTerminates` allows it); an edge before the interrupt is
enabled, or an interrupt before the callback is registered, leaves its message to
the next one (`missed` in `MessagesRead`). The limit of a time burst is 36000000 ms
where its message says 3600000 (`main.c` 914).

Of sleep: the service timer's interrupt between a command's check and its put makes
the count of locks negative, which counts as locked until the callbacks' locks
balance it (`raced` in `LockCountSound`); `slp_count` is assigned before the
arguments are checked; `s2ram` with time 0 leaves a timer of an earlier command
running; of "mcumgr smp" and "zperf_work_q", which share a hash slot, the first is
never suspended (`Overwritten` in `SleepIsQuiet`); a timer the hook stopped is set back
to what was saved, whatever its owner did with it meanwhile (`touched` in `WokenAsBefore`);
the UART's timer is restarted where the comment beside its registration forbids it.

## 4. Fairness

* `RingTx`, `RingRx`: weak fairness of each thread's steps within a call and of the
  slave or the interrupt: the schedulers are preemptive and each step ends by
  itself. No thread has to call again; so "delivered" relies on the interrupt
  raised, not on a later call.
* `RingNotify`: strong fairness of the work queue thread, because the shell may
  come back for the lock without end while the thread, at higher priority, gets
  its turn whenever the lock is free again. Weak fairness elsewhere.
* `QcspiDriver`: strong fairness of each thread's next step, as the mutexes of
  both OS ports queue their waiters. Nothing is assumed of the slave, which may stay busy for ever:
  calls return by the limit on polls.
* `PmTimer`: weak fairness of time, of the timers' callbacks (interrupts) and of a
  command that has begun; strong fairness of the two hooks, since the idle thread
  runs whenever the others rest, however often they come back. No command has to
  be given. `AutoSleepHappens` is for a system whose devices are not busy for ever.
* `HostApp`: weak fairness of the shell's thread within start-up, reset, a send
  and a wait, of each burst thread, of the interrupt and of each work queue's thread;
  and of a reset that begins again until the slave has booted, strong fairness of its
  success. No command has to be given and no message sent.
* `FwUpgrade` states no fairness: whether a client goes on with its upload is up
  to it. That each request is answered is not stated as a property.

## 5. Proofs

| Theorem | Statement |
|---|---|
| `RingIndexProofs!AvailIsModularDistance` | the branching formulas are distances modulo the ring size |
| `RingTxProofs!TypeCorrect` | type invariant |
| `RingTxProofs!IndexOrderHolds` | the four indices keep their order round the ring |
| `RingTxProofs!PublishedIntactHolds` | a published slot is not overwritten |
| `RingTxProofs!LockNotLeakedHolds` | `tx_lock` is released on every path |
| `RingTxProofs!SlaveCopyStableHolds` | a slot does not change while the slave copies it |
| `RingTxProofs!RingImplementsChannel` | `RingTx` implements `RingChannel` with capacity N - 1 |
| `RingTxProofs!OkIsVisibleHolds` | a send that returned success has its message where the slave looks |
| `RingRxProofs!TypeCorrect` | type invariant |
| `RingRxProofs!BacklogIntactHolds` | the slave never overwrites a message that was not consumed |
| `RingRxProofs!ReceiveImplementsChannel` | `RingRx` implements `RingChannel` with capacity N - 1 |
| `RingRxProofs!NotWedgedHolds` | on a working link no message is stuck behind a cleared descriptor |
| `RingRxProofs!AvailIsTrueWhenPolled` | `AvailIsTrue`, if nobody waits in `ring_recv` |
| `RingRxProofs!NoErrorWhenPolled` | `PollingFindsData`: `EmptyIsNoError`, if nobody waits and buffers are large enough |
| `RingNotifyProofs!TypeCorrect` | type invariant, with the queue's limit and no item queued twice on Zephyr |
| `RingNotifyProofs!NoRingForgotten` | `StrandedOnlyAfterError`, for any number of rings on Zephyr and one on FreeRTOS |
| `QcspiDriverProofs!PartsTileRange` | the word accesses tile the range |
| `QcspiDriverProofs!MutexNotLeakedHolds` | the mutex is held for the frames and released |
| `QcspiDriverProofs!FrameIntactHolds` | frames are whole, if no caller writes a partial word or there is one caller |
| `QcspiDriverProofs!DriverTypeOK` | type invariant: no poll beyond the limit, nothing outside slave memory |
| `QcspiDriverProofs!InterruptReachesSlaveHolds` | an interrupt reported as raised is served after its call began |
| `QcspiDriverProofs!NeighboursKeptHolds` | every byte of memory is the original one, or one that a call asked to write there wrote for that address, or in a word read with the wrong length, under the condition of `FrameIntactHolds` |
| `QcspiDriverProofs!OkIsWrittenHolds` | what a successful write wrote is in memory and stays there while its caller writes beside it, if also no two callers write to the same word |
| `FwUpgradeProofs!HalvesAreDisjoint` | with two descriptors the image regions are disjoint and in the flash |
| `FwUpgradeProofs!RegionsBesideGoldenAreDisjoint` | likewise with a golden firmware |
| `FwUpgradeProofs!FallbackKeptHolds` | there is a confirmed firmware at every moment, and no upload works on it |
| `FwUpgradeProofs!UpgradeTypeOK` | type invariant: offsets and counters keep to their image, file and flash |
| `FwUpgradeProofs!FsKeptHolds` | the running firmware keeps its data, and a firmware that waits for its trial has got it |
| `FwUpgradeProofs!BootableIsWholeHolds` | what can be booted is a file, whole, and the image list is true to it |
| `FwUpgradeProofs!ImplementsStoreHolds` | `FwUpgrade` implements `FwStore` |
| `PmTimerProofs!TypeCorrect` | type invariant of the sleep model |
| `PmTimerProofs!SleepIsQuietHolds` | nothing managed can wake the sleeping system; the default tasks that are suspended are all whose name was not overwritten |
| `PmTimerProofs!WokenAsBeforeHolds` | managed timers nobody touched, the UART's apart, are after sleep as they were before, and timers the hook did not stop as they are |
| `PmTimerProofs!LockCountSoundHolds` | the count of locks becomes negative only by the race above |
| `HostAppProofs!LockHasLivingOwnerHolds` | the owner of `tx_lock` is inside `ring_send`, or a burst was aborted there |
| `HostAppProofs!HostTypeOK` | type invariant, with the count of a lock and the states a sender may be in |
| `HostAppProofs!SerialisedHolds` | one thread in the guarded part of `ring_send` and one in the callback, unless a reset renewed objects in use; one thread reading the ring, unless a restart came inside a read |

Assumptions are the ones named in the modules (`IndexAssumption`,
`TxAssumption`, ...): sizes are positive, bounds are naturals, "nobody" is not a
thread, calls of the driver are for slave memory (`MemoryAssumption`). Those of the
upgrade say that a header has images, which follow one another, have ids of their
own and fit their blocks (`UpgradeAssumption`; the code refuses an image without
blocks or longer than them, `fw_upgrade.c` 558), and that the factory put its
partitions side by side, with two file systems of one size, and left room for a second
set (`FactoryAssumption`; the factory's table is written by a tool outside the
repository). TLC evaluates all of them on the runs' constants.

What the theorems exclude: `NoRingForgotten` excludes FreeRTOS with several rings;
`FrameIntactHolds` and the two theorems about the driver's bytes exclude partial-word
writes beside another caller (`Quiet`); `AvailIsTrueWhenPolled` and `NoErrorWhenPolled`
exclude callers that wait (`Polled`). The runs `NotifyQueueFull`, `QcspiNopFrame` and
`RingRxEmptyError` show that these exclusions cannot be dropped (a waiter that reads
past the published index also makes the available count wrong). The bytes of a word that was read, to be
completed, with another length set than its own are not vouched for (`spoilt`); that is
what the code risks when setting the length fails or another reader sets it, and
such runs are not excluded. What a
caller wrote may be overwritten by another one, hence `WritersApart`. The theorems about the
states of the upgrade assume `CarefulErase`; the proofs use it in one place, the
erase command.

*Ring.* `IndexOrder` alone is not inductive. The invariant adds who owns
the lock and what its owner's local index is (`OwnerInv`), where the slave stands
(`SlaveInv`), what every slot between the indices contains (`ContentInv`) and
that committed = received followed by the backlog (`FifoInv`). Distances round the
ring are rewritten as modular distances by `AvailIsModularDistance`, and each action
moves at most one index by one. The refinement needs in addition that
a call's message is not committed twice (`FreshInv`), and `OkIsVisible` that a call
about to interrupt the slave has its message visible (`VisibleInv`).

*Receive.* What counts is the slot after the last valid descriptor (`Filled`), which
is one ahead of the published write index while the slave has yet to move it. The
backlog is the distance from the cached read index to `Filled`, and the slave's copy
of the read index lies behind (`OrderInv`); valid descriptors belong to the backlog
(`ValidInv`), so that a thread past its check has a message (`OwnerInv`). A step of a
thread leaves the ring alone, clears the descriptor at the cached read index, or
consumes the message there (`Effects`), and the proofs go by these three and the
slave's steps. When nobody waits, no descriptor is read beyond the published index
(`PollInv`), so the message described but not yet published is still there.

*Notification.* `StrandedOnlyAfterError` is inductive with the type invariant:
the edge is latched before the interrupt handler's loop begins, the loop passes
every ring, and a queued item leaves the queue only by becoming the ring served.

*Driver.* Each invariant stands on those before. `ControlInv` says at which
steps a thread owns the mutex and the chip select, and `NopInv` that, without partial
words, nobody reaches the NOP. `PlanInv`: the accesses a call has left are in slave
memory, its writes do not overlap (from `PartsTileRange`), and the first one fits the step
the thread is at. `DataInv` bounds buffers, polls and what the slave has still to
store. `NeighbourInv`: in memory and in what is in flight every byte belongs to its address
(`Belongs`), and of each partial write a thread has left, the read of its word is still to
come, or the buffer's bytes belong to that word (`Recalled`, with `FitWords`, the words the
buffer fits). `StoredInv`: what a thread was told is written is in memory and nothing in
flight hides it (`Landed`); what it polls for will be there when the slave is no longer busy
(`Settles`); and the buffer a partial write completes its word with holds, or will hold, what
the thread was told is written in that word (`TrueWords`). A step of another thread
leaves the bytes of the thread's own words as they are (`BytesStay`). For
interrupts, `IrqInv`: one reported as raised and not served since is set in the
register, whatever the slave clears between the reads of it and the write.

*Firmware.* `FallbackKept` is not inductive: it says nothing of a session
between packets, nor why the descriptor that was chosen stays free.
`FallbackInv` adds that the golden firmware is valid in descriptor 0, or none is
golden and some valid one is ranked (`Confirmed`), and that the trial descriptor
is neither the running one nor, while its packet lasts, the current one, and
once erased is not valid until the session ends (`SessionInv`). A session that
fails before the erasure begins anew with the next packet at offset 0, as
`upload_off` is still 0. Every later turn leaves ranks, statuses and validity
alone (`SameTable`, `LateStep`), and an acceptance gives the trial its rank
before it takes the old firmware away (`AcceptKeeps`).

The rest stands on it. `TableInv`: the running firmware is the current one or the one
an upload would replace, and a session's descriptor is the one that would be chosen
now. `LayoutInv` says where partitions are: the two file systems of a
firmware in use are the factory's, either way round (`UsedFsInv`); the images of each
descriptor are in a zone of their own, the lower or the upper half, or beside the
golden set (`ZoneInv`); a session's images fill its region in order, each behind the
blocks of those before (`RegionInv`, `EntryInv`, with `DiskBefore` for the sum); the
trial's file systems are the running firmware's exchanged (`SwapInv`); counters stay
in their image, file and packet (`CountInv`). `FieldInv` is about the fields of a
descriptor. Together, as `UpgradeInv`, they imply `TypeOK`, and that what a turn
writes to is no partition of a firmware in use (`Target`, `Spares`,
`TargetBesideUsed`).

`FsKept` needs in addition that the copy is made before the trial becomes valid
(`FsKeptInv`). `BootableIsWhole` needs what the trial holds in the middle of an upload
(`TrialContent`): every image before the next one; and of that one what was written,
as long as its hash has been right, with the rest of its block erased or with the
upload behind what is in flash. The upload is behind when erasing the next block failed:
the counter has moved on, the client repeats the packet, its units are hashed twice, and
the image ends with a wrong hash. So a chunk whose hash is right is the next one and
meets erased flash (`ChunkIsNext`). With `UsedWhole`, that every firmware in use is a
file, this is `WholeInv`. The refinement follows action by action: each leaves the store
as it is, publishes, confirms, withdraws or resets (`TurnStays`, `FinishPublishes`,
`AcceptConfirms`, `RejectWithdraws`, `ErasureWithdraws`, `RestartResets`), since the
cells of a descriptor in use do not change (`FileStays`).

`DiskBefore` is a recursive function and the end of a set a choice. The facts about
them (`DiskBeforeEquations`, `LargestIsLargest`) are proved without induction over an
operator, from the least number at which they would fail (`LeastNat`, from the
library's theorem that < on the naturals is well founded).

*Sleep.* `SleepIsQuiet` and `WokenAsBefore` follow from one invariant. While the
system sleeps (`Asleep`), every managed timer nobody touched is off, and what the
hook saw of it (`before`) is what it saved, or "off" if it saved nothing; a timer that is
saved was seen running, so that what is restored is only what the hook stopped; the
suspended threads are exactly those the hash table finds. Awake, `before` is empty.
That the table finds every default task whose slot no later one took, and no other
thread, is a fact about the list (`TableKnows`). An owner's step takes
its timer out of those that count (`OwnerSleeps`). A timer is either on or `Off`, as otherwise a stopped
timer could differ from one that never ran. For the lock count the invariant says
that a command about to put a lock still finds one, unless the race has happened.

*Host application.* The argument follows the lock that is current: the locks of
later initialisations are free, no sender's handle is ahead of it, its count is one
unless a burst was aborted (`LockInv`, needed as Zephyr's mutexes count), and unless
objects in use were renewed every sender's handle is the current one and who is in
the guarded part owns it (`SerialInv`). A sender that gives back a lock it did not
take, after a reset, gives back one nobody keeps. Of `rx_lock`: unless a restart came
inside a read, a thread that is reading has the current one (`ReadInv`), hence two
threads that drain the ring never read it at once. The type invariant bounds a lock's
count, which on Zephyr grows with every burst aborted inside `ring_send`: it is at
most the number of commands that have ended, and one more for a sender about to
return it (`DepthInv`). This needs where the shell is in start-up and who may send
then (`StageInv`) and how far a burst is (`BurstInv`).

Only model-checked: liveness under fairness (a sent message is delivered, no wake-up is
lost, rings are drained, calls and bursts end, automatic sleep comes), which this
prover does not do, and the statements that runs refute. The fairness in
`RingTx`, `RingRx` and the other specifications is not used by any proof. Every other property of
the passing runs is a theorem, under the conditions above.

## 6. Not modelled

* QCSPI: what a read hands to its caller (of a read inside a write it is modelled), in
  particular after its length could not be set; the register commands, chip reset, initialisation and self-tests of
  driver, transport and the STM32 layer; pins and clocks. They are straight
  sequences of transfers.
* Firmware upgrade: the partial format, the boot loader's own images, RAM dump and
  user data images, suspending a session, the table of ten partition handles
  (which an upload begun again exhausts), descriptor reads that fail.
* Host applications: parsing of command lines, the QCSPI and SPI commands, contents of
  the buffers. So the sharing of `recv_buffer` between shell and callback on FreeRTOS
  (`qcc730_demo.c` 131, 267), the division by the elapsed time of a burst (638)
  and the range check of a read (262) are outside the model; so is the wrap of the
  FreeRTOS tick count in a burst's end time.
* Shells: Wi-Fi, crypto and platform commands, which parse arguments and call libraries
  that are elsewhere; of the power commands, requests to the Wi-Fi firmware are
  steps that may fail.
* Small applications, patches, build files and test scripts: configuration, or
  sequences of calls to libraries.

What is left that could be modelled with profit, in this order: the limit on
partition handles and the partial format in `FwUpgrade`; descriptor reads that fail
while the trial is chosen; that an undisturbed upload is eventually published.
