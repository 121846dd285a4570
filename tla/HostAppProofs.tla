--------------------------- MODULE HostAppProofs ---------------------------
(***************************************************************************)
(* Proofs about the host application: for any number of burst threads and  *)
(* of resets the threads in ring_send and in the callback exclude one      *)
(* another, and tx_lock never stays with somebody who will not return it.  *)
(* The argument follows the lock that is current: later ones are free, the *)
(* handles of the senders are never ahead of it, and who is in the guarded *)
(* part owns it as long as no reset has renewed the objects in use.  For   *)
(* rx_lock it is enough that no restart came inside a read.  The second    *)
(* half is about the types: counters within their limits, and how often    *)
(* Zephyr's recursive mutex can be counted.                                *)
(***************************************************************************)
EXTENDS HostApp, FiniteSetTheorems, TLAPS

Mutex == [owner : Sender \cup {None}, depth : Int]

TypeInv ==
  /\ os \in {"zephyr", "freertos"}
  /\ gen \in Gen
  /\ lock \in [Gen -> Mutex]
  /\ send \in [Sender -> {"idle", "lock", "critical"}]
  /\ handle \in [Sender -> Gen]
  /\ drain \subseteq Gen
  /\ rxLock \in [Gen -> Gen \cup {None}]
  /\ recv \in [Gen -> {"out", "data", "none", "fault"}]

\* A lock's count goes with its owner, except after an abort.
Counts(l) ==
  /\ l.owner = None => l.depth = 0
  /\ l.owner # None => l.depth = 1 \/ aborted

LockInv ==
  /\ \A t \in Sender : handle[t] <= gen
  /\ \A g \in Gen : g > gen => lock[g] = Free
  /\ Counts(lock[gen])
  /\ LockHasLivingOwner

SerialInv == renewed \/
  /\ \A t \in Sender : send[t] # "idle" => handle[t] = gen
  /\ \A t \in Sender : send[t] = "critical" => lock[gen].owner = t
  /\ drain \subseteq {gen}
  /\ \A g \in Gen : recv[g] # "out" => g = gen

HostInv == TypeInv /\ LockInv /\ SerialInv

objectVars == <<os, gen, lock, sendVars, drain, rxVars, aborted, renewed>>

LEMMA FreeMutex == Free \in Mutex /\ Free.owner = None /\ Free.depth = 0
BY DEF Free, Mutex

LEMMA InitHost == Init => HostInv
<1> SUFFICES ASSUME Init PROVE HostInv
  OBVIOUS
<1>1. 0 \in Gen /\ TypeInv
  BY FreeMutex, HostAppAssumption DEF Init, TypeInv, Gen
<1>2. lock[0] = Free /\ gen = 0
  BY <1>1 DEF Init
<1>3. LockInv
  BY <1>1, <1>2, FreeMutex DEF Init, LockInv, Counts, LockHasLivingOwner
<1>4. SerialInv
  BY DEF Init, SerialInv
<1> QED  BY <1>1, <1>3, <1>4 DEF HostInv

\* What leaves the objects and their users alone.
LEMMA ObjectsKept == HostInv /\ UNCHANGED objectVars => HostInv'
BY DEF HostInv, objectVars, sendVars, rxVars, TypeInv, LockInv, Counts,
       LockHasLivingOwner, SerialInv

LEMMA Created ==
  ASSUME HostInv, CreateObjects,
         UNCHANGED <<os, lock, sendVars, drain, rxVars, aborted>>
  PROVE  HostInv'
<1>1. gen' = gen + 1 /\ gen' \in Gen /\ gen \in Gen
  BY HostAppAssumption DEF CreateObjects, HostInv, TypeInv, Gen
<1>2. lock'[gen'] = Free /\ UNCHANGED <<lock, handle, send>>
  BY <1>1 DEF HostInv, LockInv, Gen, sendVars
<1>3. TypeInv'
  BY <1>1 DEF HostInv, TypeInv, sendVars, rxVars
<1>4. LockInv'
  <2>1. \A t \in Sender : handle'[t] <= gen'
    BY <1>1, <1>2 DEF HostInv, LockInv, TypeInv, Gen
  <2>2. \A g \in Gen : g > gen' => lock'[g] = Free
    BY <1>1, <1>2 DEF HostInv, LockInv, Gen
  <2> QED  BY <1>2, <2>1, <2>2, FreeMutex DEF LockInv, Counts, LockHasLivingOwner
<1>5. SerialInv'
  <2>1. CASE InUse
    BY <2>1 DEF CreateObjects, SerialInv
  <2>2. CASE ~ InUse
    <3>1. /\ drain' = {} /\ \A t \in Sender : send'[t] = "idle"
          /\ \A g \in Gen : recv'[g] = "out"
      BY <1>2, <2>2 DEF InUse, Reading, rxVars
    <3> QED  BY <3>1 DEF SerialInv
  <2> QED  BY <2>1, <2>2
<1> QED  BY <1>3, <1>4, <1>5 DEF HostInv

LEMMA Begun ==
  ASSUME HostInv, NEW t \in Sender, send[t] = "idle", BeginSend(t),
         UNCHANGED <<os, gen, lock, drain, rxVars, aborted, renewed>>
  PROVE  HostInv'
<1>1. TypeInv'
  BY DEF HostInv, TypeInv, BeginSend, rxVars
<1>2. /\ \A u \in Sender : send'[u] = IF u = t THEN "lock" ELSE send[u]
      /\ \A u \in Sender : handle'[u] = IF u = t THEN gen ELSE handle[u]
  BY DEF HostInv, TypeInv, BeginSend
<1>3. LockHasLivingOwner'
  BY <1>2 DEF HostInv, TypeInv, LockInv, LockHasLivingOwner, Mutex
<1>4. LockInv'
  BY <1>2, <1>3 DEF HostInv, TypeInv, LockInv, Counts, Gen
<1>5. SerialInv'
  BY <1>2 DEF HostInv, SerialInv, rxVars
<1> QED  BY <1>1, <1>4, <1>5 DEF HostInv

\* Only the lock of the sender's handle changes.  If it is the current one the
\* sender did not own it: nobody in front of the lock does, except after an abort.
LEMMA Locked ==
  ASSUME HostInv, NEW t \in Sender, LockTx(t)
  PROVE  HostInv'
<1> DEFINE new == [owner |-> t, depth |-> lock[handle[t]].depth + 1]
<1>1. /\ handle[t] \in Gen /\ new \in Mutex
      /\ lock' = [lock EXCEPT ![handle[t]] = new]
      /\ send' = [send EXCEPT ![t] = "critical"]
      /\ UNCHANGED <<os, gen, handle, drain, rxLock, recv, aborted, renewed>>
  BY DEF HostInv, TypeInv, LockTx, Mutex, workVars, rxVars, historyVars
<1>2. /\ \A u \in Sender : send'[u] = IF u = t THEN "critical" ELSE send[u]
      /\ \A g \in Gen : lock'[g] = IF g = handle[t] THEN new ELSE lock[g]
  BY <1>1 DEF HostInv, TypeInv
<1>3. TypeInv'
  BY <1>1 DEF HostInv, TypeInv
<1>4. handle[t] <= gen /\ gen \in Gen
  BY DEF HostInv, LockInv, TypeInv
<1>5. \A g \in Gen : g > gen => lock'[g] = Free
  BY <1>2, <1>4 DEF HostInv, LockInv, Gen
<1>6. Counts(lock[gen])' /\ LockHasLivingOwner'
  <2>1. CASE handle[t] = gen
    <3>1. lock'[gen'] = new /\ new.owner = t /\ t # None
      BY <1>1, <1>2, <1>4, <2>1, HostAppAssumption
    <3>2. lock[gen].owner = None \/ aborted
      BY <2>1 DEF LockTx, Lockable, HostInv, LockInv, LockHasLivingOwner
    <3>3. new.depth = 1 \/ aborted
      BY <2>1, <3>2 DEF HostInv, LockInv, Counts
    <3> QED  BY <1>1, <1>2, <3>1, <3>3 DEF Counts, LockHasLivingOwner
  <2>2. CASE handle[t] # gen
    <3>1. lock'[gen'] = lock[gen]
      BY <1>1, <1>2, <1>4, <2>2
    <3> QED  BY <1>1, <1>2, <3>1
             DEF HostInv, TypeInv, Mutex, LockInv, Counts, LockHasLivingOwner
  <2> QED  BY <2>1, <2>2
<1>7. SerialInv'
  <2> SUFFICES ASSUME ~ renewed PROVE SerialInv'
    BY <1>1 DEF SerialInv
  <2>1. handle[t] = gen /\ drain \subseteq {gen}
    BY DEF HostInv, SerialInv, LockTx
  <2>2. \A u \in Sender \ {t} : send[u] # "critical"
    BY <2>1, HostAppAssumption DEF HostInv, SerialInv, LockTx, Lockable
  <2>3. lock'[gen'].owner = t
    BY <1>1, <1>2, <1>4, <2>1
  <2> QED  BY <1>1, <1>2, <2>1, <2>2, <2>3 DEF HostInv, SerialInv
<1> QED  BY <1>1, <1>3, <1>5, <1>6, <1>7 DEF HostInv, LockInv

\* Who gives up waiting leaves every lock as it is.
LEMMA TimedOut ==
  ASSUME HostInv, NEW t \in Sender, LockTxTimeout(t)
  PROVE  HostInv'
<1>1. /\ send[t] = "lock"
      /\ send' = [send EXCEPT ![t] = "idle"]
      /\ UNCHANGED <<os, gen, lock, handle, drain, rxLock, recv, aborted, renewed>>
  BY DEF LockTxTimeout, EndSend, serviceVars, workVars, rxVars, historyVars
<1>2. \A u \in Sender : send'[u] = IF u = t THEN "idle" ELSE send[u]
  BY <1>1 DEF HostInv, TypeInv
<1>3. TypeInv'
  BY <1>1 DEF HostInv, TypeInv
<1>4. LockInv'
  BY <1>1, <1>2 DEF HostInv, TypeInv, Mutex, LockInv, Counts, LockHasLivingOwner
<1>5. SerialInv'
  BY <1>1, <1>2 DEF HostInv, SerialInv
<1> QED  BY <1>3, <1>4, <1>5 DEF HostInv

\* The current lock is given back.  Its count is one unless a burst was aborted,
\* so on Zephyr, too, the sender does not own it afterwards.
LEMMA Unlocked ==
  ASSUME HostInv, NEW t \in Sender, UnlockTx(t)
  PROVE  HostInv'
<1>1. /\ send[t] = "critical" /\ Unlock(t)
      /\ send' = [send EXCEPT ![t] = "idle"]
      /\ UNCHANGED <<os, gen, handle, drain, rxLock, recv, aborted, renewed>>
  BY DEF UnlockTx, EndSend, workVars, rxVars, historyVars
<1>2. \A u \in Sender : send'[u] = IF u = t THEN "idle" ELSE send[u]
  BY <1>1 DEF HostInv, TypeInv
<1>3. PICK l : /\ lock' = [lock EXCEPT ![gen] = l]
               /\ l \in Mutex
               /\ l = Free \/ l = lock[gen] \/ aborted
               /\ l.owner = None \/ l.owner = lock[gen].owner
               /\ l.owner = None => l.depth = 0
               /\ l.owner = t => aborted
  <2> DEFINE old == lock[gen]
             one == [old EXCEPT !.depth = old.depth - 1]
  <2>1. /\ old \in Mutex /\ Counts(old) /\ t # None
        /\ os \in {"zephyr", "freertos"}
    BY HostAppAssumption DEF HostInv, TypeInv, LockInv
  <2>2. CASE os = "freertos"
    BY <1>1, <2>2, FreeMutex, HostAppAssumption DEF Unlock
  <2>3. CASE os = "zephyr" /\ old.owner # t
    <3>1. lock' = [lock EXCEPT ![gen] = old]
      BY <1>1, <2>3 DEF Unlock
    <3> QED  BY <2>1, <2>3, <3>1 DEF Counts
  <2>4. CASE os = "zephyr" /\ old.owner = t /\ old.depth = 1
    <3>1. lock' = [lock EXCEPT ![gen] = Free]
      BY <1>1, <2>4 DEF Unlock
    <3> QED  BY <2>1, <3>1, FreeMutex
  <2>5. CASE os = "zephyr" /\ old.owner = t /\ old.depth # 1
    <3>1. lock' = [lock EXCEPT ![gen] = one]
      BY <1>1, <2>5 DEF Unlock
    <3>2. one \in Mutex /\ one.owner = t /\ aborted
      BY <2>1, <2>5 DEF Mutex, Counts
    <3> QED  BY <2>1, <2>5, <3>1, <3>2
  <2> QED  BY <2>1, <2>2, <2>3, <2>4, <2>5
<1>4. gen \in Gen /\ \A g \in Gen : lock'[g] = IF g = gen THEN l ELSE lock[g]
  BY <1>3 DEF HostInv, TypeInv
<1>5. TypeInv'
  BY <1>1, <1>3 DEF HostInv, TypeInv
<1>6. Counts(l)
  BY <1>3, FreeMutex DEF HostInv, LockInv, Counts
<1>7. Counts(lock[gen])'
  BY <1>1, <1>4, <1>6 DEF Counts
<1>8. LockHasLivingOwner'
  BY <1>1, <1>2, <1>3, <1>4
     DEF HostInv, TypeInv, Mutex, LockInv, LockHasLivingOwner
<1>9. /\ \A u \in Sender : handle'[u] <= gen'
      /\ \A g \in Gen : g > gen' => lock'[g] = Free
  BY <1>1, <1>4 DEF HostInv, LockInv, Gen
<1>10. SerialInv'
  <2> SUFFICES ASSUME ~ renewed PROVE SerialInv'
    BY <1>1 DEF SerialInv
  <2>1. \A u \in Sender \ {t} : send[u] # "critical"
    BY <1>1 DEF HostInv, SerialInv
  <2> QED  BY <1>1, <1>2, <2>1 DEF HostInv, SerialInv
<1> QED  BY <1>5, <1>7, <1>8, <1>9, <1>10 DEF HostInv, LockInv

\* An aborted burst that held the lock is what "aborted" says.
LEMMA Aborted == HostInv /\ BurstAborted => HostInv'
<1> SUFFICES ASSUME HostInv, BurstAborted PROVE HostInv'
  OBVIOUS
<1>1. /\ send' = [t \in Sender |-> IF t \in Burst THEN "idle" ELSE send[t]]
      /\ aborted' = (aborted \/ \E b \in Burst : send[b] = "critical")
      /\ UNCHANGED <<os, gen, lock, handle, drain, rxLock, recv, renewed>>
  BY DEF BurstAborted, serviceVars, workVars, rxVars
<1>2. TypeInv'
  BY <1>1 DEF HostInv, TypeInv
<1>3. LockHasLivingOwner'
  BY <1>1 DEF HostInv, TypeInv, Mutex, LockInv, LockHasLivingOwner
<1>4. LockInv'
  BY <1>1, <1>3 DEF HostInv, LockInv, Counts
<1>5. SerialInv'
  BY <1>1 DEF HostInv, SerialInv
<1> QED  BY <1>2, <1>4, <1>5 DEF HostInv

\* rx_lock is taken by whoever reads the ring.
LEMMA ReadBegun ==
  ASSUME TypeInv, NEW g \in Gen, LockRxAndRead(g)
  PROVE  /\ rxLock' \in [Gen -> Gen \cup {None}]
         /\ recv' \in [Gen -> {"out", "data", "none", "fault"}]
         /\ \A h \in Gen : recv'[h] # "out" <=> h = g \/ recv[h] # "out"
         /\ \A h \in Gen : rxLock'[h] = IF h = gen THEN g ELSE rxLock[h]
BY DEF TypeInv, LockRxAndRead

LEMMA ReadEnded ==
  ASSUME TypeInv, NEW g \in Gen, UnlockRx(g)
  PROVE  /\ rxLock' \in [Gen -> Gen \cup {None}]
         /\ recv' \in [Gen -> {"out", "data", "none", "fault"}]
         /\ \A h \in Gen : recv'[h] # "out" <=> h # g /\ recv[h] # "out"
         /\ \A h \in Gen : rxLock'[h] = IF h = gen THEN None ELSE rxLock[h]
BY DEF TypeInv, UnlockRx

\* Only the current thread begins to read, and who enters the callback has read.
LEMMA Drained ==
  ASSUME HostInv, NEW g \in Gen, WorkStep(g)
  PROVE  HostInv'
<1>1. /\ UNCHANGED <<os, gen, lock, sendVars, aborted, renewed>>
      /\ drain' \subseteq drain \cup {g}
      /\ g \in drain' \ drain => recv[g] # "out"
      /\ rxLock' \in [Gen -> Gen \cup {None}]
      /\ recv' \in [Gen -> {"out", "data", "none", "fault"}]
      /\ \A h \in Gen : recv'[h] # "out" => \/ recv[h] # "out"
                                            \/ h = g /\ (g = gen \/ g \in drain)
  <2>1. CASE rx_work_handler(g)
    <3>1. (LockRxAndRead(g) /\ g = gen) \/ UNCHANGED rxVars
      BY <2>1 DEF rx_work_handler
    <3> QED  BY <2>1, <3>1, ReadBegun
             DEF HostInv, TypeInv, rx_work_handler, serviceVars, historyVars, rxVars
  <2>2. CASE ring_host_rx_callback(g)
    <3>1. LockRxAndRead(g) \/ UNCHANGED rxVars
      BY <2>2 DEF ring_host_rx_callback
    <3>2. g \in drain /\ drain' \subseteq drain
      BY <2>2 DEF ring_host_rx_callback
    <3>3. UNCHANGED <<os, gen, lock, sendVars, aborted, renewed>>
      BY <2>2 DEF ring_host_rx_callback, serviceVars, historyVars
    <3> QED  BY <3>1, <3>2, <3>3, ReadBegun DEF HostInv, TypeInv, rxVars
  <2>3. CASE UnlockRx(g)
    <3>1. /\ UNCHANGED <<os, gen, lock, sendVars, aborted, renewed>>
          /\ drain' \subseteq drain \cup {g} /\ recv[g] # "out"
      BY <2>3 DEF UnlockRx, serviceVars, historyVars
    <3> QED  BY <2>3, <3>1, ReadEnded DEF HostInv
  <2> QED  BY <2>1, <2>2, <2>3 DEF WorkStep
<1>2. TypeInv' /\ LockInv'
  BY <1>1 DEF HostInv, TypeInv, LockInv, Counts, LockHasLivingOwner, sendVars
<1>3. SerialInv'
  <2> SUFFICES ASSUME ~ renewed PROVE SerialInv'
    BY <1>1 DEF SerialInv
  <2>1. /\ drain \subseteq {gen} /\ \A h \in Gen : recv[h] # "out" => h = gen
        /\ \A t \in Sender : send[t] # "idle" => handle[t] = gen
        /\ \A t \in Sender : send[t] = "critical" => lock[gen].owner = t
    BY DEF HostInv, SerialInv
  <2>2. drain' \subseteq {gen} /\ \A h \in Gen : recv'[h] # "out" => h = gen
    BY <1>1, <2>1
  <2> QED  BY <1>1, <2>1, <2>2 DEF SerialInv, sendVars
<1> QED  BY <1>2, <1>3 DEF HostInv

LEMMA ShellStepKeeps == HostInv /\ ShellStep => HostInv'
<1> SUFFICES ASSUME HostInv, ShellStep PROVE HostInv'
  OBVIOUS
<1>1. CASE ToggleChip \/ ring_service_deinit \/ EnableIrq \/ ring_register_callback
           \/ ConfigureInterrupt \/ BurstCompleted
  BY <1>1, ObjectsKept
     DEF ToggleChip, ring_service_deinit, EnableIrq, ring_register_callback,
         ConfigureInterrupt, BurstCompleted, objectVars, serviceVars, workVars, historyVars
<1>2. CASE init_qring
  <2>1. UNCHANGED <<os, lock, sendVars, drain, rxVars, aborted>>
    BY <1>2 DEF init_qring, workVars
  <2>2. CASE CreateObjects
    BY <2>1, <2>2, Created
  <2>3. CASE UNCHANGED <<gen, renewed, torn>>
    BY <2>1, <2>3, ObjectsKept DEF objectVars
  <2> QED  BY <1>2, <2>2, <2>3 DEF init_qring
<1>3. CASE BurstAborted
  BY <1>3, Aborted
<1>4. CASE LockTx(Shell) \/ LockTxTimeout(Shell) \/ UnlockTx(Shell)
  BY <1>4, Locked, TimedOut, Unlocked DEF Sender
<1> QED  BY <1>1, <1>2, <1>3, <1>4 DEF ShellStep

LEMMA BurstStepKeeps ==
  ASSUME HostInv, NEW b \in Burst, BurstStep(b)
  PROVE  HostInv'
<1>1. CASE BurstSends(b) \/ BurstRepeats(b)
  <2>1. UNCHANGED <<os, gen, lock, drain, rxVars, aborted, renewed>>
    BY <1>1 DEF BurstSends, BurstRepeats, serviceVars, workVars, historyVars
  <2>2. CASE UNCHANGED sendVars
    BY <2>1, <2>2, ObjectsKept DEF objectVars
  <2>3. CASE BeginSend(b) /\ send[b] = "idle"
    BY <2>1, <2>3, Begun DEF Sender
  <2> QED  BY <1>1, <2>2, <2>3 DEF BurstSends, BurstRepeats, Looping
<1>2. CASE BurstStops(b) \/ BurstWithoutBuffer(b) \/ BurstEnds(b)
  BY <1>2, ObjectsKept
     DEF BurstStops, BurstWithoutBuffer, BurstEnds, objectVars, serviceVars, workVars,
         historyVars
<1>3. CASE LockTx(b) \/ LockTxTimeout(b) \/ UnlockTx(b)
  BY <1>3, Locked, TimedOut, Unlocked DEF Sender
<1> QED  BY <1>1, <1>2, <1>3 DEF BurstStep

LEMMA NextKeeps == HostInv /\ [Next]_vars => HostInv'
<1> SUFFICES ASSUME HostInv, [Next]_vars PROVE HostInv'
  OBVIOUS
<1>1. CASE ShellStep
  BY <1>1, ShellStepKeeps
<1>2. CASE cmd_ring_send \/ ring_send_cmd
  <2>1. /\ BeginSend(Shell) /\ send[Shell] = "idle"
        /\ UNCHANGED <<os, gen, lock, drain, rxVars, aborted, renewed>>
    BY <1>2 DEF cmd_ring_send, ring_send_cmd, Send, Command, serviceVars, workVars,
                historyVars
  <2> QED  BY <2>1, Begun DEF Sender
<1>3. CASE cmd_ring_send_burst \/ ring_send_burst \/ StopCommand \/ cmd_qcspi_reset
  BY <1>3, ObjectsKept
     DEF cmd_ring_send_burst, ring_send_burst, SetParameters, StopCommand,
         cmd_qcspi_reset, objectVars, serviceVars, workVars, historyVars
<1>4. CASE \E b \in Burst : BurstStep(b)
  BY <1>4, BurstStepKeeps
<1>5. CASE SlaveBoots \/ SlaveSends \/ ring_rx_handler
  BY <1>5, ObjectsKept
     DEF SlaveBoots, SlaveSends, ring_rx_handler, objectVars, serviceVars, workVars,
         historyVars
<1>6. CASE \E g \in Gen : WorkStep(g)
  BY <1>6, Drained
<1>7. CASE UNCHANGED vars
  BY <1>7, ObjectsKept DEF vars, objectVars, serviceVars, workVars, historyVars
<1> QED  BY <1>1, <1>2, <1>3, <1>4, <1>5, <1>6, <1>7 DEF Next

LEMMA HostInvariant == Spec => []HostInv
BY InitHost, NextKeeps, PTL DEF Spec

\* At most one element.
LEMMA AtMostOne ==
  ASSUME NEW S, NEW x, S \subseteq {x}
  PROVE  Cardinality(S) <= 1
<1>1. IsFiniteSet({x}) /\ Cardinality({x}) = 1
  BY FS_Singleton
<1> QED  BY <1>1, FS_Subset

\* The owner of the current tx_lock is in the guarded part of ring_send and will
\* give it back, for any number of bursts, initialisations and commands.
THEOREM LockHasLivingOwnerHolds == Spec => []LockHasLivingOwner
<1>1. HostInv => LockHasLivingOwner
  BY DEF HostInv, LockInv
<1> QED  BY <1>1, HostInvariant, PTL

\* Whoever reads the ring has the current rx_lock, until a restart comes inside a
\* read; the locks to come are free.
ReadInv == ~ torn =>
  /\ \A g \in Gen : rxLock[gen] = g <=> recv[g] # "out"
  /\ \A g \in Gen : g > gen => rxLock[g] = None

LEMMA ReadInvInit == Init => ReadInv
<1> SUFFICES ASSUME Init PROVE ReadInv
  OBVIOUS
<1>1. 0 \in Gen /\ gen = 0
  BY HostAppAssumption DEF Init, Gen
<1>2. /\ \A g \in Gen : rxLock[g] = None
      /\ \A g \in Gen : recv[g] = "out"
  BY DEF Init
<1> QED  BY <1>1, <1>2, HostAppAssumption DEF ReadInv

LEMMA ReadKept ==
  ASSUME ReadInv, UNCHANGED <<gen, rxVars>>, torn => torn'
  PROVE  ReadInv'
BY DEF ReadInv, rxVars

LEMMA ReadInvStep == HostInv /\ ReadInv /\ [Next]_vars => ReadInv'
<1> SUFFICES ASSUME HostInv, ReadInv, [Next]_vars PROVE ReadInv'
  OBVIOUS
<1>1. CASE ToggleChip
  BY <1>1, ReadKept DEF ToggleChip, serviceVars, workVars
<1>2. CASE ring_service_deinit \/ EnableIrq \/ ring_register_callback
           \/ ConfigureInterrupt \/ BurstCompleted \/ BurstAborted
  BY <1>2, ReadKept
  DEF ring_service_deinit, EnableIrq, ring_register_callback, ConfigureInterrupt,
      BurstCompleted, BurstAborted, serviceVars, workVars, historyVars
<1>3. CASE init_qring
  <2>1. UNCHANGED rxVars
    BY <1>3 DEF init_qring, workVars
  <2>2. CASE UNCHANGED <<gen, renewed, torn>>
    BY <2>1, <2>2, ReadKept
  <2>3. CASE CreateObjects
    <3> SUFFICES ASSUME ~ torn' PROVE ReadInv'
      BY DEF ReadInv
    <3>1. /\ ~ torn /\ \A g \in Gen : recv[g] = "out"
          /\ gen' = gen + 1 /\ gen < MaxGen
      BY <2>3 DEF CreateObjects, Reading
    <3>2. gen' \in Gen /\ gen' > gen /\ \A g \in Gen : g > gen' => g > gen
      BY <3>1, HostAppAssumption DEF HostInv, TypeInv, Gen
    <3>3. rxLock'[gen'] = None /\ \A g \in Gen : g > gen' => rxLock'[g] = None
      BY <2>1, <3>1, <3>2 DEF ReadInv, rxVars
    <3>4. \A g \in Gen : rxLock'[gen'] # g /\ recv'[g] = "out"
      BY <2>1, <3>1, <3>3, HostAppAssumption DEF rxVars
    <3> QED  BY <3>3, <3>4 DEF ReadInv
  <2> QED  BY <1>3, <2>2, <2>3 DEF init_qring
<1>4. ASSUME NEW t \in Sender, LockTx(t) \/ LockTxTimeout(t) \/ UnlockTx(t)
      PROVE  ReadInv'
  <2>1. UNCHANGED <<gen, rxVars, torn>>
    BY <1>4 DEF LockTx, LockTxTimeout, UnlockTx, serviceVars, workVars, historyVars
  <2> QED  BY <2>1, ReadKept
<1>5. ASSUME NEW b \in Burst,
             \/ BurstSends(b) \/ BurstRepeats(b) \/ BurstStops(b)
             \/ BurstWithoutBuffer(b) \/ BurstEnds(b)
      PROVE  ReadInv'
  <2>1. UNCHANGED <<gen, rxVars, torn>>
    BY <1>5
    DEF BurstSends, BurstRepeats, BurstStops, BurstWithoutBuffer, BurstEnds,
        serviceVars, workVars, historyVars
  <2> QED  BY <2>1, ReadKept
<1>6. CASE \/ cmd_ring_send \/ ring_send_cmd \/ cmd_ring_send_burst \/ ring_send_burst
           \/ StopCommand \/ cmd_qcspi_reset
  BY <1>6, ReadKept
  DEF cmd_ring_send, ring_send_cmd, Send, cmd_ring_send_burst, ring_send_burst,
      SetParameters, StopCommand, cmd_qcspi_reset, serviceVars, workVars, historyVars
<1>7. CASE SlaveBoots \/ SlaveSends \/ ring_rx_handler \/ UNCHANGED vars
  BY <1>7, ReadKept
  DEF SlaveBoots, SlaveSends, ring_rx_handler, vars, serviceVars, workVars, historyVars
<1>8. ASSUME NEW g \in Gen, rx_work_handler(g) \/ ring_host_rx_callback(g)
      PROVE  ReadInv'
  <2>1. UNCHANGED <<gen, torn>>
    BY <1>8 DEF rx_work_handler, ring_host_rx_callback, serviceVars, historyVars
  <2>2. CASE UNCHANGED rxVars
    BY <2>1, <2>2, ReadKept
  <2>3. CASE LockRxAndRead(g)
    <3> SUFFICES ASSUME ~ torn PROVE ReadInv'
      BY <2>1 DEF ReadInv
    <3>1. /\ \A h \in Gen : recv'[h] # "out" <=> h = g \/ recv[h] # "out"
          /\ \A h \in Gen : rxLock'[h] = IF h = gen THEN g ELSE rxLock[h]
      BY <2>3, ReadBegun DEF HostInv
    <3>2. /\ gen \in Gen /\ rxLock[gen] = None
          /\ \A h \in Gen : h > gen => h # gen
      BY <2>3 DEF LockRxAndRead, HostInv, TypeInv, Gen
    <3>3. \A h \in Gen : recv[h] = "out"
      BY <3>2, HostAppAssumption DEF ReadInv
    <3> QED  BY <2>1, <3>1, <3>2, <3>3 DEF ReadInv
  <2> QED  BY <1>8, <2>2, <2>3 DEF rx_work_handler, ring_host_rx_callback
<1>9. ASSUME NEW g \in Gen, UnlockRx(g) PROVE ReadInv'
  <2>1. UNCHANGED <<gen, torn>> /\ recv[g] # "out"
    BY <1>9 DEF UnlockRx, serviceVars, historyVars
  <2> SUFFICES ASSUME ~ torn PROVE ReadInv'
    BY <2>1 DEF ReadInv
  <2>2. /\ \A h \in Gen : recv'[h] # "out" <=> h # g /\ recv[h] # "out"
        /\ \A h \in Gen : rxLock'[h] = IF h = gen THEN None ELSE rxLock[h]
    BY <1>9, ReadEnded DEF HostInv
  <2>3. gen \in Gen /\ \A h \in Gen : h > gen => h # gen
    BY DEF HostInv, TypeInv, Gen
  <2>4. \A h \in Gen : recv[h] # "out" => h = g
    BY <2>1 DEF ReadInv
  <2> QED  BY <2>1, <2>2, <2>3, <2>4, HostAppAssumption DEF ReadInv
<1> QED
  BY <1>1, <1>2, <1>3, <1>4, <1>5, <1>6, <1>7, <1>8, <1>9
     DEF Next, ShellStep, BurstStep, WorkStep, Sender

\* As long as no reset renews mutexes in use, one thread at a time is in the
\* guarded part of ring_send and one in the callback; and one reads the ring, also
\* after a reset that did not come inside a read.
THEOREM SerialisedHolds == Spec => []Serialised
<1>1. ASSUME HostInv, ~ renewed
      PROVE  /\ Cardinality({t \in Sender : send[t] = "critical"}) <= 1
             /\ Cardinality(drain) <= 1
  <2>1. {t \in Sender : send[t] = "critical"} \subseteq {lock[gen].owner}
    BY <1>1 DEF HostInv, SerialInv
  <2>2. drain \subseteq {gen}
    BY <1>1 DEF HostInv, SerialInv
  <2> QED  BY <2>1, <2>2, AtMostOne
<1>2. ASSUME ReadInv, ~ torn
      PROVE  Cardinality({g \in Gen : recv[g] # "out"}) <= 1
  <2>1. {g \in Gen : recv[g] # "out"} \subseteq {rxLock[gen]}
    BY <1>2 DEF ReadInv
  <2> QED  BY <2>1, AtMostOne
<1>3. HostInv /\ ReadInv => Serialised
  BY <1>1, <1>2 DEF Serialised
<1> QED  BY <1>3, HostInvariant, ReadInvInit, ReadInvStep, PTL DEF Spec

-----------------------------------------------------------------------------
(* The rest of the state: what the service, the shell's thread and the     *)
(* bursts keep, and how often a lock can be counted.                       *)

FlagInv ==
  /\ shell \in ShellSteps /\ booting \in BOOLEAN
  /\ service \in BOOLEAN /\ callback \in BOOLEAN
  /\ irqOn \in BOOLEAN /\ irq \in BOOLEAN /\ slaveUp \in BOOLEAN
  /\ running \in BOOLEAN /\ data \in BOOLEAN /\ completion \in BOOLEAN

HistoryInv ==
  /\ missed \in BOOLEAN /\ failed \in BOOLEAN
  /\ aborted \in BOOLEAN /\ renewed \in BOOLEAN /\ torn \in BOOLEAN

CountInv ==
  /\ service => gen > 0
  /\ produced \in 0 .. MaxMessages /\ backlog \in 0 .. produced
  /\ ~ slaveUp => backlog = 0
  /\ work \subseteq Gen
  /\ count \in 0 .. MaxPackets /\ commands \in 0 .. MaxCommands

\* A packet on its way has been asked for, and so has its repetition.
BurstInv ==
  /\ burst \in [Burst -> {"none", "loop", "failing", "again", "done"}]
  /\ sent \in [Burst -> 0 .. MaxPackets] /\ retries \in [Burst -> 0 .. MaxRetries]
  /\ \A b \in Burst : burst[b] # "loop" => send[b] = "idle"
  /\ \A b \in Burst : send[b] # "idle" \/ burst[b] = "again" => sent[b] < MaxPackets

BootStep == {"init", "callback", "enable"}

\* Zephyr initialises the service before anybody can send, and only then.
StageInv ==
  /\ send[Shell] # "idle" => shell = "up"
  /\ shell = "waiting" => os = "zephyr" /\ commands > 0
  /\ os = "zephyr" => shell \notin {"toggle", "deinit"}
  /\ os = "zephyr" /\ shell \in BootStep =>
       /\ \A t \in Sender : send[t] = "idle"
       /\ \A b \in Burst : burst[b] = "none"
       /\ \A g \in Gen : lock[g] = Free

\* The commands whose burst has ended or was aborted, and a lock about to be
\* returned by its owner.
Ended == IF shell = "waiting" THEN commands - 1 ELSE commands
Returning(l) == IF l.owner # None /\ send[l.owner] = "critical" THEN 1 ELSE 0

\* On Zephyr each further count of a lock is a burst aborted inside ring_send,
\* and each of those was a command.
DepthInv ==
  /\ \A g \in Gen : lock[g].depth >= 0 /\ (lock[g].owner = None <=> lock[g].depth = 0)
  /\ os = "freertos" => \A g \in Gen : lock[g].depth <= 1
  /\ os = "zephyr" =>
       /\ \A t \in Sender : send[t] # "idle" => handle[t] = gen
       /\ \A g \in Gen \ {gen} : lock[g] = Free
       /\ lock[gen].depth <= Ended + Returning(lock[gen])

LEMMA FlagInvInit == Init => FlagInv
BY DEF Init, FlagInv, ShellSteps

LEMMA HistoryInvInit == Init => HistoryInv
BY DEF Init, HistoryInv

LEMMA CountInvInit == Init => CountInv
<1>1. 0 \in 0 .. MaxMessages /\ 0 \in 0 .. MaxPackets /\ 0 \in 0 .. MaxCommands
  BY HostAppAssumption
<1> QED  BY <1>1 DEF Init, CountInv

LEMMA FlagInvStep == FlagInv /\ [Next]_vars => FlagInv'
<1> SUFFICES ASSUME FlagInv, [Next]_vars PROVE FlagInv'
  OBVIOUS
<1>1. CASE ToggleChip
  BY <1>1 DEF ToggleChip, Step, ShellSteps, FlagInv, serviceVars, slaveVars, burstVars
<1>2. CASE ring_service_deinit
  BY <1>2 DEF ring_service_deinit, Step, ShellSteps, FlagInv, serviceVars, slaveVars,
      burstVars
<1>3. CASE EnableIrq
  BY <1>3 DEF EnableIrq, Step, ShellSteps, FlagInv, serviceVars, slaveVars, burstVars
<1>4. CASE ring_register_callback
  BY <1>4 DEF ring_register_callback, Step, ShellSteps, FlagInv, serviceVars,
      slaveVars, burstVars
<1>5. CASE ConfigureInterrupt
  BY <1>5 DEF ConfigureInterrupt, Step, ShellSteps, FlagInv, serviceVars, slaveVars,
      burstVars
<1>6. CASE BurstCompleted
  BY <1>6 DEF BurstCompleted, Step, ShellSteps, FlagInv, serviceVars, slaveVars,
      burstVars
<1>7. CASE BurstAborted
  BY <1>7 DEF BurstAborted, Step, ShellSteps, FlagInv, serviceVars, slaveVars, burstVars
<1>8. CASE init_qring
  <2>1. service' \in BOOLEAN
    BY <1>8 DEF init_qring, FlagInv
  <2>2. shell' \in ShellSteps
    BY <1>8 DEF init_qring, ShellSteps
  <2> QED
    BY <1>8, <2>1, <2>2 DEF init_qring, FlagInv, slaveVars, burstVars
<1>9. ASSUME NEW t \in Sender, LockTx(t) PROVE FlagInv'
  BY <1>9 DEF LockTx, FlagInv, serviceVars, slaveVars, burstVars
<1>10. ASSUME NEW t \in Sender, LockTxTimeout(t) PROVE FlagInv'
  BY <1>10 DEF LockTxTimeout, FlagInv, serviceVars, slaveVars, burstVars
<1>11. ASSUME NEW t \in Sender, UnlockTx(t) PROVE FlagInv'
  BY <1>11 DEF UnlockTx, FlagInv, serviceVars, slaveVars, burstVars
<1>12. ASSUME NEW b \in Burst, BurstSends(b) PROVE FlagInv'
  BY <1>12 DEF BurstSends, FlagInv, serviceVars, slaveVars, burstVars
<1>13. ASSUME NEW b \in Burst, BurstRepeats(b) PROVE FlagInv'
  BY <1>13 DEF BurstRepeats, FlagInv, serviceVars, slaveVars, burstVars
<1>14. ASSUME NEW b \in Burst, BurstStops(b) PROVE FlagInv'
  BY <1>14 DEF BurstStops, FlagInv, serviceVars, slaveVars, burstVars
<1>15. ASSUME NEW b \in Burst, BurstWithoutBuffer(b) PROVE FlagInv'
  BY <1>15 DEF BurstWithoutBuffer, FlagInv, serviceVars, slaveVars, burstVars
<1>16. ASSUME NEW b \in Burst, BurstEnds(b) PROVE FlagInv'
  BY <1>16 DEF BurstEnds, FlagInv, serviceVars, slaveVars, burstVars
<1>17. CASE cmd_ring_send
  BY <1>17 DEF cmd_ring_send, Send, FlagInv, serviceVars, slaveVars, burstVars
<1>18. CASE ring_send_cmd
  BY <1>18 DEF ring_send_cmd, Send, FlagInv, serviceVars, slaveVars, burstVars
<1>19. CASE StopCommand
  BY <1>19 DEF StopCommand, FlagInv, serviceVars, slaveVars, burstVars
<1>20. CASE cmd_qcspi_reset
  BY <1>20 DEF cmd_qcspi_reset, ShellSteps, FlagInv, serviceVars, slaveVars, burstVars
<1>21. CASE cmd_ring_send_burst
  BY <1>21 DEF cmd_ring_send_burst, SetParameters, StartBurst, ShellSteps, FlagInv,
      serviceVars, slaveVars, burstVars
<1>22. CASE ring_send_burst
  <2>1. running' \in BOOLEAN
    BY <1>22 DEF ring_send_burst, StartBurst, FlagInv
  <2> QED
    BY <1>22, <2>1
    DEF ring_send_burst, SetParameters, FlagInv, serviceVars, slaveVars
<1>23. CASE SlaveBoots
  BY <1>23 DEF SlaveBoots, FlagInv, serviceVars, slaveVars, burstVars
<1>24. CASE SlaveSends
  BY <1>24 DEF SlaveSends, FlagInv, serviceVars, slaveVars, burstVars
<1>25. CASE ring_rx_handler
  BY <1>25 DEF ring_rx_handler, FlagInv, serviceVars, slaveVars, burstVars
<1>26. ASSUME NEW g \in Gen, rx_work_handler(g) PROVE FlagInv'
  BY <1>26 DEF rx_work_handler, FlagInv, serviceVars, slaveVars, burstVars
<1>27. ASSUME NEW g \in Gen, ring_host_rx_callback(g) PROVE FlagInv'
  BY <1>27 DEF ring_host_rx_callback, FlagInv, serviceVars, slaveVars, burstVars
<1>28. ASSUME NEW g \in Gen, UnlockRx(g) PROVE FlagInv'
  BY <1>28 DEF UnlockRx, FlagInv, serviceVars, slaveVars, burstVars
<1>29. CASE UNCHANGED vars
  BY <1>29 DEF vars, FlagInv, serviceVars, slaveVars, burstVars
<1> QED
  BY <1>1, <1>2, <1>3, <1>4, <1>5, <1>6, <1>7, <1>8, <1>9, <1>10, <1>11, <1>12,
     <1>13, <1>14, <1>15, <1>16, <1>17, <1>18, <1>19, <1>20, <1>21, <1>22, <1>23,
     <1>24, <1>25, <1>26, <1>27, <1>28, <1>29
     DEF Next, ShellStep, BurstStep, WorkStep, Sender

LEMMA HistoryInvStep == HistoryInv /\ [Next]_vars => HistoryInv'
<1> SUFFICES ASSUME HistoryInv, [Next]_vars PROVE HistoryInv'
  OBVIOUS
<1>1. ASSUME UNCHANGED <<missed, failed, aborted, renewed, torn>> PROVE HistoryInv'
  BY <1>1 DEF HistoryInv
<1>2. CASE ToggleChip
  BY <1>2 DEF ToggleChip, Reading, HistoryInv
<1>3. CASE init_qring
  BY <1>3 DEF init_qring, CreateObjects, InUse, Reading, slaveVars, HistoryInv
<1>4. CASE BurstAborted
  BY <1>4 DEF BurstAborted, slaveVars, HistoryInv
<1>5. CASE \/ ring_service_deinit \/ EnableIrq \/ ring_register_callback
           \/ ConfigureInterrupt \/ BurstCompleted
  BY <1>1, <1>5
  DEF ring_service_deinit, EnableIrq, ring_register_callback, ConfigureInterrupt,
      BurstCompleted, slaveVars, historyVars
<1>6. ASSUME NEW t \in Sender, LockTx(t) \/ LockTxTimeout(t) \/ UnlockTx(t)
      PROVE  HistoryInv'
  BY <1>1, <1>6 DEF LockTx, LockTxTimeout, UnlockTx, slaveVars, historyVars
<1>7. ASSUME NEW b \in Burst,
             \/ BurstSends(b) \/ BurstRepeats(b) \/ BurstStops(b)
             \/ BurstWithoutBuffer(b) \/ BurstEnds(b)
      PROVE  HistoryInv'
  BY <1>1, <1>7
  DEF BurstSends, BurstRepeats, BurstStops, BurstWithoutBuffer, BurstEnds, slaveVars,
      historyVars
<1>8. CASE \/ cmd_ring_send \/ ring_send_cmd \/ cmd_ring_send_burst \/ ring_send_burst
           \/ StopCommand \/ cmd_qcspi_reset
  BY <1>1, <1>8
  DEF cmd_ring_send, ring_send_cmd, Send, cmd_ring_send_burst, ring_send_burst,
      SetParameters, StopCommand, cmd_qcspi_reset, slaveVars, historyVars
<1>9. CASE SlaveBoots \/ UNCHANGED vars
  BY <1>1, <1>9 DEF SlaveBoots, vars, slaveVars, historyVars
<1>10. CASE SlaveSends
  BY <1>10 DEF SlaveSends, historyVars, HistoryInv
<1>11. CASE ring_rx_handler
  BY <1>11 DEF ring_rx_handler, historyVars, HistoryInv
<1>12. ASSUME NEW g \in Gen, rx_work_handler(g) \/ ring_host_rx_callback(g)
       PROVE  HistoryInv'
  BY <1>1, <1>12 DEF rx_work_handler, ring_host_rx_callback, slaveVars, historyVars
<1>13. ASSUME NEW g \in Gen, UnlockRx(g) PROVE HistoryInv'
  BY <1>13 DEF UnlockRx, historyVars, HistoryInv
<1> QED
  BY <1>2, <1>3, <1>4, <1>5, <1>6, <1>7, <1>8, <1>9, <1>10, <1>11, <1>12, <1>13
     DEF Next, ShellStep, BurstStep, WorkStep, Sender

\* What no step of a sender or a burst changes.
counts == <<service, gen, slaveUp, produced, backlog, work, count, commands>>

LEMMA CountsKept == CountInv /\ UNCHANGED counts => CountInv'
BY DEF counts, CountInv

LEMMA CountInvStep == HostInv /\ CountInv /\ [Next]_vars => CountInv'
<1> SUFFICES ASSUME HostInv, CountInv, [Next]_vars PROVE CountInv'
  OBVIOUS
<1>0. /\ gen \in Nat /\ gen \in Gen /\ MaxMessages \in Nat /\ MaxPackets \in Nat
      /\ MaxCommands \in Nat
  BY HostAppAssumption DEF HostInv, TypeInv, Gen
<1>1. CASE \/ EnableIrq \/ ring_register_callback \/ ConfigureInterrupt
           \/ BurstCompleted \/ BurstAborted
  <2>1. UNCHANGED counts
    BY <1>1
    DEF EnableIrq, ring_register_callback, ConfigureInterrupt, BurstCompleted,
        BurstAborted, counts, serviceVars, slaveVars, workVars, burstVars
  <2> QED  BY <2>1, CountsKept
<1>2. CASE ToggleChip
  BY <1>0, <1>2 DEF ToggleChip, CountInv, serviceVars, workVars, burstVars
<1>3. CASE ring_service_deinit
  BY <1>3 DEF ring_service_deinit, CountInv, slaveVars, workVars, burstVars
<1>4. CASE init_qring
  <2>1. UNCHANGED <<slaveUp, produced, backlog, work, count, commands>>
    BY <1>4 DEF init_qring, slaveVars, workVars, burstVars
  <2>2. gen' = gen + 1 \/ UNCHANGED <<service, gen>>
    BY <1>4 DEF init_qring, CreateObjects
  <2>3. gen' = gen + 1 => gen' > 0
    BY <1>0
  <2>4. service' => gen' > 0
    BY <2>2, <2>3 DEF CountInv
  <2> QED  BY <2>1, <2>4 DEF CountInv
<1>5. ASSUME NEW t \in Sender, LockTx(t) \/ LockTxTimeout(t) \/ UnlockTx(t)
      PROVE  CountInv'
  <2>1. UNCHANGED counts
    BY <1>5
    DEF LockTx, LockTxTimeout, UnlockTx, counts, serviceVars, slaveVars, workVars, burstVars
  <2> QED  BY <2>1, CountsKept
<1>6. ASSUME NEW b \in Burst,
             \/ BurstSends(b) \/ BurstRepeats(b) \/ BurstStops(b) \/ BurstWithoutBuffer(b)
             \/ BurstEnds(b)
      PROVE  CountInv'
  <2>1. UNCHANGED counts
    BY <1>6
    DEF BurstSends, BurstRepeats, BurstStops, BurstWithoutBuffer, BurstEnds, counts,
        serviceVars, slaveVars, workVars
  <2> QED  BY <2>1, CountsKept
<1>7. CASE \/ cmd_ring_send \/ ring_send_cmd \/ StopCommand \/ cmd_qcspi_reset
           \/ cmd_ring_send_burst \/ ring_send_burst
  <2>1. Command /\ UNCHANGED <<service, gen, slaveUp, produced, backlog, work>>
    BY <1>7
    DEF cmd_ring_send, ring_send_cmd, Send, StopCommand, cmd_qcspi_reset,
        cmd_ring_send_burst, ring_send_burst, SetParameters, serviceVars, slaveVars,
        workVars
  <2>2. UNCHANGED count \/ count' \in 1 .. MaxPackets
    BY <1>7
    DEF cmd_ring_send, ring_send_cmd, Send, StopCommand, cmd_qcspi_reset,
        cmd_ring_send_burst, ring_send_burst, SetParameters, burstVars
  <2>3. count' \in 0 .. MaxPackets /\ commands' \in 0 .. MaxCommands
    BY <1>0, <2>1, <2>2 DEF Command, CountInv
  <2> QED  BY <2>1, <2>3 DEF CountInv
<1>8. CASE SlaveBoots
  BY <1>0, <1>8 DEF SlaveBoots, CountInv, serviceVars, workVars, burstVars
<1>9. CASE SlaveSends
  BY <1>0, <1>9 DEF SlaveSends, CountInv, serviceVars, workVars, burstVars
<1>10. CASE ring_rx_handler
  BY <1>0, <1>10 DEF ring_rx_handler, CountInv, serviceVars, burstVars
<1>11. ASSUME NEW g \in Gen, rx_work_handler(g) PROVE CountInv'
  BY <1>11 DEF rx_work_handler, CountInv, serviceVars, slaveVars, burstVars
<1>12. ASSUME NEW g \in Gen, ring_host_rx_callback(g) PROVE CountInv'
  <2>1. UNCHANGED <<service, gen, slaveUp, produced, work, count, commands>>
    BY <1>12 DEF ring_host_rx_callback, serviceVars, burstVars
  <2>2. backlog' \in {backlog, backlog - 1} \cap Nat
    BY <1>0, <1>12 DEF ring_host_rx_callback, CountInv
  <2> QED  BY <1>0, <2>1, <2>2 DEF CountInv
<1>13. ASSUME NEW g \in Gen, UnlockRx(g) PROVE CountInv'
  BY <1>13 DEF UnlockRx, CountInv, serviceVars, burstVars
<1>14. CASE UNCHANGED vars
  <2>1. UNCHANGED counts
    BY <1>14 DEF vars, counts, serviceVars, slaveVars, workVars, burstVars
  <2> QED  BY <2>1, CountsKept
<1> QED
  BY <1>1, <1>2, <1>3, <1>4, <1>5, <1>6, <1>7, <1>8, <1>9, <1>10, <1>11, <1>12, <1>13,
     <1>14
     DEF Next, ShellStep, BurstStep, WorkStep, Sender

LEMMA BurstInvInit == Init => BurstInv
<1>1. 0 \in 0 .. MaxPackets /\ 0 \in 0 .. MaxRetries /\ 0 < MaxPackets
  BY HostAppAssumption
<1> QED  BY <1>1 DEF Init, BurstInv, Sender

\* What neither moves a burst nor ends or begins its ring_send.
LEMMA BurstKept ==
  ASSUME BurstInv, UNCHANGED <<burst, sent, retries>>,
         \A b \in Burst : send'[b] # "idle" <=> send[b] # "idle"
  PROVE  BurstInv'
BY DEF BurstInv

\* A step of b alone.
LEMMA BurstMoved ==
  ASSUME HostInv, BurstInv, NEW b \in Burst, NEW stage, NEW n, NEW r, NEW s,
         burst' = [burst EXCEPT ![b] = stage], sent' = [sent EXCEPT ![b] = n],
         retries' = [retries EXCEPT ![b] = r], send' = [send EXCEPT ![b] = s],
         stage \in {"none", "loop", "failing", "again", "done"},
         n \in 0 .. MaxPackets, r \in 0 .. MaxRetries,
         stage # "loop" => s = "idle",
         s # "idle" \/ stage = "again" => n < MaxPackets
  PROVE  BurstInv'
<1>1. b \in Sender /\ Burst \subseteq Sender
  BY DEF Sender
<1>2. \A c \in Burst : /\ burst'[c] = IF c = b THEN stage ELSE burst[c]
                       /\ sent'[c] = IF c = b THEN n ELSE sent[c]
                       /\ send'[c] = IF c = b THEN s ELSE send[c]
  BY <1>1 DEF BurstInv, HostInv, TypeInv
<1>3. burst' \in [Burst -> {"none", "loop", "failing", "again", "done"}]
  BY DEF BurstInv
<1>4. sent' \in [Burst -> 0 .. MaxPackets] /\ retries' \in [Burst -> 0 .. MaxRetries]
  BY DEF BurstInv
<1>5. \A c \in Burst : burst'[c] # "loop" => send'[c] = "idle"
  BY <1>2 DEF BurstInv
<1>6. \A c \in Burst : send'[c] # "idle" \/ burst'[c] = "again" => sent'[c] < MaxPackets
  BY <1>2 DEF BurstInv
<1> QED  BY <1>3, <1>4, <1>5, <1>6 DEF BurstInv

\* What a step of b leaves alone.
LEMMA BurstSame ==
  ASSUME HostInv, BurstInv, NEW b \in Burst
  PROVE  /\ burst = [burst EXCEPT ![b] = burst[b]] /\ sent = [sent EXCEPT ![b] = sent[b]]
         /\ retries = [retries EXCEPT ![b] = retries[b]]
         /\ send = [send EXCEPT ![b] = send[b]]
         /\ sent[b] \in 0 .. MaxPackets /\ retries[b] \in 0 .. MaxRetries
         /\ burst[b] \in {"none", "loop", "failing", "again", "done"}
         /\ MaxPackets \in Nat \ {0} /\ MaxRetries \in Nat
BY HostAppAssumption DEF BurstInv, HostInv, TypeInv, Sender

\* The end of a ring_send.
LEMMA BurstSent ==
  ASSUME HostInv, BurstInv, NEW t \in Sender, NEW ok \in BOOLEAN, send[t] # "idle",
         EndSend(t, ok)
  PROVE  BurstInv'
<1>1. CASE t = Shell
  <2>1. UNCHANGED <<burst, sent, retries>>
    BY <1>1, HostAppAssumption DEF EndSend
  <2>2. \A b \in Burst : send'[b] = send[b]
    BY <1>1, HostAppAssumption DEF EndSend, HostInv, TypeInv, Sender
  <2> QED  BY <2>1, <2>2, BurstKept
<1>2. CASE t # Shell
  <2>1. /\ t \in Burst /\ send' = [send EXCEPT ![t] = "idle"]
        /\ sent[t] < MaxPackets
    BY <1>2 DEF Sender, EndSend, BurstInv
  <2>2. CASE Counted(t, ok) /\ UNCHANGED retries
    <3>1. CASE /\ sent' = [sent EXCEPT ![t] = sent[t] + 1]
               /\ burst' = [burst EXCEPT ![t] = "loop"]
      <4>1. sent[t] + 1 \in 0 .. MaxPackets
        BY <2>1, BurstSame
      <4> QED  BY <2>1, <2>2, <3>1, <4>1, BurstSame, BurstMoved
    <3>2. CASE burst' = [burst EXCEPT ![t] = "failing"] /\ UNCHANGED sent
      BY <2>1, <2>2, <3>2, BurstSame, BurstMoved
    <3> QED  BY <2>2, <3>1, <3>2 DEF Counted
  <2>3. CASE Repeated(t, ok)
    <3>1. retries[t] + 1 \in 0 .. MaxRetries
      BY <2>1, <2>3, BurstSame DEF Repeated
    <3>2. /\ retries' = [retries EXCEPT ![t] = retries[t] + 1]
          /\ burst' = [burst EXCEPT ![t] = "again"] /\ UNCHANGED sent
      BY <2>3 DEF Repeated
    <3> QED  BY <2>1, <3>1, <3>2, BurstSame, BurstMoved
  <2> QED  BY <1>2, <2>2, <2>3 DEF EndSend
<1> QED  BY <1>1, <1>2

LEMMA BurstLoops ==
  ASSUME HostInv, BurstInv, CountInv, NEW b \in Burst,
         \/ BurstSends(b) \/ BurstRepeats(b) \/ BurstStops(b) \/ BurstWithoutBuffer(b)
         \/ BurstEnds(b)
  PROVE  BurstInv'
<1>0. 0 \in 0 .. MaxRetries /\ count \in 0 .. MaxPackets
  BY BurstSame DEF CountInv
<1>1. CASE BurstSends(b)
  <2>1. /\ sent[b] < count /\ send[b] = "idle"
        /\ retries' = [retries EXCEPT ![b] = 0]
    BY <1>1 DEF BurstSends, Looping
  <2>2. sent[b] < MaxPackets /\ sent[b] + 1 \in 0 .. MaxPackets
    BY <1>0, <2>1, BurstSame
  <2>3. CASE BeginSend(b) /\ burst' = [burst EXCEPT ![b] = "loop"] /\ UNCHANGED sent
    <3>1. send' = [send EXCEPT ![b] = "lock"]
      BY <2>3 DEF BeginSend
    <3> QED  BY <1>0, <2>1, <2>2, <2>3, <3>1, BurstSame, BurstMoved
  <2>4. CASE Counted(b, FALSE) /\ UNCHANGED sendVars
    <3>1. UNCHANGED send
      BY <2>4 DEF sendVars
    <3>2. CASE /\ sent' = [sent EXCEPT ![b] = sent[b] + 1]
               /\ burst' = [burst EXCEPT ![b] = "loop"]
      BY <1>0, <2>1, <2>2, <3>1, <3>2, BurstSame, BurstMoved
    <3>3. CASE burst' = [burst EXCEPT ![b] = "failing"] /\ UNCHANGED sent
      BY <1>0, <2>1, <2>2, <3>1, <3>3, BurstSame, BurstMoved
    <3> QED  BY <2>4, <3>2, <3>3 DEF Counted
  <2> QED  BY <1>1, <2>3, <2>4 DEF BurstSends
<1>2. CASE BurstRepeats(b)
  <2>1. /\ burst[b] = "again" /\ burst' = [burst EXCEPT ![b] = "loop"]
        /\ UNCHANGED <<sent, retries>> /\ send' = [send EXCEPT ![b] = "lock"]
    BY <1>2 DEF BurstRepeats, BeginSend
  <2>2. sent[b] < MaxPackets
    BY <2>1 DEF BurstInv
  <2> QED  BY <2>1, <2>2, BurstSame, BurstMoved
<1>3. CASE BurstStops(b) \/ BurstWithoutBuffer(b) \/ BurstEnds(b)
  <2>1. PICK stage \in {"none", "done"} : burst' = [burst EXCEPT ![b] = stage]
    BY <1>3 DEF BurstStops, BurstWithoutBuffer, BurstEnds
  <2>2. UNCHANGED <<sent, retries, send>> /\ send[b] = "idle"
    BY <1>3 DEF BurstStops, BurstWithoutBuffer, BurstEnds, Looping, sendVars, BurstInv
  <2> QED  BY <2>1, <2>2, BurstSame, BurstMoved
<1> QED  BY <1>1, <1>2, <1>3

LEMMA BurstStarted ==
  ASSUME HostInv, BurstInv, cmd_ring_send_burst \/ ring_send_burst
  PROVE  BurstInv'
<1>1. UNCHANGED <<send, retries>>
  BY DEF cmd_ring_send_burst, ring_send_burst, SetParameters, sendVars
<1>2. UNCHANGED <<burst, sent>> \/ \E b : StartBurst(b)
  BY DEF cmd_ring_send_burst, ring_send_burst
<1>3. ASSUME NEW b, StartBurst(b) PROVE BurstInv'
  <2>1. burst' = [burst EXCEPT ![b] = "loop"] /\ sent' = [sent EXCEPT ![b] = 0]
    BY <1>3 DEF StartBurst
  <2>2. CASE b \in Burst
    <3>1. 0 \in 0 .. MaxPackets /\ 0 < MaxPackets
      BY <2>2, BurstSame
    <3> QED  BY <1>1, <2>1, <2>2, <3>1, BurstSame, BurstMoved
  <2>3. CASE b \notin Burst
    <3>1. UNCHANGED <<burst, sent>>
      BY <2>1, <2>3 DEF BurstInv
    <3> QED  BY <1>1, <3>1, BurstKept
  <2> QED  BY <2>2, <2>3
<1> QED  BY <1>1, <1>2, <1>3, BurstKept

LEMMA BurstInvStep == HostInv /\ CountInv /\ BurstInv /\ [Next]_vars => BurstInv'
<1> SUFFICES ASSUME HostInv, CountInv, BurstInv, [Next]_vars PROVE BurstInv'
  OBVIOUS
<1>1. ASSUME UNCHANGED <<burst, sent, retries, send>> PROVE BurstInv'
  BY <1>1, BurstKept
<1>2. CASE \/ ToggleChip \/ ring_service_deinit \/ init_qring \/ EnableIrq
           \/ ring_register_callback \/ ConfigureInterrupt \/ BurstCompleted
  BY <1>1, <1>2
  DEF ToggleChip, ring_service_deinit, init_qring, EnableIrq, ring_register_callback,
      ConfigureInterrupt, BurstCompleted, sendVars, burstVars
<1>3. CASE BurstAborted
  <2>1. /\ burst' = [b \in Burst |-> "none"] /\ UNCHANGED <<sent, retries>>
        /\ send' = [t \in Sender |-> IF t \in Burst THEN "idle" ELSE send[t]]
    BY <1>3 DEF BurstAborted
  <2>2. \A b \in Burst : send'[b] = "idle"
    BY <2>1 DEF Sender
  <2> QED  BY <2>1, <2>2 DEF BurstInv
<1>4. ASSUME NEW t \in Sender, LockTx(t) PROVE BurstInv'
  <2>1. UNCHANGED <<burst, sent, retries>>
    BY <1>4 DEF LockTx, burstVars
  <2>2. send[t] = "lock" /\ send' = [send EXCEPT ![t] = "critical"]
    BY <1>4 DEF LockTx
  <2>3. \A b \in Burst : send'[b] # "idle" <=> send[b] # "idle"
    BY <2>2 DEF HostInv, TypeInv, Sender
  <2> QED  BY <2>1, <2>3, BurstKept
<1>5. ASSUME NEW t \in Sender, LockTxTimeout(t) \/ UnlockTx(t) PROVE BurstInv'
  <2>1. send[t] # "idle" /\ \E ok \in BOOLEAN : EndSend(t, ok)
    BY <1>5 DEF LockTxTimeout, UnlockTx
  <2> QED  BY <2>1, BurstSent
<1>6. CASE cmd_ring_send \/ ring_send_cmd
  <2>1. /\ UNCHANGED <<burst, sent, retries>> /\ BeginSend(Shell)
    BY <1>6 DEF cmd_ring_send, ring_send_cmd, Send, burstVars
  <2>2. \A b \in Burst : send'[b] = send[b]
    BY <2>1, HostAppAssumption DEF BeginSend, HostInv, TypeInv, Sender
  <2> QED  BY <2>1, <2>2, BurstKept
<1>7. CASE StopCommand \/ cmd_qcspi_reset
  BY <1>1, <1>7 DEF StopCommand, cmd_qcspi_reset, sendVars, burstVars
<1>8. CASE SlaveBoots \/ SlaveSends \/ ring_rx_handler
  BY <1>1, <1>8 DEF SlaveBoots, SlaveSends, ring_rx_handler, sendVars, burstVars
<1>9. ASSUME NEW g \in Gen, WorkStep(g) PROVE BurstInv'
  BY <1>1, <1>9
  DEF WorkStep, rx_work_handler, ring_host_rx_callback, UnlockRx, sendVars, burstVars
<1>10. CASE UNCHANGED vars
  BY <1>1, <1>10 DEF vars, sendVars, burstVars
<1> QED
  BY <1>2, <1>3, <1>4, <1>5, <1>6, <1>7, <1>8, <1>9, <1>10, BurstLoops, BurstStarted
     DEF Next, ShellStep, BurstStep, Sender

LEMMA StageInvInit == Init => StageInv
BY HostAppAssumption DEF Init, StageInv, BootStep, Sender

\* What leaves the shell's thread and the senders alone.
stages == <<os, shell, commands, lock, send, burst>>

LEMMA StageKept == StageInv /\ UNCHANGED stages => StageInv'
BY DEF stages, StageInv

LEMMA StageInvStep == HostInv /\ CountInv /\ StageInv /\ [Next]_vars => StageInv'
<1> SUFFICES ASSUME HostInv, CountInv, StageInv, [Next]_vars PROVE StageInv'
  OBVIOUS
<1>0. /\ Shell \in Sender /\ os \in {"zephyr", "freertos"} /\ commands \in Nat
      /\ \A t \in Sender : send[t] \in {"idle", "lock", "critical"}
      /\ send \in [Sender -> {"idle", "lock", "critical"}]
  BY HostAppAssumption DEF HostInv, TypeInv, Sender, CountInv
<1>1. CASE \/ ToggleChip \/ ring_service_deinit \/ EnableIrq \/ ring_register_callback
           \/ ConfigureInterrupt \/ BurstCompleted
  <2>1. /\ UNCHANGED <<os, commands, lock, send, burst>>
        /\ send[Shell] = "idle" /\ shell' # "waiting"
        /\ os = "zephyr" => shell' \notin {"toggle", "deinit"}
        /\ os = "zephyr" /\ shell' \in BootStep => shell \in BootStep
    BY <1>0, <1>1
    DEF ToggleChip, ring_service_deinit, EnableIrq, ring_register_callback,
        ConfigureInterrupt, BurstCompleted, Step, BootStep, serviceVars, sendVars,
        burstVars, StageInv
  <2> QED  BY <2>1 DEF StageInv
<1>2. CASE init_qring
  <2>1. /\ UNCHANGED <<os, commands, lock, send, burst>> /\ shell = "init"
        /\ shell' \in {"callback", "enable", "toggle"}
        /\ os = "zephyr" => shell' = "callback"
    BY <1>2 DEF init_qring, sendVars, burstVars
  <2> QED  BY <2>1 DEF StageInv, BootStep
<1>3. CASE BurstAborted
  <2>1. /\ UNCHANGED os /\ shell = "waiting" /\ shell' = "up"
    BY <1>3 DEF BurstAborted, Step
  <2> QED  BY <2>1 DEF StageInv, BootStep
<1>4. ASSUME NEW t \in Sender, LockTx(t) \/ LockTxTimeout(t) \/ UnlockTx(t)
      PROVE  StageInv'
  <2>1. /\ UNCHANGED <<os, shell, commands>> /\ send[t] # "idle"
        /\ \E s : send' = [send EXCEPT ![t] = s]
    BY <1>4 DEF LockTx, LockTxTimeout, UnlockTx, EndSend
  <2>2. send'[Shell] # "idle" => send[Shell] # "idle"
    BY <1>0, <2>1
  <2>3. ~ (os = "zephyr" /\ shell \in BootStep)
    BY <2>1 DEF StageInv
  <2> QED  BY <2>1, <2>2, <2>3 DEF StageInv
<1>5. ASSUME NEW b \in Burst,
             \/ BurstSends(b) \/ BurstRepeats(b) \/ BurstStops(b) \/ BurstWithoutBuffer(b)
             \/ BurstEnds(b)
      PROVE  StageInv'
  <2>1. /\ UNCHANGED <<os, shell, commands, lock>>
        /\ UNCHANGED send \/ \E s : send' = [send EXCEPT ![b] = s]
    BY <1>5
    DEF BurstSends, BurstRepeats, BurstStops, BurstWithoutBuffer, BurstEnds, BeginSend,
        serviceVars, sendVars
  <2>2. send'[Shell] = send[Shell]
    BY <1>0, <2>1, HostAppAssumption
  <2>3. burst[b] # "none"
    BY <1>5 DEF BurstSends, BurstRepeats, BurstStops, BurstWithoutBuffer, BurstEnds, Looping
  <2> QED  BY <2>1, <2>2, <2>3 DEF StageInv
<1>6. CASE cmd_ring_send \/ ring_send_cmd
  <2>1. UNCHANGED <<os, shell, lock>> /\ shell = "up" 
    BY <1>6 DEF cmd_ring_send, ring_send_cmd, Send, Command, serviceVars
  <2> QED  BY <2>1 DEF StageInv, BootStep
<1>7. CASE StopCommand \/ cmd_qcspi_reset \/ cmd_ring_send_burst \/ ring_send_burst
  <2>1. /\ UNCHANGED <<os, lock, send>> /\ shell = "up" /\ send[Shell] = "idle"
        /\ commands' = commands + 1
        /\ shell' \in {"up", "toggle", "waiting"}
        /\ shell' = "waiting" => os = "zephyr"
        /\ os = "zephyr" => shell' # "toggle"
    BY <1>7
    DEF StopCommand, cmd_qcspi_reset, cmd_ring_send_burst, ring_send_burst, SetParameters,
        Command, serviceVars, sendVars
  <2>2. commands' > 0
    BY <1>0, <2>1
  <2> QED  BY <2>1, <2>2 DEF StageInv, BootStep
<1>8. CASE SlaveBoots \/ SlaveSends \/ ring_rx_handler \/ UNCHANGED vars
  <2>1. UNCHANGED stages
    BY <1>8
    DEF SlaveBoots, SlaveSends, ring_rx_handler, vars, stages, serviceVars, sendVars,
        burstVars
  <2> QED  BY <2>1, StageKept
<1>9. ASSUME NEW g \in Gen, WorkStep(g) PROVE StageInv'
  <2>1. UNCHANGED stages
    BY <1>9
    DEF WorkStep, rx_work_handler, ring_host_rx_callback, UnlockRx, stages, serviceVars,
        sendVars, burstVars
  <2> QED  BY <2>1, StageKept
<1> QED
  BY <1>1, <1>2, <1>3, <1>4, <1>5, <1>6, <1>7, <1>8, <1>9
     DEF Next, ShellStep, BurstStep, Sender

LEMMA DepthInvInit == Init => DepthInv
<1> SUFFICES ASSUME Init PROVE DepthInv
  OBVIOUS
<1>1. /\ gen = 0 /\ 0 \in Gen /\ commands = 0 /\ shell # "waiting"
      /\ \A g \in Gen : lock[g] = Free
      /\ \A t \in Sender : send[t] = "idle"
  BY HostAppAssumption DEF Init, Gen
<1>2. Ended = 0 /\ Returning(lock[gen]) = 0
  BY <1>1, FreeMutex DEF Ended, Returning
<1> QED  BY <1>1, <1>2, FreeMutex DEF DepthInv

LEMMA EndedNat == CountInv /\ StageInv => Ended \in Nat
<1> SUFFICES ASSUME CountInv, StageInv PROVE Ended \in Nat
  OBVIOUS
<1>1. commands \in Nat
  BY HostAppAssumption DEF CountInv
<1> QED  BY <1>1 DEF Ended, StageInv

\* Steps beside the locks: no command is forgotten.
LEMMA DepthKept ==
  ASSUME HostInv, CountInv, StageInv, DepthInv, UNCHANGED <<os, gen, lock, send, handle>>,
         Ended' \in Int, Ended <= Ended'
  PROVE  DepthInv'
<1>1. Returning(lock[gen])' = Returning(lock[gen]) /\ Returning(lock[gen]) \in {0, 1}
  BY DEF Returning
<1>2. Ended \in Int /\ lock[gen].depth \in Int
  BY EndedNat DEF HostInv, TypeInv, Mutex
<1>3. os = "zephyr" => lock'[gen'].depth <= Ended' + Returning(lock[gen])'
  BY <1>1, <1>2 DEF DepthInv
<1> QED  BY <1>3 DEF DepthInv

\* A step of t in ring_send; l is the lock it leaves behind at g.
LEMMA DepthMoved ==
  ASSUME HostInv, CountInv, StageInv, DepthInv,
         NEW t \in Sender, NEW g \in Gen, NEW l \in Mutex, NEW s,
         lock' = [lock EXCEPT ![g] = l], send' = [send EXCEPT ![t] = s],
         UNCHANGED <<os, gen, handle, shell, commands>>,
         send[t] # "idle",
         l.depth >= 0, l.owner = None <=> l.depth = 0,
         os = "freertos" => l.depth <= 1,
         os = "zephyr" =>
           /\ g = gen
           /\ \/ l.depth <= Ended
              \/ l.depth <= Ended + 1 /\ l.owner # None /\ send'[l.owner] = "critical"
  PROVE  DepthInv'
<1>1. \A h \in Gen : lock'[h] = IF h = g THEN l ELSE lock[h]
  BY DEF HostInv, TypeInv
<1>2. \A u \in Sender : send'[u] = IF u = t THEN s ELSE send[u]
  BY DEF HostInv, TypeInv
<1>3. Ended' = Ended
  BY DEF Ended
<1>4. ASSUME os = "zephyr"
      PROVE  lock'[gen'].depth <= Ended' + Returning(lock[gen])'
  <2>1. lock'[gen'] = l
    BY <1>1, <1>4
  <2>2. Returning(lock[gen])' =
          IF l.owner # None /\ send'[l.owner] = "critical" THEN 1 ELSE 0
    BY <2>1 DEF Returning
  <2>3. Ended \in Int /\ l.depth \in Int
    BY EndedNat DEF Mutex
  <2> QED  BY <1>3, <1>4, <2>1, <2>2, <2>3
<1>5. /\ \A h \in Gen : lock'[h].depth >= 0
      /\ \A h \in Gen : lock'[h].owner = None <=> lock'[h].depth = 0
  BY <1>1 DEF DepthInv
<1>6. os = "freertos" => \A h \in Gen : lock'[h].depth <= 1
  BY <1>1 DEF DepthInv
<1>7. os = "zephyr" => /\ \A u \in Sender : send'[u] # "idle" => handle'[u] = gen'
                       /\ \A h \in Gen \ {gen'} : lock'[h] = Free
  BY <1>1, <1>2 DEF DepthInv
<1> QED  BY <1>4, <1>5, <1>6, <1>7 DEF DepthInv

LEMMA DepthLocked ==
  ASSUME HostInv, CountInv, StageInv, DepthInv, NEW t \in Sender, LockTx(t)
  PROVE  DepthInv'
<1> DEFINE old == lock[handle[t]]
           l == [owner |-> t, depth |-> old.depth + 1]
<1>1. /\ handle[t] \in Gen /\ send[t] = "lock" /\ Lockable(t)
      /\ lock' = [lock EXCEPT ![handle[t]] = l]
      /\ send' = [send EXCEPT ![t] = "critical"]
      /\ UNCHANGED <<os, gen, handle, shell, commands>>
  BY DEF LockTx, HostInv, TypeInv
<1>2. old.depth \in Int /\ old.depth >= 0 /\ (old.owner = None <=> old.depth = 0)
  BY <1>1 DEF HostInv, TypeInv, Mutex, DepthInv
<1>3. /\ l \in Mutex /\ l.depth = old.depth + 1 /\ l.owner = t /\ t # None
      /\ Ended \in Nat
  BY <1>2, HostAppAssumption, EndedNat DEF Mutex
<1>4. ASSUME os = "freertos" PROVE l.depth <= 1
  BY <1>1, <1>2, <1>4 DEF Lockable
<1>5. ASSUME os = "zephyr"
      PROVE  handle[t] = gen /\ l.depth <= Ended + 1
  <2>1. handle[t] = gen /\ old.depth <= Ended + Returning(old)
    BY <1>1, <1>5 DEF DepthInv
  <2>2. Returning(old) = 0
    BY <1>1 DEF Lockable, Returning
  <2> QED  BY <1>2, <1>3, <2>1, <2>2
<1>6. send'[t] = "critical" /\ l.depth >= 0 /\ (l.owner = None <=> l.depth = 0)
  BY <1>1, <1>2, <1>3 DEF HostInv, TypeInv
<1> HIDE DEF l, old
<1> QED  BY <1>1, <1>3, <1>4, <1>5, <1>6, DepthMoved

LEMMA DepthUnlocked ==
  ASSUME HostInv, CountInv, StageInv, DepthInv, NEW t \in Sender, UnlockTx(t)
  PROVE  DepthInv'
<1> DEFINE old == lock[gen]
           less == [old EXCEPT !.depth = old.depth - 1]
<1>1. /\ send[t] = "critical" /\ Unlock(t) /\ gen \in Gen
      /\ send' = [send EXCEPT ![t] = "idle"]
      /\ UNCHANGED <<os, gen, handle, shell, commands>>
  BY DEF UnlockTx, EndSend, HostInv, TypeInv
<1>2. /\ old \in Mutex /\ old.depth \in Int /\ old.depth >= 0 /\ Ended \in Nat
      /\ old.owner = None <=> old.depth = 0
      /\ os \in {"zephyr", "freertos"} /\ t # None
  BY <1>1, HostAppAssumption, EndedNat DEF HostInv, TypeInv, Mutex, DepthInv
<1>3. CASE os = "freertos" \/ (os = "zephyr" /\ old.owner = t /\ old.depth = 1)
  <2>1. lock' = [lock EXCEPT ![gen] = Free]
    BY <1>1, <1>2, <1>3 DEF Unlock
  <2>2. Free.depth <= Ended /\ Free.depth <= 1 /\ Free.depth >= 0
    BY <1>2, FreeMutex
  <2> QED  BY <1>1, <2>1, <2>2, FreeMutex, DepthMoved
<1>4. CASE os = "zephyr" /\ old.owner # t
  <2>1. lock' = [lock EXCEPT ![gen] = old]
    BY <1>1, <1>4 DEF Unlock
  <2>2. old.depth <= Ended + Returning(old)
    BY <1>4 DEF DepthInv
  <2>3. \/ old.depth <= Ended
        \/ old.depth <= Ended + 1 /\ old.owner # None /\ send'[old.owner] = "critical"
    <3>1. old.owner # None => send'[old.owner] = send[old.owner]
      BY <1>1, <1>2, <1>4 DEF HostInv, TypeInv, Mutex
    <3> QED  BY <1>2, <2>2, <3>1 DEF Returning
  <2> HIDE DEF old
  <2> QED  BY <1>1, <1>2, <1>4, <2>1, <2>3, DepthMoved
<1>5. CASE os = "zephyr" /\ old.owner = t /\ old.depth # 1
  <2>1. lock' = [lock EXCEPT ![gen] = less]
    BY <1>1, <1>5 DEF Unlock
  <2>2. less \in Mutex /\ less.owner = t /\ less.depth = old.depth - 1
    BY <1>2, <1>5 DEF Mutex
  <2>3. Returning(old) = 1 /\ old.depth <= Ended + 1 /\ old.depth > 1
    BY <1>1, <1>2, <1>5 DEF Returning, DepthInv
  <2>4. less.depth >= 0 /\ less.depth # 0 /\ less.depth <= Ended
    BY <1>2, <2>2, <2>3
  <2> HIDE DEF old, less
  <2> QED  BY <1>1, <1>2, <1>5, <2>1, <2>2, <2>4, DepthMoved
<1> QED  BY <1>2, <1>3, <1>4, <1>5

LEMMA DepthBegun ==
  ASSUME HostInv, CountInv, StageInv, DepthInv, NEW t \in Sender, send[t] = "idle",
         BeginSend(t), UNCHANGED <<os, gen, lock>>, Ended' \in Int, Ended <= Ended'
  PROVE  DepthInv'
<1>1. /\ \A u \in Sender : send'[u] = IF u = t THEN "lock" ELSE send[u]
      /\ \A u \in Sender : handle'[u] = IF u = t THEN gen ELSE handle[u]
  BY DEF BeginSend, HostInv, TypeInv
<1>2. lock[gen].owner # None => lock[gen].owner \in Sender
  BY DEF HostInv, TypeInv, Mutex
<1>3. Returning(lock[gen])' = Returning(lock[gen]) /\ Returning(lock[gen]) \in {0, 1}
  BY <1>1, <1>2 DEF Returning
<1>4. Ended \in Int /\ lock[gen].depth \in Int
  BY EndedNat DEF HostInv, TypeInv, Mutex
<1>5. os = "zephyr" => lock'[gen'].depth <= Ended' + Returning(lock[gen])'
  BY <1>3, <1>4 DEF DepthInv
<1>6. os = "zephyr" => \A u \in Sender : send'[u] # "idle" => handle'[u] = gen'
  BY <1>1 DEF DepthInv
<1> QED  BY <1>5, <1>6 DEF DepthInv

LEMMA DepthCreated ==
  ASSUME HostInv, CountInv, StageInv, DepthInv, init_qring
  PROVE  DepthInv'
<1>1. /\ UNCHANGED <<os, lock, send, handle, commands>> /\ gen \in Gen
      /\ shell = "init" /\ shell' # "waiting"
  BY DEF init_qring, sendVars, HostInv, TypeInv
<1>2. Ended' = Ended /\ Ended \in Nat
  BY <1>1, EndedNat DEF Ended
<1>3. CASE UNCHANGED gen
  BY <1>1, <1>2, <1>3, DepthKept
<1>4. CASE CreateObjects
  <2>1. gen' \in Gen
    BY <1>4, HostAppAssumption DEF CreateObjects, HostInv, TypeInv, Gen
  <2>2. CASE os = "freertos"
    BY <1>1, <2>2 DEF DepthInv
  <2>3. CASE os = "zephyr"
    <3>1. /\ \A g \in Gen : lock'[g] = Free
          /\ \A t \in Sender : send'[t] = "idle"
      BY <1>1, <2>3 DEF StageInv, BootStep
    <3>2. Returning(lock[gen])' = 0
      BY <2>1, <3>1, FreeMutex DEF Returning
    <3> QED  BY <1>1, <1>2, <2>1, <2>3, <3>1, <3>2, FreeMutex DEF DepthInv
  <2> QED  BY <2>2, <2>3 DEF HostInv, TypeInv
<1> QED  BY <1>3, <1>4 DEF init_qring

\* The command of the aborted burst accounts for the lock it may leave behind.
LEMMA DepthAborted ==
  ASSUME HostInv, CountInv, StageInv, DepthInv, BurstAborted
  PROVE  DepthInv'
<1>1. /\ shell = "waiting" /\ shell' = "up" /\ os = "zephyr"
      /\ UNCHANGED <<os, gen, lock, handle, commands>>
      /\ \A t \in Sender : send'[t] = send[t] \/ send'[t] = "idle"
  BY DEF BurstAborted, Step, serviceVars, StageInv
<1>2. Ended' = commands /\ Ended = commands - 1 /\ commands \in Nat
  BY <1>1, HostAppAssumption DEF Ended, CountInv
<1>3. lock[gen].depth \in Int /\ gen \in Gen
  BY DEF HostInv, TypeInv, Mutex
<1>4. /\ Returning(lock[gen]) \in {0, 1} /\ Returning(lock[gen])' \in {0, 1}
      /\ lock[gen].depth <= Ended + Returning(lock[gen])
  BY <1>1 DEF Returning, DepthInv
<1>5. lock'[gen'].depth <= Ended' + Returning(lock[gen])'
  BY <1>1, <1>2, <1>3, <1>4
<1>6. \A t \in Sender : send'[t] # "idle" => handle'[t] = gen'
  BY <1>1 DEF DepthInv
<1> QED  BY <1>1, <1>5, <1>6 DEF DepthInv

LEMMA DepthInvStep ==
  HostInv /\ CountInv /\ StageInv /\ DepthInv /\ [Next]_vars => DepthInv'
<1> SUFFICES ASSUME HostInv, CountInv, StageInv, DepthInv, [Next]_vars PROVE DepthInv'
  OBVIOUS
<1>0. commands \in Nat /\ Ended \in Nat
  BY HostAppAssumption, EndedNat DEF CountInv
<1>1. ASSUME UNCHANGED <<os, gen, lock, send, handle, commands>>,
             shell' = "waiting" => shell = "waiting"
      PROVE  DepthInv'
  <2>1. Ended' \in Int /\ Ended <= Ended'
    BY <1>0, <1>1 DEF Ended
  <2> QED  BY <1>1, <2>1, DepthKept
<1>2. CASE \/ ToggleChip \/ ring_service_deinit \/ EnableIrq \/ ring_register_callback
           \/ ConfigureInterrupt \/ BurstCompleted
  BY <1>1, <1>2
  DEF ToggleChip, ring_service_deinit, EnableIrq, ring_register_callback,
      ConfigureInterrupt, BurstCompleted, Step, serviceVars, sendVars
<1>3. ASSUME NEW t \in Sender, LockTxTimeout(t) PROVE DepthInv'
  <2>1. /\ send[t] = "lock" /\ send' = [send EXCEPT ![t] = "idle"]
        /\ UNCHANGED <<os, gen, lock, handle, shell, commands>>
    BY <1>3 DEF LockTxTimeout, EndSend, serviceVars
  <2> DEFINE l == lock[gen]
  <2>2. gen \in Gen /\ l \in Mutex /\ lock' = [lock EXCEPT ![gen] = l]
    BY <2>1 DEF HostInv, TypeInv
  <2>3. /\ l.depth \in Int /\ l.depth >= 0 /\ (l.owner = None <=> l.depth = 0)
        /\ os = "freertos" => l.depth <= 1
    BY <2>2 DEF DepthInv, Mutex
  <2>4. l.owner # None /\ send[l.owner] = "critical" => send'[l.owner] = "critical"
    BY <2>1, <2>2 DEF HostInv, TypeInv, Mutex
  <2>5. os = "zephyr" =>
          \/ l.depth <= Ended
          \/ l.depth <= Ended + 1 /\ l.owner # None /\ send'[l.owner] = "critical"
    BY <1>0, <2>4 DEF DepthInv, Returning
  <2> HIDE DEF l
  <2> QED  BY <2>1, <2>2, <2>3, <2>5, DepthMoved
<1>4. ASSUME NEW b \in Burst, BurstSends(b) \/ BurstRepeats(b) PROVE DepthInv'
  <2>1. /\ UNCHANGED <<os, gen, lock, shell, commands>>
        /\ UNCHANGED sendVars \/ (BeginSend(b) /\ send[b] = "idle")
    BY <1>4 DEF BurstSends, BurstRepeats, Looping, serviceVars
  <2>2. Ended' = Ended
    BY <2>1 DEF Ended
  <2> QED  BY <1>0, <1>1, <2>1, <2>2, DepthBegun DEF sendVars, Sender
<1>5. ASSUME NEW b \in Burst, BurstStops(b) \/ BurstWithoutBuffer(b) \/ BurstEnds(b)
      PROVE  DepthInv'
  BY <1>1, <1>5 DEF BurstStops, BurstWithoutBuffer, BurstEnds, serviceVars, sendVars
<1>6. CASE cmd_ring_send \/ ring_send_cmd
  <2>1. /\ UNCHANGED <<os, gen, lock, shell>> /\ BeginSend(Shell) /\ send[Shell] = "idle"
        /\ commands' = commands + 1
    BY <1>6 DEF cmd_ring_send, ring_send_cmd, Send, Command, serviceVars
  <2>2. Ended' \in Int /\ Ended <= Ended'
    BY <1>0, <2>1 DEF Ended
  <2> QED  BY <2>1, <2>2, DepthBegun DEF Sender
<1>7. CASE StopCommand \/ cmd_qcspi_reset \/ cmd_ring_send_burst \/ ring_send_burst
  <2>1. /\ UNCHANGED <<os, gen, lock, send, handle>> /\ commands' = commands + 1
        /\ shell = "up"
    BY <1>7
    DEF StopCommand, cmd_qcspi_reset, cmd_ring_send_burst, ring_send_burst, SetParameters,
        Command, serviceVars, sendVars
  <2>2. Ended' \in Int /\ Ended <= Ended'
    BY <1>0, <2>1 DEF Ended
  <2> QED  BY <2>1, <2>2, DepthKept
<1>8. CASE SlaveBoots \/ SlaveSends \/ ring_rx_handler \/ UNCHANGED vars
  BY <1>1, <1>8 DEF SlaveBoots, SlaveSends, ring_rx_handler, vars, serviceVars, sendVars
<1>9. ASSUME NEW g \in Gen, WorkStep(g) PROVE DepthInv'
  BY <1>1, <1>9 DEF WorkStep, rx_work_handler, ring_host_rx_callback, UnlockRx,
                    serviceVars, sendVars
<1> QED
  BY <1>2, <1>3, <1>4, <1>5, <1>6, <1>7, <1>8, <1>9, DepthLocked, DepthUnlocked,
     DepthCreated, DepthAborted
     DEF Next, ShellStep, BurstStep, Sender

\* For any number of bursts, initialisations and commands: a tx_lock is counted no
\* further than the aborted bursts allow, the shell sends only while it is up and
\* waits only on Zephyr, and no burst sends after it failed, ended or gave up.
THEOREM HostTypeOK == Spec => []TypeOK
<1>1. ASSUME HostInv, FlagInv, HistoryInv, CountInv, BurstInv, StageInv, DepthInv
      PROVE  TypeOK
  <2>1. lock \in [Gen -> [owner : Sender \cup {None}, depth : 0 .. MaxCommands + 1]]
    <3>1. Ended <= MaxCommands /\ Ended \in Nat /\ MaxCommands \in Nat
      BY <1>1, EndedNat, HostAppAssumption DEF CountInv, Ended
    <3>2. \A g \in Gen : /\ lock[g].depth \in Int /\ lock[g].depth >= 0
                         /\ Returning(lock[g]) \in {0, 1}
      BY <1>1 DEF HostInv, TypeInv, Mutex, DepthInv, Returning
    <3>3. ASSUME NEW g \in Gen PROVE lock[g].depth <= MaxCommands + 1
      <4>1. CASE os = "freertos"
        BY <1>1, <3>1, <3>2, <4>1 DEF DepthInv
      <4>2. CASE os = "zephyr" /\ g = gen
        BY <1>1, <3>1, <3>2, <4>2 DEF DepthInv
      <4>3. CASE os = "zephyr" /\ g # gen
        BY <1>1, <3>1, <4>3, FreeMutex DEF DepthInv
      <4> QED  BY <1>1, <4>1, <4>2, <4>3 DEF HostInv, TypeInv
    <3>4. \A g \in Gen : lock[g].depth \in 0 .. MaxCommands + 1
      BY <3>1, <3>2, <3>3
    <3> QED  BY <1>1, <3>4 DEF HostInv, TypeInv, Mutex
  <2>2. backlog \in 0 .. MaxMessages
    BY <1>1, HostAppAssumption DEF CountInv
  <2> QED
    BY <1>1, <2>1, <2>2
    DEF TypeOK, HostInv, TypeInv, FlagInv, HistoryInv, CountInv, BurstInv, StageInv,
        DepthInv
<1> QED
  BY <1>1, HostInvariant, FlagInvInit, FlagInvStep, HistoryInvInit,
     HistoryInvStep, CountInvInit, CountInvStep,
     BurstInvInit, BurstInvStep, StageInvInit, StageInvStep, DepthInvInit, DepthInvStep,
     PTL DEF Spec

=============================================================================
