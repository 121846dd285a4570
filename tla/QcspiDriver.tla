---------------------------- MODULE QcspiDriver ----------------------------
(***************************************************************************)
(* The host's QCSPI driver: threads that read and write slave memory and   *)
(* raise the slave's interrupt over one SPI bus.  A step is one SPI        *)
(* transfer, the unit qc_platform_spi_transceive makes indivisible; a read *)
(* or write is a header transfer that leaves the chip select low and a     *)
(* data transfer that ends the frame.                                      *)
(***************************************************************************)
EXTENDS QcspiAlign

CONSTANTS
  Thread,    \* callers of the driver
  Jobs,      \* Jobs[t]: the calls thread t may make
  Addr,      \* byte addresses of the slave memory
  MaxCalls,  \* bound: calls per thread
  MaxTries,  \* QCSPI_MAX_INIT_TRY_TIMES
  Faults,    \* may a transfer fail?
  NoThread

Job == [kind : {"read", "write"}, addr : Nat, len : Nat \ {0}]
       \cup [kind : {"interrupt"}]

ASSUME DriverAssumption ==
  /\ NoThread \notin Thread
  /\ \A t \in Thread : Jobs[t] \subseteq Job
  /\ MaxCalls \in Nat /\ MaxTries \in Nat \ {0, 1}
  /\ Faults \in BOOLEAN

\* Calls are for slave memory, which consists of whole words.
ASSUME MemoryAssumption ==
  \A t \in Thread : \A job \in Jobs[t] :
    job.kind # "interrupt" =>
      AlignDown(job.addr) .. AlignDown(job.addr + job.len - 1) + 3 \subseteq Addr

VARIABLES
  pc,       \* next transfer of each thread, "idle" outside a call
  todo,     \* todo[t]: word accesses left in the call
  buf,      \* buf[t]: data_buf, the word read last
  polls,    \* polls[t]: status polls made
  owner,    \* holder of qcspi_mutex
  cs,       \* thread whose header holds the chip select low
  trnsLen,  \* SPI_SLAVE_TRNS_LEN
  mem,      \* slave memory
  inflight, \* bytes the slave received and has not stored
  busy,     \* QCSPI_STATUS_BUSY_BIT
  irq,      \* QCSPI_CONFIG_HOST_IRQ_INT0_EN
  unserved, \* history: unserved[t]: no interrupt served since t's call
  raised,   \* history: raised[t]: t's interrupt call returned 0
  written,  \* history: written[t]: what t reported done, by address (see OkIsWritten)
  asked,    \* history: bytes some call was asked to write
  spoilt,   \* history: words read for a write with another length set than theirs
  calls     \* calls[t]: calls made

vars == <<pc, todo, buf, polls, owner, cs, trnsLen, mem, inflight, busy, irq,
          unserved, raised, written, asked, spoilt, calls>>

\* A byte tells who wrote it, in which call, and for which address.
Value(t, a) == <<t, calls[t], a>>
Original(a) == <<NoThread, 0, a>>
Zero == <<NoThread, 1, 0>>   \* what data_buf holds at first
Noise == <<NoThread, 2, 0>>  \* what a transfer that went wrong delivers
Values == (Thread \cup {NoThread}) \X Nat \X (Addr \cup {0})

Steps == {"idle", "trns_len", "read_header", "read_data", "write_header",
          "write_data", "poll", "nop", "irr", "irr_again", "irw"}
HasFrame == {"read_data", "write_data"}

Init ==
  /\ pc = [t \in Thread |-> "idle"]
  /\ todo = [t \in Thread |-> << >>]
  /\ buf = [t \in Thread |-> [b \in 0 .. 3 |-> Zero]]
  /\ polls = [t \in Thread |-> 0]
  /\ owner = NoThread /\ cs = NoThread
  /\ trnsLen = 0
  /\ mem = [a \in Addr |-> Original(a)]
  /\ inflight = << >> /\ busy = FALSE
  /\ irq = FALSE
  /\ unserved = [t \in Thread |-> FALSE]
  /\ raised = [t \in Thread |-> FALSE]
  /\ written = [t \in Thread |-> << >>]
  /\ asked = {} /\ spoilt = {}
  /\ calls = [t \in Thread |-> 0]

-----------------------------------------------------------------------------
(* Calls and returns.                                                      *)

Entry(op) == CASE op = "read" -> "trns_len"
               [] op = "write" -> "write_header"
               [] op = "nop" -> "nop"

Goto(t, step) == pc' = [pc EXCEPT ![t] = step]

\* The bytes at addresses in S are no longer vouched for.
Without(done, S) == [a \in DOMAIN done \ S |-> done[a]]

\* ring_transport_read, ring_transport_write: data_buf is zeroed in each call.
CallAccess(t) ==
  /\ pc[t] = "idle" /\ calls[t] < MaxCalls
  /\ calls' = [calls EXCEPT ![t] = @ + 1]
  /\ buf' = [buf EXCEPT ![t] = [b \in 0 .. 3 |-> Zero]]
  /\ \E job \in Jobs[t] :
       /\ job.kind # "interrupt"
       /\ LET plan == IF job.kind = "read" THEN ReadPlan(job.addr, job.len)
                                           ELSE WritePlan(job.addr, job.len)
              range == IF job.kind = "read" THEN {} ELSE job.addr .. job.addr + job.len - 1
          IN  /\ todo' = [todo EXCEPT ![t] = plan] /\ Goto(t, Entry(plan[1].op))
              /\ written' = [written EXCEPT ![t] = Without(@, range)]
              /\ asked' = asked \cup range
  /\ UNCHANGED <<polls, owner, cs, trnsLen, mem, inflight, busy, irq, unserved, raised, spoilt>>

\* ring_transport_interrupt
CallInterrupt(t) ==
  /\ pc[t] = "idle" /\ calls[t] < MaxCalls
  /\ \E job \in Jobs[t] : job.kind = "interrupt"
  /\ Goto(t, "irr")
  /\ unserved' = [unserved EXCEPT ![t] = TRUE]
  /\ raised' = [raised EXCEPT ![t] = FALSE]
  /\ calls' = [calls EXCEPT ![t] = @ + 1]
  /\ UNCHANGED <<todo, buf, polls, owner, cs, trnsLen, mem, inflight, busy, irq, written, asked, spoilt>>

\* The bytes reported done, with those of an access that ended well.
WithAccess(done, t, access) ==
  [a \in DOMAIN done \cup access.from .. access.upto - 1 |->
     IF a \in DOMAIN done THEN done[a] ELSE Value(t, a)]

\* The current access ended well: the next one follows, or the call returns 0.
EndAccess(t) ==
  LET access == Head(todo[t])
  IN  /\ todo' = [todo EXCEPT ![t] = Tail(@)]
      /\ Goto(t, IF Tail(todo[t]) = << >> THEN "idle" ELSE Entry(todo[t][2].op))
      /\ written' = IF access.op = "write"
                      THEN [written EXCEPT ![t] = WithAccess(@, t, access)]
                      ELSE written

ReturnError(t) ==
  /\ Goto(t, "idle") /\ todo' = [todo EXCEPT ![t] = << >>]
  /\ UNCHANGED written

-----------------------------------------------------------------------------
(* qcspi_read.                                                             *)

\* qcspi_IRW takes and releases the mutex itself; its failure is logged only.
WriteTrnsLen(t) ==
  /\ pc[t] = "trns_len" /\ owner = NoThread
  /\ \/ trnsLen' = Head(todo[t]).size
     \/ Faults /\ UNCHANGED trnsLen
  /\ cs' = NoThread
  /\ Goto(t, "read_header")
  /\ UNCHANGED <<todo, buf, polls, owner, mem, inflight, busy, irq,
                 unserved, raised, written, asked, spoilt, calls>>

\* Mutant: the header is sent without taking qcspi_mutex.
HeaderNoLock(t, from, to) ==
  /\ pc[t] = from
  /\ owner' = t /\ cs' = t
  /\ Goto(t, to)
  /\ UNCHANGED <<todo, buf, polls, trnsLen, mem, inflight, busy, irq,
                 unserved, raised, written, asked, spoilt, calls>>

\* qcspi_mutex is taken and the header sent, with the chip select kept low.
Header(t, from, to) ==
  /\ pc[t] = from /\ owner = NoThread
  /\ owner' = t /\ cs' = t
  /\ Goto(t, to)
  /\ UNCHANGED <<todo, buf, polls, trnsLen, mem, inflight, busy, irq,
                 unserved, raised, written, asked, spoilt, calls>>

ReadHeader(t) == Header(t, "read_header", "read_data")

\* Mutant: an error in the header returns with the mutex held.
HeaderFailsNoUnlock(t) ==
  /\ pc[t] \in {"read_header", "write_header"} /\ owner = NoThread /\ Faults
  /\ owner' = t /\ cs' = NoThread
  /\ ReturnError(t)
  /\ UNCHANGED <<buf, polls, trnsLen, mem, inflight, busy, irq, unserved, raised, asked, spoilt, calls>>

\* An error deasserts the chip select; the mutex is given back.
HeaderFails(t) ==
  /\ pc[t] \in {"read_header", "write_header"} /\ owner = NoThread /\ Faults
  /\ cs' = NoThread
  /\ ReturnError(t)
  /\ UNCHANGED <<buf, polls, owner, trnsLen, mem, inflight, busy, irq, unserved, raised, asked, spoilt, calls>>

WordAt(a) == a .. a + 3

\* The call t is in is a write: it reads a word to complete it. (What a call that
\* reads hands to its caller is not modelled.)
Merges(t) == \E i \in DOMAIN todo[t] : todo[t][i].op = "write"

\* The words arrive, and the mutex is given back before the slave is polled. If
\* somebody ended the frame, or SPI_SLAVE_TRNS_LEN is that of another read or was
\* not written, what arrives is not known.
ReadData(t) ==
  /\ pc[t] = "read_data"
  /\ LET access == Head(todo[t])
         word == [b \in 0 .. 3 |-> mem[access.addr + b]]
         noise == [b \in 0 .. 3 |-> Noise]
         length == trnsLen = access.size
     IN  IF access.size = 4 /\ Merges(t)
           THEN /\ \E w \in IF cs = t /\ length THEN {word} ELSE {word, noise} :
                     buf' = [buf EXCEPT ![t] = w]
                /\ written' = IF length THEN written
                              ELSE [written EXCEPT ![t] = Without(@, WordAt(access.addr))]
                /\ spoilt' = IF length THEN spoilt ELSE spoilt \cup WordAt(access.addr)
           ELSE UNCHANGED <<buf, written, spoilt>>
  /\ owner' = NoThread /\ cs' = NoThread
  /\ busy' = TRUE
  /\ polls' = [polls EXCEPT ![t] = 0]
  /\ Goto(t, "poll")
  /\ UNCHANGED <<todo, trnsLen, mem, inflight, irq, unserved, raised, asked, calls>>

ReadDataFails(t) ==
  /\ pc[t] = "read_data" /\ Faults
  /\ owner' = NoThread /\ cs' = NoThread
  /\ ReturnError(t)
  /\ UNCHANGED <<buf, polls, trnsLen, mem, inflight, busy, irq, unserved, raised, asked, spoilt, calls>>

-----------------------------------------------------------------------------
(* qcspi_write and the NOP of qcspi_write_addr_align.                      *)

WriteHeader(t) == Header(t, "write_header", "write_data")

\* The caller's bytes, completed to whole words with those read before.
WordsToWrite(t, access) ==
  [a \in access.addr .. access.addr + access.size - 1 |->
     IF a \in access.from .. access.upto - 1
       THEN Value(t, a) ELSE buf[t][a - access.addr]]

\* The slave accepts the words if nobody ended the frame.
SlaveAccepts(t) ==
  /\ inflight' = IF cs = t
                   THEN Append(inflight, WordsToWrite(t, Head(todo[t])))
                   ELSE inflight
  /\ busy' = TRUE

WriteData(t) ==
  /\ pc[t] = "write_data"
  /\ SlaveAccepts(t)
  /\ owner' = NoThread /\ cs' = NoThread
  /\ polls' = [polls EXCEPT ![t] = 0]
  /\ Goto(t, "poll")
  /\ UNCHANGED <<todo, buf, trnsLen, mem, irq, unserved, raised, written, asked, spoilt, calls>>

\* An error, with or without the words having reached the slave.
WriteDataFails(t) ==
  /\ pc[t] = "write_data" /\ Faults
  /\ SlaveAccepts(t) \/ UNCHANGED <<inflight, busy>>
  /\ owner' = NoThread /\ cs' = NoThread
  /\ ReturnError(t)
  /\ UNCHANGED <<buf, polls, trnsLen, mem, irq, unserved, raised, asked, spoilt, calls>>

\* The NOP is sent without the mutex, and its end releases the chip select.
NopTransfer(t) ==
  /\ pc[t] = "nop"
  /\ cs' = NoThread
  /\ EndAccess(t)
  /\ UNCHANGED <<buf, polls, owner, trnsLen, mem, inflight, busy, irq, unserved, raised, asked, spoilt, calls>>

-----------------------------------------------------------------------------
(* The status polls that end a read or a write.                            *)

\* Mutant: one successful poll is enough.
PollAnyStatus(t) ==
  /\ pc[t] = "poll" /\ owner = NoThread
  /\ cs' = NoThread
  /\ EndAccess(t)
  /\ UNCHANGED <<buf, polls, owner, trnsLen, mem, inflight, busy, irq, unserved, raised, asked, spoilt, calls>>

PollReady(t) ==
  /\ pc[t] = "poll" /\ owner = NoThread
  /\ ~ busy
  /\ cs' = NoThread
  /\ EndAccess(t)
  /\ UNCHANGED <<buf, polls, owner, trnsLen, mem, inflight, busy, irq, unserved, raised, asked, spoilt, calls>>

\* Mutant: polling goes on for as long as the slave is busy.
PollAgainForever(t) ==
  /\ pc[t] = "poll" /\ owner = NoThread
  /\ busy \/ Faults
  /\ cs' = NoThread
  /\ UNCHANGED <<pc, todo, buf, polls, owner, trnsLen, mem, inflight, busy, irq,
                 unserved, raised, written, asked, spoilt, calls>>

\* Mutant: the limit of the polls is missing.
PollAgainNoLimit(t) ==
  /\ pc[t] = "poll" /\ owner = NoThread
  /\ busy \/ Faults
  /\ cs' = NoThread
  /\ polls' = [polls EXCEPT ![t] = @ + 1]
  /\ UNCHANGED <<pc, todo, buf, owner, trnsLen, mem, inflight, busy, irq,
                 unserved, raised, written, asked, spoilt, calls>>

\* Busy, or an error of the poll itself: again, up to the limit.
PollAgain(t) ==
  /\ pc[t] = "poll" /\ owner = NoThread
  /\ busy \/ Faults
  /\ cs' = NoThread
  /\ polls' = [polls EXCEPT ![t] = @ + 1]
  /\ IF polls[t] + 1 = MaxTries - 1
       THEN ReturnError(t)
       ELSE UNCHANGED <<pc, todo, written>>
  /\ UNCHANGED <<buf, owner, trnsLen, mem, inflight, busy, irq, unserved, raised, asked, spoilt, calls>>

-----------------------------------------------------------------------------
(* qcspi_interrupt.                                                        *)

InterruptReturns(t, ok) ==
  /\ Goto(t, "idle")
  /\ raised' = [raised EXCEPT ![t] = ok]

\* Reads SPI_SLAVE_CONFIG; the second read decides if the bit was found set.
ReadConfig(t) ==
  /\ pc[t] = "irr" /\ owner = NoThread
  /\ cs' = NoThread
  /\ \/ Goto(t, IF irq THEN "irr_again" ELSE "irw") /\ UNCHANGED raised
     \/ Faults /\ InterruptReturns(t, FALSE)
  /\ UNCHANGED <<todo, buf, polls, owner, trnsLen, mem, inflight, busy, irq,
                 unserved, written, asked, spoilt, calls>>

ReadConfigAgain(t) ==
  /\ pc[t] = "irr_again" /\ owner = NoThread
  /\ cs' = NoThread
  /\ \/ irq /\ InterruptReturns(t, TRUE)
     \/ (~ irq \/ Faults) /\ Goto(t, "irw") /\ UNCHANGED raised
  /\ UNCHANGED <<todo, buf, polls, owner, trnsLen, mem, inflight, busy, irq,
                 unserved, written, asked, spoilt, calls>>

\* Mutant: the value is written back as it was read.
WriteConfigUnset(t) ==
  /\ pc[t] = "irw" /\ owner = NoThread
  /\ cs' = NoThread
  /\ InterruptReturns(t, TRUE)
  /\ UNCHANGED <<todo, buf, polls, owner, trnsLen, mem, inflight, busy, irq,
                 unserved, written, asked, spoilt, calls>>

WriteConfig(t) ==
  /\ pc[t] = "irw" /\ owner = NoThread
  /\ cs' = NoThread
  /\ \/ irq' = TRUE /\ InterruptReturns(t, TRUE)
     \/ Faults /\ UNCHANGED irq /\ InterruptReturns(t, FALSE)
  /\ UNCHANGED <<todo, buf, polls, owner, trnsLen, mem, inflight, busy,
                 unserved, written, asked, spoilt, calls>>

-----------------------------------------------------------------------------
(* The slave.                                                              *)

Override(f, g) == [a \in DOMAIN f |-> IF a \in DOMAIN g THEN g[a] ELSE f[a]]

SlaveStores ==
  /\ inflight # << >>
  /\ mem' = Override(mem, Head(inflight))
  /\ inflight' = Tail(inflight)
  /\ UNCHANGED <<pc, todo, buf, polls, owner, cs, trnsLen, busy, irq,
                 unserved, raised, written, asked, spoilt, calls>>

SlaveReady ==
  /\ busy /\ inflight = << >>
  /\ busy' = FALSE
  /\ UNCHANGED <<pc, todo, buf, polls, owner, cs, trnsLen, mem, inflight, irq,
                 unserved, raised, written, asked, spoilt, calls>>

\* The slave clears the interrupt and then looks at what the host published.
SlaveServes ==
  /\ irq
  /\ irq' = FALSE
  /\ unserved' = [t \in Thread |-> FALSE]
  /\ UNCHANGED <<pc, todo, buf, polls, owner, cs, trnsLen, mem, inflight, busy,
                 raised, written, asked, spoilt, calls>>

-----------------------------------------------------------------------------

Step(t) ==
  \/ WriteTrnsLen(t) \/ ReadHeader(t) \/ HeaderFails(t) \/ ReadData(t) \/ ReadDataFails(t)
  \/ WriteHeader(t) \/ WriteData(t) \/ WriteDataFails(t) \/ NopTransfer(t)
  \/ PollReady(t) \/ PollAgain(t)
  \/ ReadConfig(t) \/ ReadConfigAgain(t) \/ WriteConfig(t)

Next ==
  \/ \E t \in Thread : CallAccess(t) \/ CallInterrupt(t) \/ Step(t)
  \/ SlaveStores \/ SlaveReady \/ SlaveServes

Spec == Init /\ [][Next]_vars

\* A thread in a call is scheduled and gets qcspi_mutex when it keeps being
\* released.  Nothing is assumed of the slave.
FairSpec == Spec /\ \A t \in Thread : SF_vars(Step(t))

-----------------------------------------------------------------------------
(* Properties.                                                             *)

\* Values, and the program counter with the accesses left to make.
TypeOK ==
  /\ pc \in [Thread -> Steps]
  /\ \A t \in Thread : pc[t] \in Steps \ {"idle", "irr", "irr_again", "irw"}
                         <=> todo[t] # << >>
  /\ buf \in [Thread -> [0 .. 3 -> Values]]
  /\ polls \in [Thread -> 0 .. MaxTries - 1]
  /\ owner \in Thread \cup {NoThread}
  /\ cs \in Thread \cup {NoThread}
  /\ trnsLen \in Nat
  /\ mem \in [Addr -> Values]
  /\ busy \in BOOLEAN /\ irq \in BOOLEAN
  /\ unserved \in [Thread -> BOOLEAN] /\ raised \in [Thread -> BOOLEAN]
  /\ DOMAIN written = Thread
  /\ \A t \in Thread : DOMAIN written[t] \subseteq Addr
  /\ asked \subseteq Addr /\ spoilt \subseteq Addr
  /\ calls \in [Thread -> 0 .. MaxCalls]

\* "Mutex for thread-safe access": the data phase of a read or write is sent
\* in the frame its own header opened.
FrameIntact == \A t \in Thread : pc[t] \in HasFrame => cs = t

\* qcspi_mutex is held across a frame and by nobody else.
MutexNotLeaked ==
  /\ \A t \in Thread : owner = t <=> pc[t] \in HasFrame
  /\ cs # NoThread => cs = owner

\* A byte of a write that returned 0, or of an access of it that ended well, is in
\* slave memory and stays there, also when later calls write the bytes around it,
\* until the caller is asked to write it again. What is not vouched for is a word
\* that was read, to be completed, with another length set than its own.
OkIsWritten ==
  \A t \in Thread : \A a \in DOMAIN written[t] : mem[a] = written[t][a]

\* v may be at address a: it was there at first, or a call that was asked to write
\* there wrote it for this address. Noise is tolerated only in a word that was
\* read, to be completed, with another length set than its own: the failure to set
\* it is logged and no more.
Belongs(v, a) ==
  \/ v = Original(a)
  \/ a \in asked /\ v[1] \in Thread /\ v[3] = a
  \/ a \in spoilt /\ v = Noise

\* No call changes a byte outside the ranges it and others were asked to write,
\* although it writes whole words around them: every other byte of such a word is
\* written back as it was read, to its own address.
NeighboursKept == \A a \in Addr : Belongs(mem[a], a)

\* After qcspi_interrupt returns 0 the slave has been interrupted since the
\* call began or still will be.
InterruptReachesSlave ==
  \A t \in Thread : pc[t] = "idle" /\ raised[t] /\ unserved[t] => irq

\* Every call returns, whatever the slave does.
CallsReturn == \A t \in Thread : pc[t] # "idle" ~> pc[t] = "idle"
=============================================================================
