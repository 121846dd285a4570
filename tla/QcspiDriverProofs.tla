-------------------------- MODULE QcspiDriverProofs --------------------------
(***************************************************************************)
(* The QCSPI driver for any number of threads and any calls: the types,    *)
(* qcspi_mutex and the chip select, the interrupt, and the bytes of slave  *)
(* memory.  The mutex is held for exactly one frame; frames stay whole,    *)
(* neighbours of what was asked keep their bytes and a write that returned *)
(* 0 is in memory, as long as no NOP of a partial word meets the frame of  *)
(* another thread.                                                         *)
(***************************************************************************)
EXTENDS QcspiDriver, TLAPS

-----------------------------------------------------------------------------
(* The word accesses of an unaligned transfer tile its byte range.         *)

\* Rounding down gives the multiple of four at or below, less than a word away.
LEMMA AlignDownBounds ==
  ASSUME NEW a \in Nat
  PROVE  /\ AlignDown(a) \in Nat /\ AlignDown(a) % 4 = 0
         /\ AlignDown(a) <= a /\ a < AlignDown(a) + 4
  BY DEF AlignDown

\* The first part has one to four bytes, no more than asked for, and reaches
\* the end of its word unless it is the whole range.
LEMMA FirstPart ==
  ASSUME NEW a \in Nat, NEW n \in Nat \ {0}
  PROVE  /\ FirstSize(a, n) \in 1 .. 4 /\ FirstSize(a, n) <= n
         /\ a + FirstSize(a, n) <= MiddleAddr(a)
         /\ FirstSize(a, n) < n => a + FirstSize(a, n) = MiddleAddr(a)
  BY DEF FirstSize, MiddleAddr, AlignDown

\* The middle part is a number of words and leaves less than a word.
LEMMA MiddlePart ==
  ASSUME NEW a \in Nat, NEW n \in Nat \ {0}
  PROVE  /\ MiddleSize(a, n) \in Nat /\ MiddleSize(a, n) % 4 = 0
         /\ LastSize(a, n) \in 0 .. 3
         /\ FirstSize(a, n) + MiddleSize(a, n) + LastSize(a, n) = n
<1> DEFINE f == FirstSize(a, n)
<1>1. f \in Nat /\ n - f \in Nat
  BY FirstPart
<1>2. CASE n >= f + 4
  <2>1. MiddleSize(a, n) = AlignDown(n - f)
    BY <1>2 DEF MiddleSize
  <2>2. /\ AlignDown(n - f) \in Nat /\ AlignDown(n - f) % 4 = 0
        /\ AlignDown(n - f) <= n - f /\ n - f < AlignDown(n - f) + 4
    BY <1>1, AlignDownBounds
  <2> HIDE DEF f
  <2>3. LastSize(a, n) = n - f - AlignDown(n - f)
    BY <2>1 DEF LastSize, f
  <2>4. f = FirstSize(a, n)
    BY DEF f
  <2> QED
    BY <1>1, <2>1, <2>2, <2>3, <2>4
<1>3. CASE ~ (n >= f + 4)
  <2>1. MiddleSize(a, n) = 0
    BY <1>3 DEF MiddleSize
  <2>2. LastSize(a, n) = n - f
    BY <1>1, <2>1 DEF LastSize
  <2> QED
    BY <1>1, <1>3, <2>1, <2>2
<1> QED
  BY <1>2, <1>3

\* For every address and length, the accesses are to aligned, whole words, the
\* parts follow one another without gap or overlap from a to a + n, and each
\* part lies in the words of its access.
THEOREM PartsTileRange ==
  ASSUME NEW a \in Nat, NEW n \in Nat \ {0}, NEW op
  PROVE  LET fst == First(op, a, n)
             mid == Middle(op, a, n)
             lst == Last(op, a, n)
         IN  /\ \A x \in {fst, mid, lst} : x.addr % 4 = 0 /\ x.size % 4 = 0
             /\ fst.from = a
             /\ MiddleSize(a, n) > 0 => fst.upto = mid.from
             /\ MiddleSize(a, n) = 0 /\ LastSize(a, n) > 0 => fst.upto = lst.from
             /\ LastSize(a, n) > 0 => mid.upto = lst.from /\ lst.upto = a + n
             /\ LastSize(a, n) = 0 /\ MiddleSize(a, n) > 0 => mid.upto = a + n
             /\ LastSize(a, n) = 0 /\ MiddleSize(a, n) = 0 => fst.upto = a + n
             /\ \A x \in {fst, mid, lst} :
                  x.addr <= x.from /\ (x.from < x.upto => x.upto <= x.addr + x.size)
<1> DEFINE f == FirstSize(a, n)
           m == MiddleSize(a, n)
           l == LastSize(a, n)
           w == AlignDown(a)
<1>1. /\ w \in Nat /\ w % 4 = 0 /\ w <= a /\ a < w + 4
  BY AlignDownBounds
<1>2. /\ f \in 1 .. 4 /\ f <= n /\ a + f <= w + 4
      /\ f < n => a + f = w + 4
  BY FirstPart DEF MiddleAddr
<1>3. /\ m \in Nat /\ m % 4 = 0 /\ l \in 0 .. 3 /\ f + m + l = n
  BY MiddlePart
<1>4. /\ MiddleAddr(a) = w + 4 /\ LastAddr(a, n) = w + 4 + m
  BY DEF MiddleAddr, LastAddr
<1>5. (w + 4) % 4 = 0 /\ (w + 4 + m) % 4 = 0
  BY <1>1, <1>3
<1>6. /\ First(op, a, n).addr = w /\ First(op, a, n).size = 4
      /\ First(op, a, n).from = a /\ First(op, a, n).upto = a + f
  BY DEF First, Access
<1>7. /\ Middle(op, a, n).addr = w + 4 /\ Middle(op, a, n).size = m
      /\ Middle(op, a, n).from = w + 4 /\ Middle(op, a, n).upto = w + 4 + m
  BY <1>4 DEF Middle, Access
<1>8. /\ Last(op, a, n).addr = w + 4 + m /\ Last(op, a, n).size = 4
      /\ Last(op, a, n).from = w + 4 + m /\ Last(op, a, n).upto = a + n
  BY <1>4 DEF Last, Access
<1> HIDE DEF f, m, l, w
<1>9. m > 0 \/ l > 0 => a + f = w + 4
  BY <1>2, <1>3
<1>10. l > 0 => a + n <= w + 4 + m + 4
  BY <1>1, <1>2, <1>3, <1>9
<1>11. l = 0 /\ m > 0 => w + 4 + m = a + n
  BY <1>1, <1>2, <1>3, <1>9
<1>12. l = 0 => a + n <= w + 4 + m
  BY <1>1, <1>2, <1>3
<1>13. l = 0 /\ m = 0 => a + f = a + n
  BY <1>2, <1>3
<1>14. \A x \in {First(op, a, n), Middle(op, a, n), Last(op, a, n)} :
         x.addr % 4 = 0 /\ x.size % 4 = 0
  BY <1>1, <1>3, <1>5, <1>6, <1>7, <1>8
<1>15. \A x \in {First(op, a, n), Middle(op, a, n), Last(op, a, n)} :
         x.addr <= x.from /\ (x.from < x.upto => x.upto <= x.addr + x.size)
  BY <1>1, <1>2, <1>3, <1>6, <1>7, <1>8, <1>10, <1>12
<1>16. m = MiddleSize(a, n) /\ l = LastSize(a, n)
  BY DEF m, l
<1>17. m = 0 /\ l > 0 => a + f = w + 4 + m
  BY <1>1, <1>9
<1> QED
  BY <1>3, <1>6, <1>7, <1>8, <1>9, <1>11, <1>13, <1>14, <1>15, <1>16, <1>17

-----------------------------------------------------------------------------
(* The mutex and the chip select.                                          *)

\* No call writes a partial word, so none sends the unprotected NOP.
AlignedWrites ==
  \A t \in Thread : \A job \in Jobs[t] :
    job.kind = "write" => IsAligned(job.addr, job.len)

\* Nobody's NOP can meet the frame of another.
Quiet == AlignedWrites \/ \A t, u \in Thread : t = u

Ops == IF AlignedWrites THEN {"read", "write"} ELSE {"read", "write", "nop"}

Accesses(ops) ==
  [op : ops, addr : Int, size : Int, from : Int, upto : Int]

AccessSteps == Steps \ {"idle", "irr", "irr_again", "irw"}

ControlInv ==
  /\ pc \in [Thread -> Steps]
  /\ todo \in [Thread -> Seq(Accesses(Ops))]
  /\ owner \in Thread \cup {NoThread}
  /\ cs \in Thread \cup {NoThread}
  /\ \A t \in Thread : pc[t] \in AccessSteps => todo[t] # << >>

NopInv == AlignedWrites => \A t \in Thread : pc[t] # "nop"

Inv ==
  /\ ControlInv /\ NopInv /\ MutexNotLeaked
  /\ Quiet => FrameIntact

-----------------------------------------------------------------------------
(* The plans.                                                              *)

LEMMA PartTypes ==
  ASSUME NEW a \in Nat, NEW n \in Nat \ {0}, NEW ops, NEW op \in ops
  PROVE  /\ First(op, a, n) \in Accesses(ops)
         /\ Middle(op, a, n) \in Accesses(ops)
         /\ Last(op, a, n) \in Accesses(ops)
         /\ Whole(op, a, n) \in Accesses(ops)
<1>1. AlignDown(a) \in Int /\ MiddleAddr(a) \in Int
  BY AlignDownBounds DEF MiddleAddr
<1>2. FirstSize(a, n) \in Int
  BY FirstPart
<1>3. MiddleSize(a, n) \in Int
  BY MiddlePart
<1>4. LastAddr(a, n) \in Int
  BY <1>1, <1>3 DEF LastAddr
<1>5. a + FirstSize(a, n) \in Int /\ a + n \in Int
  BY <1>2
<1>6. First(op, a, n) \in Accesses(ops)
  BY <1>1, <1>5 DEF First, Access, Accesses
<1>7. Middle(op, a, n) \in Accesses(ops)
  BY <1>1, <1>3, <1>4 DEF Middle, Access, Accesses
<1>8. Last(op, a, n) \in Accesses(ops)
  BY <1>4, <1>5 DEF Last, Access, Accesses
<1>9. Whole(op, a, n) \in Accesses(ops)
  BY <1>5 DEF Whole, Access, Accesses
<1> QED
  BY <1>6, <1>7, <1>8, <1>9

LEMMA ConcatTypes ==
  ASSUME NEW S, NEW p \in Seq(S), NEW q \in Seq(S), Len(p) > 0
  PROVE  p \o q \in Seq(S) /\ Len(p \o q) > 0
  OBVIOUS

LEMMA ReadPlanTypes ==
  ASSUME NEW a \in Nat, NEW n \in Nat \ {0}, NEW ops, "read" \in ops
  PROVE  ReadPlan(a, n) \in Seq(Accesses(ops)) /\ Len(ReadPlan(a, n)) > 0
<1> DEFINE A == Accesses(ops)
           f == <<First("read", a, n)>>
           m == IF MiddleSize(a, n) > 0 THEN <<Middle("read", a, n)>> ELSE << >>
           l == IF LastSize(a, n) > 0 THEN <<Last("read", a, n)>> ELSE << >>
           w == <<Whole("read", a, n)>>
<1>1. f \in Seq(A) /\ Len(f) > 0
  BY PartTypes
<1>2. m \in Seq(A) /\ l \in Seq(A)
  BY PartTypes
<1>3. w \in Seq(A) /\ Len(w) > 0
  BY PartTypes
<1>4. ReadPlan(a, n) = IF IsAligned(a, n) THEN w ELSE f \o m \o l
  BY DEF ReadPlan
<1> HIDE DEF A, f, m, l, w
<1>5. f \o m \in Seq(A) /\ Len(f \o m) > 0
  BY <1>1, <1>2, ConcatTypes
<1>6. f \o m \o l \in Seq(A) /\ Len(f \o m \o l) > 0
  BY <1>2, <1>5, ConcatTypes
<1> QED
  BY <1>3, <1>4, <1>6 DEF A

LEMMA WritePlanTypes ==
  ASSUME NEW a \in Nat, NEW n \in Nat \ {0}, NEW ops,
         "read" \in ops, "write" \in ops, IsAligned(a, n) \/ "nop" \in ops
  PROVE  WritePlan(a, n) \in Seq(Accesses(ops)) /\ Len(WritePlan(a, n)) > 0
<1> DEFINE A == Accesses(ops)
           f == <<First("read", a, n), Nop(a), First("write", a, n)>>
           m == IF MiddleSize(a, n) > 0 THEN <<Middle("write", a, n)>> ELSE << >>
           l == IF LastSize(a, n) > 0
                  THEN <<Last("read", a, n), Last("write", a, n)>> ELSE << >>
           w == <<Whole("write", a, n)>>
<1>1. ASSUME ~ IsAligned(a, n) PROVE f \in Seq(A) /\ Len(f) > 0
  <2>1. Nop(a) \in A
    BY <1>1 DEF Nop, Access, Accesses
  <2>2. First("read", a, n) \in A /\ First("write", a, n) \in A
    BY PartTypes
  <2> QED
    BY <2>1, <2>2
<1>2. m \in Seq(A)
  BY PartTypes
<1>3. l \in Seq(A)
  <2>1. Last("read", a, n) \in A /\ Last("write", a, n) \in A
    BY PartTypes
  <2> QED
    BY <2>1
<1>4. w \in Seq(A) /\ Len(w) > 0
  BY PartTypes
<1>5. WritePlan(a, n) = IF IsAligned(a, n) THEN w ELSE f \o m \o l
  BY DEF WritePlan
<1> HIDE DEF A, f, m, l, w
<1>6. ASSUME ~ IsAligned(a, n)
      PROVE  f \o m \o l \in Seq(A) /\ Len(f \o m \o l) > 0
  <2>1. f \o m \in Seq(A) /\ Len(f \o m) > 0
    BY <1>1, <1>2, <1>6, ConcatTypes
  <2> QED
    BY <1>3, <2>1, ConcatTypes
<1> QED
  BY <1>4, <1>5, <1>6 DEF A

-----------------------------------------------------------------------------
(* Steps, by what they do to the mutex and the chip select.                *)

LEMMA FrameStarts ==
  ASSUME Inv, NEW t \in Thread, NEW s \in HasFrame,
         owner = NoThread, pc' = [pc EXCEPT ![t] = s], owner' = t, cs' = t
  PROVE  MutexNotLeaked' /\ (Quiet => FrameIntact')
<1> USE DriverAssumption DEF Inv, ControlInv, MutexNotLeaked, FrameIntact
<1>1. \A u \in Thread : pc[u] \notin HasFrame
  OBVIOUS
<1>2. \A u \in Thread : pc'[u] = IF u = t THEN s ELSE pc[u]
  OBVIOUS
<1> QED
  BY <1>1, <1>2

LEMMA FrameEnds ==
  ASSUME Inv, NEW t \in Thread, NEW s \in Steps \ HasFrame,
         pc[t] \in HasFrame, pc' = [pc EXCEPT ![t] = s],
         owner' = NoThread, cs' = NoThread
  PROVE  MutexNotLeaked' /\ (Quiet => FrameIntact')
<1> USE DriverAssumption DEF Inv, ControlInv, MutexNotLeaked, FrameIntact
<1>1. \A u \in Thread : pc[u] \in HasFrame => u = t
  OBVIOUS
<1>2. \A u \in Thread : pc'[u] = IF u = t THEN s ELSE pc[u]
  OBVIOUS
<1> QED
  BY <1>1, <1>2

LEMMA NoFrame ==
  ASSUME Inv, NEW t \in Thread, NEW s \in Steps \ HasFrame,
         pc[t] \notin HasFrame, pc' = [pc EXCEPT ![t] = s],
         UNCHANGED owner, cs' \in {cs, NoThread},
         Quiet => owner = NoThread \/ cs' = cs
  PROVE  MutexNotLeaked' /\ (Quiet => FrameIntact')
<1> USE DriverAssumption DEF Inv, ControlInv, MutexNotLeaked, FrameIntact
<1>1. \A u \in Thread : pc'[u] = IF u = t THEN s ELSE pc[u]
  OBVIOUS
<1>2. \A u \in Thread : pc'[u] \in HasFrame <=> pc[u] \in HasFrame
  BY <1>1
<1> QED
  BY <1>1, <1>2

\* The step an access is entered at.
LEMMA EntryStep ==
  ASSUME NEW x \in Accesses(Ops)
  PROVE  /\ Entry(x.op) \in AccessSteps \ HasFrame
         /\ AlignedWrites => Entry(x.op) # "nop"
  BY DEF Accesses, Ops, Entry, AccessSteps, Steps, HasFrame

\* What an ended access leaves behind.
LEMMA EndAccessStep ==
  ASSUME Inv, NEW t \in Thread, pc[t] \in AccessSteps, EndAccess(t)
  PROVE  /\ todo' \in [Thread -> Seq(Accesses(Ops))]
         /\ \E s \in Steps \ HasFrame :
              /\ pc' = [pc EXCEPT ![t] = s]
              /\ s \in AccessSteps => todo'[t] # << >>
              /\ AlignedWrites => s # "nop"
         /\ \A u \in Thread \ {t} : todo'[u] = todo[u]
<1> DEFINE A == Accesses(Ops)
<1>1. todo[t] \in Seq(A) /\ todo[t] # << >>
  BY DEF Inv, ControlInv
<1>2. Tail(todo[t]) \in Seq(A)
  BY <1>1
<1>3. todo' = [todo EXCEPT ![t] = Tail(todo[t])]
  BY DEF EndAccess
<1>4. todo \in [Thread -> Seq(A)]
  BY DEF Inv, ControlInv
<1>5. /\ todo' \in [Thread -> Seq(A)] /\ todo'[t] = Tail(todo[t])
      /\ \A u \in Thread \ {t} : todo'[u] = todo[u]
  BY <1>2, <1>3, <1>4
<1>6. CASE Tail(todo[t]) = << >>
  <2>1. pc' = [pc EXCEPT ![t] = "idle"]
    BY <1>6 DEF EndAccess, Goto
  <2>2. "idle" \in Steps \ HasFrame /\ "idle" \notin AccessSteps
    BY DEF Steps, HasFrame, AccessSteps
  <2> QED
    BY <1>5, <2>1, <2>2
<1>7. CASE Tail(todo[t]) # << >>
  <2>1. todo[t][2] \in A
    BY <1>1, <1>2, <1>7
  <2>2. pc' = [pc EXCEPT ![t] = Entry(todo[t][2].op)]
    BY <1>7 DEF EndAccess, Goto
  <2>3. /\ Entry(todo[t][2].op) \in Steps \ HasFrame
        /\ AlignedWrites => Entry(todo[t][2].op) # "nop"
    BY <2>1, EntryStep DEF AccessSteps
  <2> QED
    BY <1>5, <1>7, <2>2, <2>3
<1> QED
  BY <1>6, <1>7

LEMMA ControlKept ==
  ASSUME Inv, NEW t \in Thread, NEW s \in Steps,
         pc' = [pc EXCEPT ![t] = s],
         todo' \in [Thread -> Seq(Accesses(Ops))],
         \A u \in Thread \ {t} : todo'[u] = todo[u],
         s \in AccessSteps => todo'[t] # << >>,
         owner' \in Thread \cup {NoThread}, cs' \in Thread \cup {NoThread},
         AlignedWrites => s # "nop"
  PROVE  ControlInv' /\ NopInv'
<1>1. pc \in [Thread -> Steps]
  BY DEF Inv, ControlInv
<1>2. pc' \in [Thread -> Steps] /\ \A u \in Thread : pc'[u] = IF u = t THEN s ELSE pc[u]
  BY <1>1
<1>3. \A u \in Thread : pc'[u] \in AccessSteps => todo'[u] # << >>
  BY <1>2 DEF Inv, ControlInv
<1>4. NopInv'
  BY <1>2 DEF Inv, NopInv
<1> QED
  BY <1>2, <1>3, <1>4 DEF ControlInv

\* A step of t that leaves its accesses alone.
LEMMA PlainStep ==
  ASSUME Inv, NEW t \in Thread, NEW s \in Steps,
         pc' = [pc EXCEPT ![t] = s], UNCHANGED todo,
         s \in AccessSteps => pc[t] \in AccessSteps,
         owner' \in Thread \cup {NoThread}, cs' \in Thread \cup {NoThread},
         s # "nop"
  PROVE  ControlInv' /\ NopInv'
<1>1. todo' \in [Thread -> Seq(Accesses(Ops))] /\ \A u \in Thread : todo'[u] = todo[u]
  BY DEF Inv, ControlInv
<1>2. s \in AccessSteps => todo'[t] # << >>
  BY <1>1 DEF Inv, ControlInv
<1> QED
  BY <1>1, <1>2, ControlKept

LEMMA ReturnErrorStep ==
  ASSUME Inv, NEW t \in Thread, ReturnError(t),
         owner' \in Thread \cup {NoThread}, cs' \in Thread \cup {NoThread}
  PROVE  /\ ControlInv' /\ NopInv'
         /\ pc' = [pc EXCEPT ![t] = "idle"]
<1>1. pc' = [pc EXCEPT ![t] = "idle"] /\ todo' = [todo EXCEPT ![t] = << >>]
  BY DEF ReturnError, Goto
<1>2. todo' \in [Thread -> Seq(Accesses(Ops))] /\ \A u \in Thread \ {t} : todo'[u] = todo[u]
  BY <1>1 DEF Inv, ControlInv
<1>3. "idle" \in Steps /\ "idle" \notin AccessSteps
  BY DEF Steps, AccessSteps
<1> QED
  BY <1>1, <1>2, <1>3, ControlKept

LEMMA EndAccessKeeps ==
  ASSUME Inv, NEW t \in Thread, pc[t] \in AccessSteps \ HasFrame, EndAccess(t),
         UNCHANGED owner, cs' = NoThread,
         Quiet => owner = NoThread
  PROVE  Inv'
<1>1. PICK s \in Steps \ HasFrame :
        /\ pc' = [pc EXCEPT ![t] = s]
        /\ s \in AccessSteps => todo'[t] # << >>
        /\ AlignedWrites => s # "nop"
  BY EndAccessStep
<1>2. todo' \in [Thread -> Seq(Accesses(Ops))] /\ \A u \in Thread \ {t} : todo'[u] = todo[u]
  BY EndAccessStep
<1>3. owner' \in Thread \cup {NoThread} /\ cs' \in {cs, NoThread}
  BY DEF Inv, ControlInv
<1>4. ControlInv' /\ NopInv'
  BY <1>1, <1>2, <1>3, ControlKept
<1>5. MutexNotLeaked' /\ (Quiet => FrameIntact')
  BY <1>1, NoFrame
<1> QED
  BY <1>4, <1>5 DEF Inv, AlignedWrites

-----------------------------------------------------------------------------
(* The induction.                                                          *)

LEMMA InvInit == Init => Inv
<1> SUFFICES ASSUME Init PROVE Inv
  OBVIOUS
<1>1. /\ pc = [t \in Thread |-> "idle"] /\ todo = [t \in Thread |-> << >>]
      /\ owner = NoThread /\ cs = NoThread
  BY DEF Init
<1>2. ControlInv
  BY <1>1 DEF ControlInv, Steps, AccessSteps
<1> QED
  BY <1>1, <1>2, DriverAssumption
  DEF Inv, NopInv, MutexNotLeaked, FrameIntact, HasFrame

\* Everything the invariant speaks about.
control == <<pc, todo, owner, cs>>

LEMMA Stutter == ASSUME Inv, UNCHANGED control PROVE Inv'
  BY DEF Inv, ControlInv, NopInv, MutexNotLeaked, FrameIntact, control

LEMMA CallAccessKeeps == ASSUME Inv, NEW t \in Thread, CallAccess(t) PROVE Inv'
<1>1. PICK job \in Jobs[t] :
        /\ job.kind # "interrupt"
        /\ LET plan == IF job.kind = "read" THEN ReadPlan(job.addr, job.len)
                                            ELSE WritePlan(job.addr, job.len)
           IN  todo' = [todo EXCEPT ![t] = plan] /\ Goto(t, Entry(plan[1].op))
  BY DEF CallAccess
<1> DEFINE plan == IF job.kind = "read" THEN ReadPlan(job.addr, job.len)
                                        ELSE WritePlan(job.addr, job.len)
<1>2. todo' = [todo EXCEPT ![t] = plan] /\ pc' = [pc EXCEPT ![t] = Entry(plan[1].op)]
  BY <1>1 DEF Goto
<1>3. job.addr \in Nat /\ job.len \in Nat \ {0} /\ job.kind \in {"read", "write"}
  BY <1>1, DriverAssumption DEF Job
<1>4. job.kind = "write" => IsAligned(job.addr, job.len) \/ "nop" \in Ops
  BY DEF AlignedWrites, Ops
<1>5. plan \in Seq(Accesses(Ops)) /\ Len(plan) > 0
  <2>1. "read" \in Ops /\ "write" \in Ops
    BY DEF Ops
  <2> QED
    BY <1>3, <1>4, <2>1, ReadPlanTypes, WritePlanTypes
<1> HIDE DEF plan
<1>6. plan[1] \in Accesses(Ops) /\ plan # << >>
  BY <1>5
<1>7. /\ Entry(plan[1].op) \in AccessSteps \ HasFrame
      /\ Entry(plan[1].op) \in Steps \ HasFrame
      /\ AlignedWrites => Entry(plan[1].op) # "nop"
  BY <1>6, EntryStep DEF AccessSteps
<1>8. UNCHANGED <<owner, cs>> /\ pc[t] = "idle"
  BY DEF CallAccess
<1>9. ControlInv' /\ NopInv'
  <2>1. /\ todo' \in [Thread -> Seq(Accesses(Ops))]
        /\ \A u \in Thread \ {t} : todo'[u] = todo[u]
        /\ todo'[t] # << >>
    BY <1>2, <1>5, <1>6 DEF Inv, ControlInv
  <2>2. owner' \in Thread \cup {NoThread} /\ cs' \in Thread \cup {NoThread}
    BY <1>8 DEF Inv, ControlInv
  <2> QED
    BY <1>2, <1>7, <2>1, <2>2, ControlKept
<1>10. MutexNotLeaked' /\ (Quiet => FrameIntact')
  <2>1. pc[t] \notin HasFrame
    BY <1>8 DEF HasFrame
  <2> QED
    BY <1>2, <1>7, <1>8, <2>1, NoFrame
<1> QED
  BY <1>9, <1>10 DEF Inv

\* A register access or poll: one transfer inside the mutex.
LEMMA OneTransferKeeps ==
  ASSUME Inv, NEW t \in Thread, NEW s \in Steps \ HasFrame,
         pc[t] \notin HasFrame, pc' = [pc EXCEPT ![t] = s],
         s \in AccessSteps => pc[t] \in AccessSteps, s # "nop",
         owner = NoThread, UNCHANGED <<todo, owner>>, cs' \in {cs, NoThread}
  PROVE  Inv'
<1>1. owner' \in Thread \cup {NoThread} /\ cs' \in Thread \cup {NoThread}
  BY DEF Inv, ControlInv
<1>2. ControlInv' /\ NopInv'
  BY <1>1, PlainStep
<1>3. MutexNotLeaked' /\ (Quiet => FrameIntact')
  BY NoFrame
<1> QED
  BY <1>2, <1>3 DEF Inv

LEMMA HeaderKeeps ==
  ASSUME Inv, NEW t \in Thread, NEW from \in AccessSteps, NEW to \in HasFrame,
         Header(t, from, to)
  PROVE  Inv'
<1>1. /\ pc[t] = from /\ owner = NoThread /\ owner' = t /\ cs' = t
      /\ pc' = [pc EXCEPT ![t] = to] /\ UNCHANGED todo
  BY DEF Header, Goto
<1>2. to \in Steps /\ to # "nop"
  BY DEF HasFrame, Steps
<1>3. ControlInv' /\ NopInv'
  BY <1>1, <1>2, PlainStep
<1> QED
  BY <1>1, <1>3, FrameStarts DEF Inv

\* An error in a header: the mutex was free and stays so.
LEMMA HeaderFailsKeeps ==
  ASSUME Inv, NEW t \in Thread, HeaderFails(t)
  PROVE  Inv'
<1>1. /\ pc[t] \notin HasFrame /\ owner = NoThread
      /\ UNCHANGED owner /\ cs' = NoThread /\ ReturnError(t)
  BY DEF HeaderFails, HasFrame
<1>2. owner' \in Thread \cup {NoThread} /\ cs' \in Thread \cup {NoThread}
  BY <1>1
<1>3. ControlInv' /\ NopInv' /\ pc' = [pc EXCEPT ![t] = "idle"]
  BY <1>1, <1>2, ReturnErrorStep
<1>4. "idle" \in Steps \ HasFrame
  BY DEF Steps, HasFrame
<1>5. MutexNotLeaked' /\ (Quiet => FrameIntact')
  BY <1>1, <1>3, <1>4, NoFrame
<1> QED
  BY <1>3, <1>5 DEF Inv

\* The end of a frame, followed by the polls.
LEMMA DataKeeps ==
  ASSUME Inv, NEW t \in Thread, ReadData(t) \/ WriteData(t)
  PROVE  Inv'
<1>1. /\ pc[t] \in HasFrame /\ pc[t] \in AccessSteps
      /\ owner' = NoThread /\ cs' = NoThread
      /\ pc' = [pc EXCEPT ![t] = "poll"] /\ UNCHANGED todo
  BY DEF ReadData, WriteData, Goto, HasFrame, AccessSteps, Steps
<1>2. "poll" \in Steps \ HasFrame /\ "poll" # "nop"
  BY DEF Steps, HasFrame
<1>3. ControlInv' /\ NopInv'
  BY <1>1, <1>2, PlainStep
<1> QED
  BY <1>1, <1>2, <1>3, FrameEnds DEF Inv

LEMMA DataFailsKeeps ==
  ASSUME Inv, NEW t \in Thread, ReadDataFails(t) \/ WriteDataFails(t)
  PROVE  Inv'
<1>1. /\ pc[t] \in HasFrame
      /\ owner' = NoThread /\ cs' = NoThread /\ ReturnError(t)
  BY DEF ReadDataFails, WriteDataFails, HasFrame
<1>2. ControlInv' /\ NopInv' /\ pc' = [pc EXCEPT ![t] = "idle"]
  BY <1>1, ReturnErrorStep
<1>3. "idle" \in Steps \ HasFrame
  BY DEF Steps, HasFrame
<1> QED
  BY <1>1, <1>2, <1>3, FrameEnds DEF Inv

LEMMA StepKeeps == ASSUME Inv, NEW t \in Thread, Step(t) PROVE Inv'
<1> USE DEF HasFrame, AccessSteps, Steps
<1>0. pc \in [Thread -> Steps] /\ cs \in Thread \cup {NoThread}
  BY DEF Inv, ControlInv
<1>1. CASE WriteTrnsLen(t)
  BY <1>1, OneTransferKeeps DEF WriteTrnsLen, Goto
<1>2. CASE ReadHeader(t)
  BY <1>2, HeaderKeeps DEF ReadHeader
<1>3. CASE WriteHeader(t)
  BY <1>3, HeaderKeeps DEF WriteHeader
<1>4. CASE HeaderFails(t)
  BY <1>4, HeaderFailsKeeps
<1>5. CASE ReadData(t) \/ WriteData(t)
  BY <1>5, DataKeeps
<1>6. CASE ReadDataFails(t) \/ WriteDataFails(t)
  BY <1>6, DataFailsKeeps
<1>7. CASE NopTransfer(t)
  <2>1. pc[t] = "nop" /\ ~ AlignedWrites
    BY <1>7 DEF NopTransfer, Inv, NopInv
  <2>2. Quiet => owner = NoThread
    BY <2>1 DEF Quiet, Inv, ControlInv, MutexNotLeaked
  <2> QED
    BY <1>7, <2>2, EndAccessKeeps DEF NopTransfer
<1>8. CASE PollReady(t)
  BY <1>8, EndAccessKeeps DEF PollReady
<1>9. CASE PollAgain(t)
  <2>1. /\ pc[t] = "poll" /\ owner = NoThread /\ cs' = NoThread /\ UNCHANGED owner
        /\ ReturnError(t) \/ UNCHANGED <<pc, todo>>
    BY <1>9 DEF PollAgain
  <2>2. CASE ReturnError(t)
    <3>1. ControlInv' /\ NopInv' /\ pc' = [pc EXCEPT ![t] = "idle"]
      BY <2>1, <2>2, ReturnErrorStep
    <3> QED
      BY <2>1, <3>1, NoFrame DEF Inv
  <2>3. CASE UNCHANGED <<pc, todo>>
    <3>1. pc' = [pc EXCEPT ![t] = "poll"]
      BY <1>0, <2>1, <2>3
    <3> QED
      BY <2>1, <2>3, <3>1, OneTransferKeeps
  <2> QED
    BY <2>1, <2>2, <2>3
<1>10. CASE ReadConfig(t)
  <2>1. /\ pc[t] = "irr" /\ owner = NoThread /\ cs' = NoThread
        /\ UNCHANGED <<todo, owner>>
        /\ \/ pc' = [pc EXCEPT ![t] = "irr_again"] \/ pc' = [pc EXCEPT ![t] = "irw"]
           \/ pc' = [pc EXCEPT ![t] = "idle"]
    BY <1>10 DEF ReadConfig, Goto, InterruptReturns
  <2> QED
    BY <2>1, OneTransferKeeps
<1>11. CASE ReadConfigAgain(t)
  <2>1. /\ pc[t] = "irr_again" /\ owner = NoThread /\ cs' = NoThread
        /\ UNCHANGED <<todo, owner>>
        /\ pc' = [pc EXCEPT ![t] = "irw"] \/ pc' = [pc EXCEPT ![t] = "idle"]
    BY <1>11 DEF ReadConfigAgain, Goto, InterruptReturns
  <2> QED
    BY <2>1, OneTransferKeeps
<1>12. CASE WriteConfig(t)
  <2>1. /\ pc[t] = "irw" /\ owner = NoThread /\ cs' = NoThread
        /\ UNCHANGED <<todo, owner>> /\ pc' = [pc EXCEPT ![t] = "idle"]
    BY <1>12 DEF WriteConfig, Goto, InterruptReturns
  <2> QED
    BY <2>1, OneTransferKeeps
<1> QED
  BY <1>1, <1>2, <1>3, <1>4, <1>5, <1>6, <1>7, <1>8, <1>9, <1>10, <1>11, <1>12
  DEF Step

LEMMA InvStep == Inv /\ [Next]_vars => Inv'
<1> SUFFICES ASSUME Inv, [Next]_vars PROVE Inv'
  OBVIOUS
<1>1. ASSUME NEW t \in Thread, CallAccess(t) PROVE Inv'
  BY <1>1, CallAccessKeeps
<1>2. ASSUME NEW t \in Thread, CallInterrupt(t) PROVE Inv'
  <2>1. /\ pc[t] = "idle" /\ pc' = [pc EXCEPT ![t] = "irr"]
        /\ UNCHANGED <<todo, owner, cs>>
    BY <1>2 DEF CallInterrupt, Goto
  <2>2. /\ "irr" \in Steps \ HasFrame /\ "irr" \notin AccessSteps
        /\ "idle" \notin HasFrame
    BY DEF Steps, HasFrame, AccessSteps
  <2>3. owner' \in Thread \cup {NoThread} /\ cs' \in Thread \cup {NoThread}
    BY <2>1 DEF Inv, ControlInv
  <2>4. ControlInv' /\ NopInv'
    BY <2>1, <2>2, <2>3, PlainStep
  <2>5. MutexNotLeaked' /\ (Quiet => FrameIntact')
    BY <2>1, <2>2, NoFrame
  <2> QED
    BY <2>4, <2>5 DEF Inv
<1>3. ASSUME NEW t \in Thread, Step(t) PROVE Inv'
  BY <1>3, StepKeeps
<1>4. CASE SlaveStores \/ SlaveReady \/ SlaveServes
  <2>1. UNCHANGED control
    BY <1>4 DEF SlaveStores, SlaveReady, SlaveServes, control
  <2> QED
    BY <2>1, Stutter
<1>5. CASE UNCHANGED vars
  <2>1. UNCHANGED control
    BY <1>5 DEF vars, control
  <2> QED
    BY <2>1, Stutter
<1> QED
  BY <1>1, <1>2, <1>3, <1>4, <1>5 DEF Next

\* qcspi_mutex is held exactly by the thread between the two transfers of a
\* frame, on every path, and nobody else keeps the chip select low.
THEOREM MutexNotLeakedHolds == Spec => []MutexNotLeaked
<1>1. Inv => MutexNotLeaked
  BY DEF Inv
<1> QED
  BY InvInit, InvStep, <1>1, PTL DEF Spec

\* When every write is of whole words, or there is one caller only, no frame is
\* cut short: the finding about the NOP of qcspi_write_addr_align is the only
\* way to break one.
THEOREM FrameIntactHolds == ASSUME Quiet PROVE Spec => []FrameIntact
<1>1. Inv => FrameIntact
  BY DEF Inv
<1> QED
  BY InvInit, InvStep, <1>1, PTL DEF Spec

-----------------------------------------------------------------------------
(* The interrupt.                                                          *)

\* Whatever the thread does meanwhile: an interrupt reported as raised and not
\* yet served is set in the register.
IrqInv ==
  /\ irq \in BOOLEAN
  /\ unserved \in [Thread -> BOOLEAN] /\ raised \in [Thread -> BOOLEAN]
  /\ \A t \in Thread : raised[t] /\ unserved[t] => irq

irqVars == <<irq, unserved, raised>>

LEMMA IrqInvInit == Init => IrqInv
  BY DEF Init, IrqInv

\* Returning 0 goes with the bit set, and only the call itself reports.
LEMMA IrqInvReturn ==
  ASSUME IrqInv, NEW t \in Thread, NEW ok \in BOOLEAN,
         raised' = [raised EXCEPT ![t] = ok], UNCHANGED unserved,
         irq' \in BOOLEAN, irq => irq', ok => irq'
  PROVE  IrqInv'
  BY DEF IrqInv

LEMMA IrqInvStep == IrqInv /\ [Next]_vars => IrqInv'
<1> SUFFICES ASSUME IrqInv, [Next]_vars PROVE IrqInv'
  OBVIOUS
<1>0. ASSUME UNCHANGED irqVars PROVE IrqInv'
  BY <1>0 DEF IrqInv, irqVars
<1>1. ASSUME NEW t \in Thread, CallAccess(t) PROVE IrqInv'
  BY <1>0, <1>1 DEF CallAccess, irqVars
<1>2. ASSUME NEW t \in Thread, CallInterrupt(t) PROVE IrqInv'
  BY <1>2 DEF CallInterrupt, IrqInv
<1>3. ASSUME NEW t \in Thread, Step(t) PROVE IrqInv'
  <2>1. CASE ReadConfig(t)
    BY <1>0, <2>1, IrqInvReturn DEF ReadConfig, InterruptReturns, irqVars, IrqInv
  <2>2. CASE ReadConfigAgain(t)
    BY <1>0, <2>2, IrqInvReturn DEF ReadConfigAgain, InterruptReturns, irqVars, IrqInv
  <2>3. CASE WriteConfig(t)
    <3>1. UNCHANGED unserved /\ irq \in BOOLEAN
      BY <2>3 DEF WriteConfig, IrqInv
    <3>2. \/ irq' = TRUE /\ raised' = [raised EXCEPT ![t] = TRUE]
          \/ irq' = irq /\ raised' = [raised EXCEPT ![t] = FALSE]
      BY <2>3 DEF WriteConfig, InterruptReturns
    <3> QED
      BY <3>1, <3>2, IrqInvReturn
  <2>4. CASE UNCHANGED irqVars
    BY <1>0, <2>4
  <2> QED
    BY <1>3, <2>1, <2>2, <2>3, <2>4
    DEF Step, WriteTrnsLen, ReadHeader, WriteHeader, Header, HeaderFails, ReadData,
        ReadDataFails, WriteData, WriteDataFails, NopTransfer, PollReady, PollAgain, irqVars
<1>4. CASE SlaveStores \/ SlaveReady \/ UNCHANGED vars
  BY <1>0, <1>4 DEF SlaveStores, SlaveReady, vars, irqVars
<1>5. CASE SlaveServes
  BY <1>5 DEF SlaveServes, IrqInv
<1> QED
  BY <1>1, <1>2, <1>3, <1>4, <1>5 DEF Next

\* Of any number of callers, each one that qcspi_interrupt has told 0 is served
\* after its call began, although the slave may clear the bit between the two
\* reads and the write of it.
THEOREM InterruptReachesSlaveHolds == Spec => []InterruptReachesSlave
<1>1. IrqInv => InterruptReachesSlave
  BY DEF IrqInv, InterruptReachesSlave
<1> QED
  BY IrqInvInit, IrqInvStep, <1>1, PTL DEF Spec

-----------------------------------------------------------------------------
(* What the accesses of a plan cover.                                      *)

WordBytes(x) == x.addr .. x.addr + x.size - 1
AskedBytes(x) == x.from .. x.upto - 1

\* A write that fills the rest of its word from the word read last.
Partial(x) == x.op = "write" /\ AskedBytes(x) # WordBytes(x)

\* An access to words of mem that contain what is asked for; a part of a word is
\* the only one.
Fits(x, words) ==
  /\ x.op \in {"read", "write", "nop"}
  /\ x.addr \in Int /\ x.size \in Nat /\ x.from \in Int /\ x.upto \in Int
  /\ WordBytes(x) \subseteq words
  /\ AskedBytes(x) \subseteq WordBytes(x)
  /\ Partial(x) => x.size = 4

\* The words a byte range touches.
RangeWords(a, n) == AlignDown(a) .. AlignDown(a + n - 1) + 3

\* A read that leaves the word of x in the buffer.
Rereads(y, x) == y.op = "read" /\ y.size = 4 /\ y.addr = x.addr

\* The writes of a plan are to different words.
WritesApart(plan) ==
  \A i, j \in DOMAIN plan :
    i < j /\ plan[i].op = "write" /\ plan[j].op = "write"
      => WordBytes(plan[i]) \cap WordBytes(plan[j]) = {}

\* A read of the word of plan[i] is still to come, the last before plan[i].
RereadComes(plan, i) ==
  \E j \in 1 .. i - 1 :
    /\ Rereads(plan[j], plan[i])
    /\ \A k \in j + 1 .. i - 1 : plan[k].op # "read"

PartialsReread(plan) == \A i \in DOMAIN plan : Partial(plan[i]) => RereadComes(plan, i)

LEMMA PartsFit ==
  ASSUME NEW a \in Nat, NEW n \in Nat \ {0}, NEW op \in {"read", "write"}
  PROVE  /\ Fits(First(op, a, n), RangeWords(a, n))
         /\ MiddleSize(a, n) > 0 => Fits(Middle(op, a, n), RangeWords(a, n))
         /\ LastSize(a, n) > 0 => Fits(Last(op, a, n), RangeWords(a, n))
         /\ IsAligned(a, n) => Fits(Whole(op, a, n), RangeWords(a, n))
         /\ ~ Partial(Middle(op, a, n)) /\ ~ Partial(Whole(op, a, n))
         /\ \A x \in {First(op, a, n), Middle(op, a, n), Last(op, a, n), Whole(op, a, n)} :
              AskedBytes(x) \subseteq a .. a + n - 1
<1> DEFINE f == FirstSize(a, n)
           m == MiddleSize(a, n)
           l == LastSize(a, n)
           w == AlignDown(a)
           e == AlignDown(a + n - 1)
<1>1. /\ w \in Nat /\ w % 4 = 0 /\ w <= a /\ a < w + 4
  BY AlignDownBounds
<1>2. /\ e \in Nat /\ e % 4 = 0 /\ e <= a + n - 1 /\ a + n - 1 < e + 4
  <2>1. a + n - 1 \in Nat
    OBVIOUS
  <2> QED
    BY <2>1, AlignDownBounds
<1>3. /\ f \in 1 .. 4 /\ f <= n /\ a + f <= w + 4
      /\ f < n => a + f = w + 4
  BY FirstPart DEF MiddleAddr
<1>4. /\ m \in Nat /\ m % 4 = 0 /\ l \in 0 .. 3 /\ f + m + l = n
  BY MiddlePart
<1>5. /\ MiddleAddr(a) = w + 4 /\ LastAddr(a, n) = w + 4 + m
  BY DEF MiddleAddr, LastAddr
<1>6. First(op, a, n) = Access(op, w, 4, a, a + f)
  BY DEF First
<1>7. Middle(op, a, n) = Access(op, w + 4, m, w + 4, w + 4 + m)
  BY <1>5 DEF Middle
<1>8. Last(op, a, n) = Access(op, w + 4 + m, 4, w + 4 + m, a + n)
  BY <1>5 DEF Last
<1>9. RangeWords(a, n) = w .. e + 3
  BY DEF RangeWords
<1> HIDE DEF f, m, l, w, e
<1>10. Fits(First(op, a, n), w .. e + 3)
  <2>1. w <= e
    BY <1>1, <1>2
  <2> QED
    BY <1>1, <1>2, <1>3, <1>6, <2>1 DEF Fits, Partial, WordBytes, AskedBytes, Access
<1>11. ASSUME m > 0 PROVE Fits(Middle(op, a, n), w .. e + 3)
  <2>1. w + 4 + m <= e + 4
    BY <1>1, <1>2, <1>3, <1>4, <1>11
  <2> QED
    BY <1>1, <1>2, <1>4, <1>7, <2>1 DEF Fits, Partial, WordBytes, AskedBytes, Access
<1>12. ASSUME l > 0 PROVE Fits(Last(op, a, n), w .. e + 3)
  <2>1. w + 4 + m <= a + n - 1 /\ a + n <= w + 4 + m + 4
    BY <1>1, <1>3, <1>4, <1>12
  <2>2. w + 4 + m <= e
    BY <1>1, <1>2, <1>4, <2>1
  <2> QED
    BY <1>1, <1>2, <1>4, <1>8, <2>1, <2>2 DEF Fits, Partial, WordBytes, AskedBytes, Access
<1>13. ASSUME IsAligned(a, n) PROVE Fits(Whole(op, a, n), w .. e + 3)
  <2>1. a = w /\ a + n - 1 <= e + 3
    BY <1>1, <1>2, <1>13 DEF IsAligned
  <2> QED
    BY <1>1, <1>2, <2>1 DEF Fits, Partial, WordBytes, AskedBytes, Access, Whole
<1>14. ~ Partial(Middle(op, a, n)) /\ ~ Partial(Whole(op, a, n))
  BY <1>1, <1>4, <1>7 DEF Partial, WordBytes, AskedBytes, Access, Whole
<1>15. \A x \in {First(op, a, n), Middle(op, a, n), Last(op, a, n), Whole(op, a, n)} :
         AskedBytes(x) \subseteq a .. a + n - 1
  <2>1. AskedBytes(Middle(op, a, n)) \subseteq a .. a + n - 1
    <3>1. m > 0 => a <= w + 4 /\ w + 4 + m <= a + n
      BY <1>1, <1>3, <1>4
    <3> QED
      BY <1>1, <1>4, <1>7, <3>1 DEF AskedBytes, Access
  <2>2. AskedBytes(Last(op, a, n)) \subseteq a .. a + n - 1
    <3>1. a <= w + 4 + m
      BY <1>1, <1>4
    <3> QED
      BY <1>1, <1>4, <1>8, <3>1 DEF AskedBytes, Access
  <2>3. AskedBytes(First(op, a, n)) \subseteq a .. a + n - 1
    BY <1>3, <1>6 DEF AskedBytes, Access
  <2>4. AskedBytes(Whole(op, a, n)) \subseteq a .. a + n - 1
    BY DEF AskedBytes, Access, Whole
  <2> QED
    BY <2>1, <2>2, <2>3, <2>4
<1> QED
  BY <1>9, <1>10, <1>11, <1>12, <1>13, <1>14, <1>15 DEF m, l

\* The first word ends before the middle ones and these before the last.
LEMMA PartsApart ==
  ASSUME NEW a \in Nat, NEW n \in Nat \ {0}
  PROVE  LET F == WordBytes(First("write", a, n))
             M == WordBytes(Middle("write", a, n))
             L == WordBytes(Last("write", a, n))
         IN  F \cap M = {} /\ F \cap L = {} /\ M \cap L = {}
<1>1. AlignDown(a) \in Nat
  BY AlignDownBounds
<1>2. MiddleSize(a, n) \in Nat
  BY MiddlePart
<1> DEFINE w == AlignDown(a)
           m == MiddleSize(a, n)
<1>3. /\ WordBytes(First("write", a, n)) = w .. w + 4 - 1
      /\ WordBytes(Middle("write", a, n)) = w + 4 .. w + 4 + m - 1
      /\ WordBytes(Last("write", a, n)) = w + 4 + m .. w + 4 + m + 4 - 1
  BY DEF WordBytes, First, Middle, Last, Access, MiddleAddr, LastAddr
<1> HIDE DEF w, m
<1> QED
  BY <1>1, <1>2, <1>3 DEF w, m

\* The parts of the two plans, by their places.
LEMMA ReadShape ==
  ASSUME NEW S, NEW a \in S, NEW b \in S, NEW c \in S,
         NEW P \in BOOLEAN, NEW Q \in BOOLEAN
  PROVE  LET p == <<a>> \o (IF P THEN <<b>> ELSE << >>) \o (IF Q THEN <<c>> ELSE << >>)
         IN  /\ p \in Seq(S)
             /\ Len(p) = 1 + (IF P THEN 1 ELSE 0) + (IF Q THEN 1 ELSE 0)
             /\ p[1] = a /\ (P => p[2] = b) /\ (Q => p[Len(p)] = c)
  OBVIOUS

LEMMA WriteShape ==
  ASSUME NEW S, NEW a \in S, NEW b \in S, NEW c \in S, NEW d \in S, NEW e \in S, NEW g \in S,
         NEW P \in BOOLEAN, NEW Q \in BOOLEAN
  PROVE  LET p == <<a, b, c>> \o (IF P THEN <<d>> ELSE << >>)
                  \o (IF Q THEN <<e, g>> ELSE << >>)
         IN  /\ p \in Seq(S)
             /\ Len(p) = 3 + (IF P THEN 1 ELSE 0) + (IF Q THEN 2 ELSE 0)
             /\ p[1] = a /\ p[2] = b /\ p[3] = c /\ (P => p[4] = d)
             /\ Q => p[Len(p) - 1] = e /\ p[Len(p)] = g
  OBVIOUS

LEMMA ReadPlanSound ==
  ASSUME NEW a \in Nat, NEW n \in Nat \ {0}
  PROVE  LET p == ReadPlan(a, n)
         IN  /\ WritesApart(p) /\ PartialsReread(p)
             /\ \A i \in DOMAIN p : p[i].op = "read" /\ Fits(p[i], RangeWords(a, n))
<1> DEFINE f == First("read", a, n)
           m == Middle("read", a, n)
           l == Last("read", a, n)
           P == MiddleSize(a, n) > 0
           Q == LastSize(a, n) > 0
           p == <<f>> \o (IF P THEN <<m>> ELSE << >>) \o (IF Q THEN <<l>> ELSE << >>)
<1>1. /\ Fits(f, RangeWords(a, n)) /\ (P => Fits(m, RangeWords(a, n)))
      /\ Q => Fits(l, RangeWords(a, n))
      /\ IsAligned(a, n) => Fits(Whole("read", a, n), RangeWords(a, n))
  BY PartsFit
<1>2. f.op = "read" /\ m.op = "read" /\ l.op = "read" /\ Whole("read", a, n).op = "read"
  BY DEF First, Middle, Last, Whole, Access
<1>3. ReadPlan(a, n) = IF IsAligned(a, n) THEN <<Whole("read", a, n)>> ELSE p
  BY DEF ReadPlan
<1>4. /\ p \in Seq({f, m, l})
      /\ Len(p) = 1 + (IF P THEN 1 ELSE 0) + (IF Q THEN 1 ELSE 0)
      /\ p[1] = f /\ (P => p[2] = m) /\ (Q => p[Len(p)] = l)
  <2> HIDE DEF f, m, l, P, Q
  <2> DEFINE S == {f, m, l}
  <2>1. P \in BOOLEAN /\ Q \in BOOLEAN
    BY DEF P, Q
  <2>2. f \in S /\ m \in S /\ l \in S
    OBVIOUS
  <2> HIDE DEF S
  <2>3. LET q == <<f>> \o (IF P THEN <<m>> ELSE << >>) \o (IF Q THEN <<l>> ELSE << >>)
        IN  /\ q \in Seq(S)
            /\ Len(q) = 1 + (IF P THEN 1 ELSE 0) + (IF Q THEN 1 ELSE 0)
            /\ q[1] = f /\ (P => q[2] = m) /\ (Q => q[Len(q)] = l)
    BY <2>1, <2>2, ReadShape
  <2> QED
    BY <2>3 DEF S
<1> HIDE DEF f, m, l, P, Q, p
<1>5. \A i \in DOMAIN p : p[i] = f \/ (P /\ p[i] = m) \/ (Q /\ p[i] = l)
  BY <1>4
<1>6. \A i \in DOMAIN ReadPlan(a, n) :
        ReadPlan(a, n)[i].op = "read" /\ Fits(ReadPlan(a, n)[i], RangeWords(a, n))
  <2>1. CASE IsAligned(a, n)
    BY <1>1, <1>2, <1>3, <2>1
  <2>2. CASE ~ IsAligned(a, n)
    BY <1>1, <1>2, <1>3, <1>5, <2>2
  <2> QED
    BY <2>1, <2>2
<1>7. WritesApart(ReadPlan(a, n)) /\ PartialsReread(ReadPlan(a, n))
  BY <1>6 DEF WritesApart, PartialsReread, Partial
<1> QED
  BY <1>6, <1>7

LEMMA WritePlanSound ==
  ASSUME NEW a \in Nat, NEW n \in Nat \ {0}
  PROVE  LET p == WritePlan(a, n)
         IN  /\ WritesApart(p) /\ PartialsReread(p)
             /\ \A i \in DOMAIN p :
                  /\ Fits(p[i], RangeWords(a, n))
                  /\ p[i].op = "write" => AskedBytes(p[i]) \subseteq a .. a + n - 1
<1> DEFINE f == First("write", a, n)
           m == Middle("write", a, n)
           l == Last("write", a, n)
           rf == First("read", a, n)
           rl == Last("read", a, n)
           P == MiddleSize(a, n) > 0
           Q == LastSize(a, n) > 0
           W == RangeWords(a, n)
           p == <<rf, Nop(a), f>> \o (IF P THEN <<m>> ELSE << >>)
                \o (IF Q THEN <<rl, l>> ELSE << >>)
<1>1. /\ Fits(f, W) /\ Fits(rf, W) /\ (P => Fits(m, W))
      /\ Q => Fits(l, W) /\ Fits(rl, W)
      /\ IsAligned(a, n) => Fits(Whole("write", a, n), W)
      /\ ~ Partial(m) /\ ~ Partial(Whole("write", a, n))
      /\ \A x \in {f, m, l, Whole("write", a, n)} : AskedBytes(x) \subseteq a .. a + n - 1
  BY PartsFit
<1>2. Fits(Nop(a), W)
  BY DEF Fits, Nop, Access, Partial, WordBytes, AskedBytes
<1>3. WritePlan(a, n) = IF IsAligned(a, n) THEN <<Whole("write", a, n)>> ELSE p
  BY DEF WritePlan
<1>4. CASE IsAligned(a, n)
  BY <1>1, <1>3, <1>4 DEF WritesApart, PartialsReread
<1>5. CASE ~ IsAligned(a, n)
  <2>1. /\ f.op = "write" /\ m.op = "write" /\ l.op = "write"
        /\ rf.op = "read" /\ rl.op = "read" /\ Nop(a).op = "nop"
        /\ Rereads(rf, f) /\ Rereads(rl, l)
    BY DEF First, Middle, Last, Nop, Access, Rereads
  <2>2. /\ WordBytes(f) \cap WordBytes(m) = {} /\ WordBytes(f) \cap WordBytes(l) = {}
        /\ WordBytes(m) \cap WordBytes(l) = {}
    BY PartsApart
  <2>3. /\ p \in Seq({rf, Nop(a), f, m, rl, l})
        /\ Len(p) = 3 + (IF P THEN 1 ELSE 0) + (IF Q THEN 2 ELSE 0)
        /\ p[1] = rf /\ p[2] = Nop(a) /\ p[3] = f /\ (P => p[4] = m)
        /\ Q => p[Len(p) - 1] = rl /\ p[Len(p)] = l
    <3> DEFINE no == Nop(a)
               S == {rf, no, f, m, rl, l}
    <3> HIDE DEF f, m, l, rf, rl, P, Q, no
    <3>1. P \in BOOLEAN /\ Q \in BOOLEAN
      BY DEF P, Q
    <3>0. rf \in S /\ no \in S /\ f \in S /\ m \in S /\ rl \in S /\ l \in S
      OBVIOUS
    <3> HIDE DEF S
    <3>2. LET q == <<rf, no, f>> \o (IF P THEN <<m>> ELSE << >>)
                   \o (IF Q THEN <<rl, l>> ELSE << >>)
          IN  /\ q \in Seq(S)
              /\ Len(q) = 3 + (IF P THEN 1 ELSE 0) + (IF Q THEN 2 ELSE 0)
              /\ q[1] = rf /\ q[2] = no /\ q[3] = f /\ (P => q[4] = m)
              /\ Q => q[Len(q) - 1] = rl /\ q[Len(q)] = l
      BY <3>0, <3>1, WriteShape
    <3>3. p = <<rf, Nop(a), f>> \o (IF P THEN <<m>> ELSE << >>)
              \o (IF Q THEN <<rl, l>> ELSE << >>)
      BY DEF p
    <3> HIDE DEF p
    <3> QED
      BY <3>2, <3>3 DEF no, S
  <2> HIDE DEF f, m, l, rf, rl, P, Q, W, p
  <2>4. \A i \in DOMAIN p :
          \/ i = 1 /\ p[i] = rf
          \/ i = 2 /\ p[i] = Nop(a)
          \/ i = 3 /\ p[i] = f
          \/ P /\ i = 4 /\ p[i] = m
          \/ Q /\ i = Len(p) - 1 /\ i > 3 /\ p[i] = rl
          \/ Q /\ i = Len(p) /\ i > 4 /\ p[i] = l /\ p[i - 1] = rl
    BY <2>3
  <2>5. \A i \in DOMAIN p :
          /\ Fits(p[i], W)
          /\ p[i].op = "write" => AskedBytes(p[i]) \subseteq a .. a + n - 1
    BY <1>1, <1>2, <2>1, <2>4
  <2>6. \A i, j \in DOMAIN p :
          i < j /\ p[i].op = "write" /\ p[j].op = "write"
            => WordBytes(p[i]) \cap WordBytes(p[j]) = {}
    <3> SUFFICES ASSUME NEW i \in DOMAIN p, NEW j \in DOMAIN p,
                        i < j, p[i].op = "write", p[j].op = "write"
                 PROVE  WordBytes(p[i]) \cap WordBytes(p[j]) = {}
      OBVIOUS
    <3> DEFINE At(k) == \/ p[k] = f /\ k = 3
                        \/ p[k] = m /\ k = 4
                        \/ p[k] = l /\ k = Len(p)
    <3>1. At(i) /\ At(j)
      BY <2>1, <2>4
    <3>2. j \in 1 .. Len(p) /\ i \in 1 .. Len(p)
      BY <2>3
    <3>3. \/ p[i] = f /\ p[j] = m
          \/ p[i] = f /\ p[j] = l
          \/ p[i] = m /\ p[j] = l
      BY <2>3, <3>1, <3>2
    <3> QED
      BY <2>2, <3>3
  <2>7. \A i \in DOMAIN p :
          Partial(p[i]) => RereadComes(p, i)
    <3> SUFFICES ASSUME NEW i \in DOMAIN p, Partial(p[i])
                 PROVE  RereadComes(p, i)
      OBVIOUS
    <3>1. p[i].op = "write" /\ p[i] # m
      BY <1>1 DEF Partial
    <3>2. \/ i = 3 /\ p[i] = f
          \/ i > 4 /\ i = Len(p) /\ p[i] = l /\ p[i - 1] = rl
      BY <2>1, <2>4, <3>1
    <3>3. CASE i = 3 /\ p[i] = f
      <4>1. 1 \in 1 .. i - 1 /\ Rereads(p[1], p[i])
        BY <2>1, <2>3, <3>3
      <4>2. \A k \in 1 + 1 .. i - 1 : p[k].op # "read"
        BY <2>1, <2>3, <3>3
      <4> QED
        BY <4>1, <4>2 DEF RereadComes
    <3>4. CASE i > 4 /\ i = Len(p) /\ p[i] = l /\ p[i - 1] = rl
      <4>1. i - 1 \in 1 .. i - 1 /\ Rereads(p[i - 1], p[i])
        BY <2>1, <2>3, <3>4
      <4>2. i - 1 + 1 .. i - 1 = {}
        BY <2>3, <3>4
      <4> QED
        BY <4>1, <4>2 DEF RereadComes
    <3> QED
      BY <3>2, <3>3, <3>4
  <2> QED
    BY <1>3, <1>5, <2>5, <2>6, <2>7 DEF WritesApart, PartialsReread, W
<1> QED
  BY <1>4, <1>5

-----------------------------------------------------------------------------
(* The plans of the threads and the types of the data.                     *)

\* The steps of an access.
StepsOf(op) == CASE op = "read" -> {"trns_len", "read_header", "read_data", "poll"}
                 [] op = "write" -> {"write_header", "write_data", "poll"}
                 [] op = "nop" -> {"nop"}

PlanOf(t) ==
  /\ todo[t] # << >> => pc[t] \in StepsOf(todo[t][1].op)
  /\ \A i \in DOMAIN todo[t] : Fits(todo[t][i], Addr)
  /\ WritesApart(todo[t])

PlanInv == \A t \in Thread : PlanOf(t)

LEMMA OpSteps ==
  ASSUME NEW op \in {"read", "write", "nop"}
  PROVE  /\ Entry(op) \in StepsOf(op)
         /\ StepsOf(op) \subseteq AccessSteps
         /\ "read_data" \in StepsOf(op) => op = "read"
         /\ "write_data" \in StepsOf(op) => op = "write"
  BY DEF Entry, StepsOf, AccessSteps, Steps

\* The access a thread is at.
LEMMA AtAccess ==
  ASSUME Inv, PlanInv, NEW t \in Thread, pc[t] \in AccessSteps
  PROVE  /\ todo[t] \in Seq(Accesses(Ops)) /\ todo[t] # << >>
         /\ Head(todo[t]) = todo[t][1] /\ 1 \in DOMAIN todo[t]
         /\ Fits(todo[t][1], Addr)
         /\ pc[t] \in StepsOf(todo[t][1].op)
<1>1. todo[t] \in Seq(Accesses(Ops)) /\ todo[t] # << >>
  BY DEF Inv, ControlInv
<1>2. Head(todo[t]) = todo[t][1] /\ 1 \in DOMAIN todo[t]
  BY <1>1
<1> QED
  BY <1>1, <1>2 DEF PlanInv, PlanOf

LEMMA IdleHasNoPlan ==
  ASSUME Inv, PlanInv, NEW t \in Thread, pc[t] \notin AccessSteps
  PROVE  todo[t] = << >>
<1> SUFFICES ASSUME todo[t] # << >> PROVE FALSE
  OBVIOUS
<1>1. todo[t] \in Seq(Accesses(Ops)) /\ 1 \in DOMAIN todo[t]
  BY DEF Inv, ControlInv
<1>2. pc[t] \in StepsOf(todo[t][1].op) /\ todo[t][1].op \in {"read", "write", "nop"}
  BY <1>1 DEF PlanInv, PlanOf, Fits
<1> QED
  BY <1>2, OpSteps

LEMMA PlanInvInit == Init => PlanInv
  BY DEF Init, PlanInv, PlanOf, WritesApart

\* A step of t that leaves its accesses alone.
LEMMA PlanPlain ==
  ASSUME Inv, PlanInv, NEW t \in Thread, NEW s,
         pc' = [pc EXCEPT ![t] = s], UNCHANGED todo,
         todo[t] # << >> => s \in StepsOf(todo[t][1].op)
  PROVE  PlanInv'
<1>1. \A u \in Thread : pc'[u] = IF u = t THEN s ELSE pc[u]
  BY DEF Inv, ControlInv
<1> QED
  BY <1>1 DEF PlanInv, PlanOf, WritesApart

\* A step of t that gives it another plan.
LEMMA PlanNew ==
  ASSUME Inv, PlanInv, NEW t \in Thread, NEW s, NEW plan,
         pc' = [pc EXCEPT ![t] = s], todo' = [todo EXCEPT ![t] = plan],
         plan # << >> => s \in StepsOf(plan[1].op),
         \A i \in DOMAIN plan : Fits(plan[i], Addr), WritesApart(plan)
  PROVE  PlanInv'
<1>1. /\ \A u \in Thread : pc'[u] = IF u = t THEN s ELSE pc[u]
      /\ \A u \in Thread : todo'[u] = IF u = t THEN plan ELSE todo[u]
  BY DEF Inv, ControlInv
<1> SUFFICES ASSUME NEW u \in Thread PROVE PlanOf(u)'
  BY DEF PlanInv
<1>2. CASE u = t
  BY <1>1, <1>2 DEF PlanOf, WritesApart
<1>3. CASE u # t
  <2>1. pc'[u] = pc[u] /\ todo'[u] = todo[u]
    BY <1>1, <1>3
  <2>2. PlanOf(u)
    BY DEF PlanInv
  <2> QED
    BY <2>1, <2>2 DEF PlanOf, WritesApart
<1> QED
  BY <1>2, <1>3

LEMMA PlanError ==
  ASSUME Inv, PlanInv, NEW t \in Thread, ReturnError(t)
  PROVE  PlanInv'
<1>1. pc' = [pc EXCEPT ![t] = "idle"] /\ todo' = [todo EXCEPT ![t] = << >>]
  BY DEF ReturnError, Goto
<1> DEFINE plan == << >>
<1>2. plan = << >> /\ WritesApart(plan) /\ \A i \in DOMAIN plan : Fits(plan[i], Addr)
  BY DEF WritesApart
<1>3. todo' = [todo EXCEPT ![t] = plan]
  BY <1>1
<1> HIDE DEF plan
<1> QED
  BY <1>1, <1>2, <1>3, PlanNew

\* The accesses after the current one.
LEMMA TailOfPlan ==
  ASSUME NEW S, NEW p \in Seq(S), p # << >>
  PROVE  /\ Tail(p) \in Seq(S) /\ DOMAIN Tail(p) = 1 .. Len(p) - 1
         /\ \A i \in DOMAIN Tail(p) : i + 1 \in DOMAIN p /\ Tail(p)[i] = p[i + 1]
         /\ Len(p) \in Nat /\ Len(p) > 0 /\ DOMAIN p = 1 .. Len(p)
  OBVIOUS

LEMMA PlanEnd ==
  ASSUME Inv, PlanInv, NEW t \in Thread, pc[t] \in AccessSteps, EndAccess(t)
  PROVE  PlanInv'
<1> DEFINE p == todo[t]
           s == IF Tail(p) = << >> THEN "idle" ELSE Entry(p[2].op)
<1>1. p \in Seq(Accesses(Ops)) /\ p # << >>
  BY AtAccess
<1>2. pc' = [pc EXCEPT ![t] = s] /\ todo' = [todo EXCEPT ![t] = Tail(p)]
  BY DEF EndAccess, Goto
<1>3. /\ \A i \in DOMAIN p : Fits(p[i], Addr)
      /\ WritesApart(p)
  BY DEF PlanInv, PlanOf
<1> HIDE DEF p
<1>4. /\ DOMAIN Tail(p) = 1 .. Len(p) - 1 /\ Len(p) \in Nat /\ DOMAIN p = 1 .. Len(p)
      /\ \A i \in DOMAIN Tail(p) : i + 1 \in DOMAIN p /\ Tail(p)[i] = p[i + 1]
      /\ Tail(p) \in Seq(Accesses(Ops))
  BY <1>1, TailOfPlan
<1>5. /\ \A i \in DOMAIN Tail(p) : Fits(Tail(p)[i], Addr)
      /\ WritesApart(Tail(p))
  BY <1>3, <1>4 DEF WritesApart
<1>6. ASSUME Tail(p) # << >> PROVE s \in StepsOf(Tail(p)[1].op)
  <2>1. Tail(p)[1] = p[2] /\ 2 \in DOMAIN p
    BY <1>4, <1>6
  <2>2. p[2].op \in {"read", "write", "nop"}
    BY <1>3, <2>1 DEF Fits
  <2> QED
    BY <1>6, <2>1, <2>2, OpSteps
<1> HIDE DEF s
<1> QED
  BY <1>2, <1>5, <1>6, PlanNew

\* A call to memory: the plan it makes.
PlanFor(job) == IF job.kind = "read" THEN ReadPlan(job.addr, job.len)
                                     ELSE WritePlan(job.addr, job.len)

\* The bytes a call is asked to write.
RangeOf(job) == IF job.kind = "read" THEN {} ELSE job.addr .. job.addr + job.len - 1

CallOf(t, job) ==
  /\ job.kind \in {"read", "write"} /\ job.addr \in Nat /\ job.len \in Nat \ {0}
  /\ todo' = [todo EXCEPT ![t] = PlanFor(job)]
  /\ pc' = [pc EXCEPT ![t] = Entry(PlanFor(job)[1].op)]
  /\ written' = [written EXCEPT ![t] = Without(written[t], RangeOf(job))]
  /\ asked' = asked \cup RangeOf(job)

PlanGood(job, plan) ==
  /\ WritesApart(plan) /\ PartialsReread(plan)
  /\ plan \in Seq(Accesses({"read", "write", "nop"})) /\ Len(plan) > 0
  /\ \A i \in DOMAIN plan : Fits(plan[i], RangeWords(job.addr, job.len))
  /\ job.kind = "read" => \A i \in DOMAIN plan : plan[i].op = "read"
  /\ job.kind = "write" =>
       \A i \in DOMAIN plan : plan[i].op = "write" =>
         AskedBytes(plan[i]) \subseteq job.addr .. job.addr + job.len - 1
  /\ RangeWords(job.addr, job.len) \subseteq Addr

LEMMA CallPlan ==
  ASSUME NEW t \in Thread, CallAccess(t)
  PROVE  \E job \in Jobs[t] : CallOf(t, job) /\ PlanGood(job, PlanFor(job))
<1>1. PICK job \in Jobs[t] :
        /\ job.kind # "interrupt"
        /\ LET plan == IF job.kind = "read" THEN ReadPlan(job.addr, job.len)
                                            ELSE WritePlan(job.addr, job.len)
           IN  todo' = [todo EXCEPT ![t] = plan] /\ Goto(t, Entry(plan[1].op))
        /\ LET range == IF job.kind = "read" THEN {} ELSE job.addr .. job.addr + job.len - 1
           IN  /\ written' = [written EXCEPT ![t] = Without(written[t], range)]
               /\ asked' = asked \cup range
  BY DEF CallAccess
<1> DEFINE plan == PlanFor(job)
           ops == {"read", "write", "nop"}
<1>2. job.addr \in Nat /\ job.len \in Nat \ {0} /\ job.kind \in {"read", "write"}
  BY <1>1, DriverAssumption DEF Job
<1>3. CallOf(t, job)
  BY <1>1, <1>2 DEF Goto, CallOf, PlanFor, RangeOf
<1>4. plan \in Seq(Accesses(ops)) /\ Len(plan) > 0
  <2>1. "read" \in ops /\ "write" \in ops /\ "nop" \in ops
    OBVIOUS
  <2> HIDE DEF ops
  <2> QED
    BY <1>2, <2>1, ReadPlanTypes, WritePlanTypes DEF PlanFor
<1>5. CASE job.kind = "read"
  <2>1. plan = ReadPlan(job.addr, job.len)
    BY <1>5 DEF PlanFor
  <2> HIDE DEF plan
  <2>2. /\ WritesApart(plan) /\ PartialsReread(plan)
        /\ \A i \in DOMAIN plan :
             plan[i].op = "read" /\ Fits(plan[i], RangeWords(job.addr, job.len))
    BY <1>2, <2>1, ReadPlanSound
  <2>3. RangeWords(job.addr, job.len) \subseteq Addr
    BY <1>1, MemoryAssumption DEF RangeWords
  <2> QED
    BY <1>3, <1>4, <1>5, <2>2, <2>3 DEF PlanGood, plan
<1>6. CASE job.kind = "write"
  <2>1. plan = WritePlan(job.addr, job.len)
    BY <1>6 DEF PlanFor
  <2> HIDE DEF plan
  <2>2. /\ WritesApart(plan) /\ PartialsReread(plan)
        /\ \A i \in DOMAIN plan :
             /\ Fits(plan[i], RangeWords(job.addr, job.len))
             /\ plan[i].op = "write" =>
                  AskedBytes(plan[i]) \subseteq job.addr .. job.addr + job.len - 1
    BY <1>2, <2>1, WritePlanSound
  <2>3. RangeWords(job.addr, job.len) \subseteq Addr
    BY <1>1, MemoryAssumption DEF RangeWords
  <2> QED
    BY <1>3, <1>4, <1>6, <2>2, <2>3 DEF PlanGood, plan
<1> QED
  BY <1>2, <1>5, <1>6

LEMMA PlanInvStep == Inv /\ PlanInv /\ [Next]_vars => PlanInv'
<1> SUFFICES ASSUME Inv, PlanInv, [Next]_vars PROVE PlanInv'
  OBVIOUS
<1>0. ASSUME UNCHANGED <<pc, todo>> PROVE PlanInv'
  BY <1>0 DEF PlanInv, PlanOf, WritesApart
<1>1. ASSUME NEW t \in Thread, CallAccess(t) PROVE PlanInv'
  <2>1. PICK job \in Jobs[t] : CallOf(t, job) /\ PlanGood(job, PlanFor(job))
    BY <1>1, CallPlan
  <2> DEFINE plan == PlanFor(job)
  <2>2. /\ todo' = [todo EXCEPT ![t] = plan]
        /\ pc' = [pc EXCEPT ![t] = Entry(plan[1].op)]
    BY <2>1 DEF CallOf
  <2>3. /\ WritesApart(plan)
        /\ plan \in Seq(Accesses({"read", "write", "nop"})) /\ Len(plan) > 0
        /\ \A i \in DOMAIN plan : Fits(plan[i], Addr)
    BY <2>1 DEF PlanGood, Fits
  <2> HIDE DEF plan
  <2>4. plan[1].op \in {"read", "write", "nop"}
    BY <2>3 DEF Fits
  <2> QED
    BY <2>2, <2>3, <2>4, OpSteps, PlanNew
<1>2. ASSUME NEW t \in Thread, CallInterrupt(t) PROVE PlanInv'
  <2>1. pc[t] = "idle" /\ pc' = [pc EXCEPT ![t] = "irr"] /\ UNCHANGED todo
    BY <1>2 DEF CallInterrupt, Goto
  <2>2. todo[t] = << >>
    BY <2>1, IdleHasNoPlan DEF AccessSteps
  <2> QED
    BY <2>1, <2>2, PlanPlain
<1>3. ASSUME NEW t \in Thread, Step(t) PROVE PlanInv'
  <2>1. CASE pc[t] \in {"irr", "irr_again", "irw"}
    <3>1. todo[t] = << >>
      BY <2>1, IdleHasNoPlan DEF AccessSteps
    <3>2. UNCHANGED todo /\ \E s : pc' = [pc EXCEPT ![t] = s]
      BY <1>3, <2>1
      DEF Step, WriteTrnsLen, ReadHeader, WriteHeader, Header, HeaderFails, ReadData,
          ReadDataFails, WriteData, WriteDataFails, NopTransfer, PollReady, PollAgain,
          ReadConfig, ReadConfigAgain, WriteConfig, InterruptReturns, Goto
    <3> QED
      BY <3>1, <3>2, PlanPlain
  <2>2. CASE WriteTrnsLen(t) \/ ReadHeader(t) \/ WriteHeader(t) \/ ReadData(t) \/ WriteData(t)
    <3> DEFINE next == [trns_len |-> "read_header", read_header |-> "read_data",
                        write_header |-> "write_data", read_data |-> "poll",
                        write_data |-> "poll"]
    <3>1. /\ pc[t] \in {"trns_len", "read_header", "write_header", "read_data", "write_data"}
          /\ pc' = [pc EXCEPT ![t] = next[pc[t]]] /\ UNCHANGED todo
      BY <2>2 DEF WriteTrnsLen, ReadHeader, WriteHeader, Header, ReadData, WriteData, Goto
    <3>2. pc[t] \in AccessSteps
      BY <3>1 DEF AccessSteps, Steps
    <3>3. pc[t] \in StepsOf(todo[t][1].op) /\ todo[t][1].op \in {"read", "write", "nop"}
      BY <3>2, AtAccess DEF Fits
    <3>4. next[pc[t]] \in StepsOf(todo[t][1].op)
      BY <3>1, <3>3 DEF StepsOf
    <3> HIDE DEF next
    <3> QED
      BY <3>1, <3>4, PlanPlain
  <2>3. CASE ReturnError(t)
    BY <2>3, PlanError
  <2>4. CASE NopTransfer(t) \/ PollReady(t)
    <3>1. pc[t] \in AccessSteps /\ EndAccess(t)
      BY <2>4 DEF NopTransfer, PollReady, AccessSteps, Steps
    <3> QED
      BY <3>1, PlanEnd
  <2>5. CASE UNCHANGED <<pc, todo>>
    BY <1>0, <2>5
  <2> QED
    BY <1>3, <2>1, <2>2, <2>3, <2>4, <2>5
    DEF Step, HeaderFails, ReadDataFails, WriteDataFails, PollAgain,
        ReadConfig, ReadConfigAgain, WriteConfig
<1>4. CASE SlaveStores \/ SlaveReady \/ SlaveServes \/ UNCHANGED vars
  BY <1>0, <1>4 DEF SlaveStores, SlaveReady, SlaveServes, vars
<1> QED
  BY <1>1, <1>2, <1>3, <1>4 DEF Next

\* What a transfer may carry: bytes at some addresses.
ByteMaps == UNION {[D -> Values] : D \in SUBSET Int}

DataInv ==
  /\ buf \in [Thread -> [0 .. 3 -> Values]]
  /\ polls \in [Thread -> 0 .. MaxTries - 1]
  /\ \A t \in Thread : pc[t] = "poll" => polls[t] < MaxTries - 1
  /\ trnsLen \in Nat
  /\ mem \in [Addr -> Values] /\ inflight \in Seq(ByteMaps)
  /\ busy \in BOOLEAN
  /\ DOMAIN written = Thread
  /\ \A t \in Thread : DOMAIN written[t] \subseteq Addr
  /\ asked \subseteq Addr /\ spoilt \subseteq Addr
  /\ calls \in [Thread -> 0 .. MaxCalls]

dataVars == <<pc, buf, polls, trnsLen, mem, inflight, busy, written, asked, spoilt, calls>>

LEMMA ValuesFacts ==
  /\ Zero \in Values /\ Noise \in Values
  /\ \A a \in Addr : Original(a) \in Values
  /\ \A t \in Thread : calls \in [Thread -> 0 .. MaxCalls] =>
       \A a \in Addr : Value(t, a) \in Values
<1>1. Zero \in Values /\ Noise \in Values
  BY DEF Values, Zero, Noise
<1>2. \A a \in Addr : Original(a) \in Values
  BY DEF Values, Original
<1>3. ASSUME NEW t \in Thread, calls \in [Thread -> 0 .. MaxCalls], NEW a \in Addr
      PROVE  Value(t, a) \in Values
  <2>1. calls[t] \in Nat
    BY <1>3
  <2> QED
    BY <2>1 DEF Values, Value
<1> QED
  BY <1>1, <1>2, <1>3

LEMMA DataInvInit == Init => DataInv
<1> SUFFICES ASSUME Init PROVE DataInv
  OBVIOUS
<1>1. 0 \in 0 .. MaxCalls /\ 0 \in 0 .. MaxTries - 1
  BY DriverAssumption
<1>2. /\ [b \in 0 .. 3 |-> Zero] \in [0 .. 3 -> Values]
      /\ [a \in Addr |-> Original(a)] \in [Addr -> Values]
  BY ValuesFacts
<1>3. << >> \in Seq(ByteMaps) /\ DOMAIN << >> = {}
  OBVIOUS
<1>4. /\ pc = [t \in Thread |-> "idle"] /\ buf = [t \in Thread |-> [b \in 0 .. 3 |-> Zero]]
      /\ polls = [t \in Thread |-> 0] /\ trnsLen = 0
      /\ mem = [a \in Addr |-> Original(a)]
      /\ inflight = << >> /\ busy = FALSE /\ asked = {} /\ spoilt = {}
      /\ written = [t \in Thread |-> << >>] /\ calls = [t \in Thread |-> 0]
  BY DEF Init
<1>5. \A t \in Thread : DOMAIN written[t] \subseteq Addr
  BY <1>3, <1>4
<1> QED
  BY <1>1, <1>2, <1>3, <1>4, <1>5 DEF DataInv

\* An access that ends, or a call that returns an error.
LEMMA WrittenKept ==
  ASSUME Inv, PlanInv, DataInv, NEW t \in Thread,
         (pc[t] \in AccessSteps /\ EndAccess(t)) \/ ReturnError(t)
  PROVE  /\ DOMAIN written' = Thread
         /\ \A u \in Thread : DOMAIN written'[u] \subseteq Addr
<1>1. CASE UNCHANGED written
  BY <1>1 DEF DataInv
<1>2. CASE pc[t] \in AccessSteps /\ EndAccess(t) /\ ~ UNCHANGED written
  <2> DEFINE x == Head(todo[t])
             new == WithAccess(written[t], t, x)
  <2>1. written' = [written EXCEPT ![t] = new]
    BY <1>2 DEF EndAccess
  <2>2. AskedBytes(x) \subseteq Addr
    BY <1>2, AtAccess DEF Fits
  <2>3. DOMAIN new = DOMAIN written[t] \cup AskedBytes(x)
    BY DEF WithAccess, AskedBytes
  <2> HIDE DEF new, x
  <2> QED
    BY <2>1, <2>2, <2>3 DEF DataInv
<1> QED
  BY <1>1, <1>2 DEF ReturnError

\* Where no byte moves: the program counter leads to a poll only with the count
\* reset, and the rest of the data is kept.
LEMMA DataKept ==
  ASSUME Inv, DataInv, NEW t \in Thread, NEW s, pc' = [pc EXCEPT ![t] = s],
         polls' \in [Thread -> 0 .. MaxTries - 1],
         \A u \in Thread \ {t} : polls'[u] = polls[u],
         s = "poll" => polls'[t] < MaxTries - 1,
         trnsLen' \in Nat,
         buf' \in [Thread -> [0 .. 3 -> Values]],
         inflight' \in Seq(ByteMaps), busy' \in BOOLEAN,
         DOMAIN written' = Thread,
         \A u \in Thread : DOMAIN written'[u] \subseteq Addr,
         spoilt' \subseteq Addr, UNCHANGED <<mem, asked, calls>>
  PROVE  DataInv'
<1>1. \A u \in Thread : pc'[u] = IF u = t THEN s ELSE pc[u]
  BY DEF Inv, ControlInv
<1>2. \A u \in Thread : pc'[u] = "poll" => polls'[u] < MaxTries - 1
  BY <1>1 DEF DataInv
<1> QED
  BY <1>2 DEF DataInv

LEMMA WordsTyped ==
  ASSUME Inv, PlanInv, DataInv, NEW t \in Thread, pc[t] = "write_data"
  PROVE  WordsToWrite(t, Head(todo[t])) \in ByteMaps
<1> DEFINE x == Head(todo[t])
           D == x.addr .. x.addr + x.size - 1
<1>1. Fits(x, Addr) /\ x.op = "write"
  <2>1. pc[t] \in AccessSteps
    BY DEF AccessSteps, Steps
  <2>2. Fits(x, Addr) /\ pc[t] \in StepsOf(x.op)
    BY <2>1, AtAccess
  <2> QED
    BY <2>2, OpSteps DEF Fits
<1> HIDE DEF x
<1>2. \A a \in D : a \notin AskedBytes(x) => a - x.addr \in 0 .. 3
  <2> SUFFICES ASSUME NEW a \in D, a \notin AskedBytes(x) PROVE a - x.addr \in 0 .. 3
    OBVIOUS
  <2>1. x.size = 4 /\ x.addr \in Int
    BY <1>1 DEF Fits, Partial, WordBytes
  <2> QED
    BY <2>1
<1>3. WordsToWrite(t, x) \in [D -> Values]
  <2>1. \A a \in D : a \in AskedBytes(x) => Value(t, a) \in Values
    BY <1>1, ValuesFacts DEF Fits, DataInv
  <2>2. \A a \in D : a \notin AskedBytes(x) => buf[t][a - x.addr] \in Values
    BY <1>2 DEF DataInv
  <2> QED
    BY <2>1, <2>2 DEF WordsToWrite, AskedBytes
<1>4. D \in SUBSET Int
  BY <1>1 DEF Fits
<1> QED
  BY <1>3, <1>4 DEF ByteMaps, x

LEMMA AcceptTyped ==
  ASSUME Inv, PlanInv, DataInv, NEW t \in Thread, pc[t] = "write_data",
         SlaveAccepts(t) \/ UNCHANGED <<inflight, busy>>
  PROVE  inflight' \in Seq(ByteMaps) /\ busy' \in BOOLEAN
<1>1. WordsToWrite(t, Head(todo[t])) \in ByteMaps
  BY WordsTyped
<1>2. inflight \in Seq(ByteMaps) /\ busy \in BOOLEAN
  BY DEF DataInv
<1>3. Append(inflight, WordsToWrite(t, Head(todo[t]))) \in Seq(ByteMaps)
  BY <1>1, <1>2
<1> QED
  BY <1>2, <1>3 DEF SlaveAccepts

LEMMA DataInvCall ==
  ASSUME Inv, DataInv, NEW t \in Thread, CallAccess(t)
  PROVE  DataInv'
<1>1. PICK job \in Jobs[t] : CallOf(t, job) /\ PlanGood(job, PlanFor(job))
  BY CallPlan
<1>2. PICK s : s # "poll" /\ pc' = [pc EXCEPT ![t] = s]
  <2>1. PlanFor(job)[1].op \in {"read", "write", "nop"}
    BY <1>1 DEF PlanGood, Fits
  <2>2. Entry(PlanFor(job)[1].op) # "poll"
    BY <2>1 DEF Entry
  <2> QED
    BY <1>1, <2>2 DEF CallOf
<1>3. \A u \in Thread : pc'[u] = "poll" => pc[u] = "poll"
  BY <1>2 DEF Inv, ControlInv
<1>4. job.addr .. job.addr + job.len - 1 \subseteq Addr
  <2> DEFINE a == job.addr
             e == job.addr + job.len - 1
  <2>1. a \in Nat /\ e \in Nat /\ AlignDown(a) .. AlignDown(e) + 3 \subseteq Addr
    BY <1>1 DEF CallOf, PlanGood, RangeWords
  <2> HIDE DEF a, e
  <2>2. /\ AlignDown(a) \in Nat /\ AlignDown(a) <= a
        /\ AlignDown(e) \in Nat /\ e < AlignDown(e) + 4
    BY <2>1, AlignDownBounds
  <2>3. a .. e \subseteq Addr
    BY <2>1, <2>2
  <2> QED
    BY <2>3 DEF a, e
<1>5. asked' \subseteq Addr /\ spoilt' \subseteq Addr
  BY <1>1, <1>4 DEF CallOf, RangeOf, DataInv, CallAccess
<1>6. /\ written' = [written EXCEPT ![t] = Without(written[t], RangeOf(job))]
      /\ DOMAIN Without(written[t], RangeOf(job)) \subseteq DOMAIN written[t]
  BY <1>1 DEF CallOf, Without
<1>7. DOMAIN written' = Thread /\ \A u \in Thread : DOMAIN written'[u] \subseteq Addr
  BY <1>6 DEF DataInv
<1>8. /\ calls[t] < MaxCalls /\ calls' = [calls EXCEPT ![t] = calls[t] + 1]
      /\ buf' = [buf EXCEPT ![t] = [b \in 0 .. 3 |-> Zero]]
      /\ UNCHANGED <<polls, trnsLen, mem, inflight, busy>>
  BY DEF CallAccess
<1>10. buf' \in [Thread -> [0 .. 3 -> Values]]
  BY <1>8, ValuesFacts DEF DataInv
<1>9. calls' \in [Thread -> 0 .. MaxCalls]
  BY <1>8, DriverAssumption DEF DataInv
<1> QED
  BY <1>3, <1>5, <1>7, <1>8, <1>9, <1>10 DEF DataInv

LEMMA DataInvStore ==
  ASSUME DataInv, SlaveStores
  PROVE  DataInv'
<1>1. /\ inflight # << >> /\ mem' = Override(mem, Head(inflight)) /\ inflight' = Tail(inflight)
      /\ UNCHANGED <<pc, buf, polls, trnsLen, busy, written, asked, spoilt, calls>>
  BY DEF SlaveStores
<1>2. Head(inflight) \in ByteMaps /\ Tail(inflight) \in Seq(ByteMaps)
  BY <1>1 DEF DataInv
<1>3. PICK D \in SUBSET Int : Head(inflight) \in [D -> Values]
  BY <1>2 DEF ByteMaps
<1>4. mem' \in [Addr -> Values]
  BY <1>1, <1>3 DEF DataInv, Override
<1> QED
  BY <1>1, <1>2, <1>4 DEF DataInv

LEMMA DataInvPolls ==
  ASSUME DataInv, NEW t \in Thread
  PROVE  /\ [polls EXCEPT ![t] = 0] \in [Thread -> 0 .. MaxTries - 1]
         /\ 0 < MaxTries - 1
         /\ pc[t] = "poll" => [polls EXCEPT ![t] = polls[t] + 1] \in [Thread -> 0 .. MaxTries - 1]
         /\ polls \in [Thread -> 0 .. MaxTries - 1]
         /\ MaxTries \in Int
  BY DriverAssumption DEF DataInv

LEMMA DataInvTransfer ==
  ASSUME Inv, PlanInv, DataInv, NEW t \in Thread,
         \/ WriteTrnsLen(t) \/ ReadHeader(t) \/ HeaderFails(t) \/ ReadData(t)
         \/ ReadDataFails(t) \/ WriteHeader(t) \/ WriteData(t) \/ WriteDataFails(t)
         \/ NopTransfer(t) \/ PollReady(t) \/ PollAgain(t)
  PROVE  DataInv'
<1>0. /\ buf \in [Thread -> [0 .. 3 -> Values]] /\ trnsLen \in Nat
      /\ inflight \in Seq(ByteMaps) /\ busy \in BOOLEAN
      /\ DOMAIN written = Thread /\ \A u \in Thread : DOMAIN written[u] \subseteq Addr
      /\ polls \in [Thread -> 0 .. MaxTries - 1] /\ spoilt \subseteq Addr
  BY DEF DataInv
<1>1. CASE WriteTrnsLen(t)
  <2>1. pc[t] \in AccessSteps
    BY <1>1 DEF WriteTrnsLen, AccessSteps, Steps
  <2>2. Head(todo[t]).size \in Nat
    BY <2>1, AtAccess DEF Fits
  <2>3. /\ trnsLen' \in Nat /\ pc' = [pc EXCEPT ![t] = "read_header"]
        /\ UNCHANGED <<buf, polls, mem, inflight, busy, written, asked, spoilt, calls>>
    BY <1>0, <1>1, <2>2 DEF WriteTrnsLen, Goto
  <2> QED
    BY <1>0, <2>3, DataKept
<1>2. CASE ReadHeader(t) \/ WriteHeader(t)
  <2>1. /\ \E s \in {"read_data", "write_data"} : pc' = [pc EXCEPT ![t] = s]
        /\ UNCHANGED <<trnsLen, buf, polls, mem, inflight, busy, written, asked, spoilt, calls>>
    BY <1>2 DEF ReadHeader, WriteHeader, Header, Goto
  <2> QED
    BY <1>0, <2>1, DataKept
<1>3. CASE HeaderFails(t) \/ ReadDataFails(t)
  <2>1. /\ pc' = [pc EXCEPT ![t] = "idle"]
        /\ UNCHANGED <<trnsLen, buf, polls, mem, inflight, busy, written, asked, spoilt, calls>>
    BY <1>3 DEF HeaderFails, ReadDataFails, ReturnError, Goto
  <2> QED
    BY <1>0, <2>1, DataKept
<1>4. CASE ReadData(t)
  <2> DEFINE x == Head(todo[t])
  <2>1. pc[t] \in AccessSteps
    BY <1>4 DEF ReadData, AccessSteps, Steps
  <2>2. Fits(x, Addr)
    BY <2>1, AtAccess
  <2> DEFINE word == [b \in 0 .. 3 |-> mem[x.addr + b]]
             noise == [b \in 0 .. 3 |-> Noise]
  <2>3. \/ UNCHANGED <<buf, written, spoilt>>
        \/ /\ x.size = 4
           /\ \E w \in {word, noise} : buf' = [buf EXCEPT ![t] = w]
           /\ \/ UNCHANGED <<written, spoilt>>
              \/ /\ written' = [written EXCEPT ![t] = Without(written[t], WordAt(x.addr))]
                 /\ spoilt' = spoilt \cup WordAt(x.addr)
    BY <1>4 DEF ReadData
  <2> HIDE DEF x
  <2>4. x.size = 4 => WordAt(x.addr) \subseteq Addr /\ \A b \in 0 .. 3 : mem[x.addr + b] \in Values
    <3> SUFFICES ASSUME x.size = 4
                 PROVE  WordAt(x.addr) \subseteq Addr
                        /\ \A b \in 0 .. 3 : mem[x.addr + b] \in Values
      OBVIOUS
    <3>1. x.addr \in Int /\ x.addr .. x.addr + 3 \subseteq Addr
      BY <2>2 DEF Fits, WordBytes
    <3>2. \A b \in 0 .. 3 : x.addr + b \in x.addr .. x.addr + 3
      BY <3>1
    <3> QED
      BY <3>1, <3>2 DEF DataInv, WordAt
  <2>5. (x.size = 4 => word \in [0 .. 3 -> Values]) /\ noise \in [0 .. 3 -> Values]
    BY <2>4, ValuesFacts
  <2>6. buf' \in [Thread -> [0 .. 3 -> Values]]
    <3> HIDE DEF word, noise
    <3>1. CASE UNCHANGED buf
      BY <1>0, <3>1
    <3>2. ASSUME NEW w \in {word, noise}, x.size = 4, buf' = [buf EXCEPT ![t] = w]
          PROVE  buf' \in [Thread -> [0 .. 3 -> Values]]
      <4>1. w \in [0 .. 3 -> Values]
        BY <2>5, <3>2
      <4> QED
        BY <1>0, <3>2, <4>1
    <3> QED
      BY <2>3, <3>1, <3>2
  <2>9. /\ spoilt' \subseteq Addr /\ DOMAIN written' = Thread
        /\ \A u \in Thread : DOMAIN written'[u] \subseteq Addr
    <3> HIDE DEF word, noise
    <3>1. DOMAIN Without(written[t], WordAt(x.addr)) \subseteq DOMAIN written[t]
      BY DEF Without
    <3> QED
      BY <1>0, <2>3, <2>4, <3>1
  <2>7. /\ pc' = [pc EXCEPT ![t] = "poll"] /\ polls' = [polls EXCEPT ![t] = 0]
        /\ busy' = TRUE /\ UNCHANGED <<trnsLen, mem, inflight, asked, calls>>
    BY <1>4 DEF ReadData, Goto
  <2>8. polls'[t] = 0 /\ \A u \in Thread \ {t} : polls'[u] = polls[u]
    BY <1>0, <2>7
  <2> QED
    BY <1>0, <2>6, <2>7, <2>8, <2>9, DataInvPolls, DataKept
<1>5. CASE WriteData(t)
  <2>1. inflight' \in Seq(ByteMaps) /\ busy' \in BOOLEAN
    BY <1>5, AcceptTyped DEF WriteData
  <2>2. /\ pc' = [pc EXCEPT ![t] = "poll"] /\ polls' = [polls EXCEPT ![t] = 0]
        /\ UNCHANGED <<buf, trnsLen, mem, written, asked, spoilt, calls>>
    BY <1>5 DEF WriteData, Goto
  <2>3. polls'[t] = 0 /\ \A u \in Thread \ {t} : polls'[u] = polls[u]
    BY <1>0, <2>2
  <2> QED
    BY <1>0, <2>1, <2>2, <2>3, DataInvPolls, DataKept
<1>6. CASE WriteDataFails(t)
  <2>1. inflight' \in Seq(ByteMaps) /\ busy' \in BOOLEAN
    BY <1>6, AcceptTyped DEF WriteDataFails
  <2>2. /\ pc' = [pc EXCEPT ![t] = "idle"]
        /\ UNCHANGED <<polls, buf, trnsLen, mem, written, asked, spoilt, calls>>
    BY <1>6 DEF WriteDataFails, ReturnError, Goto
  <2> QED
    BY <1>0, <2>1, <2>2, DataKept
<1>7. CASE NopTransfer(t) \/ PollReady(t)
  <2>1. /\ pc[t] \in AccessSteps /\ EndAccess(t)
        /\ UNCHANGED <<polls, buf, trnsLen, mem, inflight, busy, asked, spoilt, calls>>
    BY <1>7 DEF NopTransfer, PollReady, AccessSteps, Steps
  <2>2. DOMAIN written' = Thread /\ \A u \in Thread : DOMAIN written'[u] \subseteq Addr
    BY <2>1, WrittenKept
  <2>3. \E s : s # "poll" /\ pc' = [pc EXCEPT ![t] = s]
    <3>1. pc' = [pc EXCEPT ![t] =
                   IF Tail(todo[t]) = << >> THEN "idle" ELSE Entry(todo[t][2].op)]
      BY <2>1 DEF EndAccess, Goto
    <3>2. CASE Tail(todo[t]) = << >>
      BY <3>1, <3>2
    <3>3. CASE Tail(todo[t]) # << >>
      <4>1. todo[t] \in Seq(Accesses(Ops)) /\ todo[t] # << >>
        BY <2>1, AtAccess
      <4>2. 2 \in DOMAIN todo[t]
        BY <3>3, <4>1
      <4>3. todo[t][2].op \in {"read", "write", "nop"}
        BY <4>2 DEF PlanInv, PlanOf, Fits
      <4>4. Entry(todo[t][2].op) # "poll"
        BY <4>3 DEF Entry
      <4> QED
        BY <3>1, <3>3, <4>4
    <3> QED
      BY <3>2, <3>3
  <2> QED
    BY <1>0, <2>1, <2>2, <2>3, DataKept
<1>8. CASE PollAgain(t)
  <2>1. /\ pc[t] = "poll" /\ polls' = [polls EXCEPT ![t] = polls[t] + 1]
        /\ UNCHANGED <<buf, trnsLen, mem, inflight, busy, asked, spoilt, calls>>
    BY <1>8 DEF PollAgain
  <2>2. /\ polls[t] < MaxTries - 1 /\ polls[t] \in 0 .. MaxTries - 1
        /\ MaxTries \in Int
    BY <2>1, DriverAssumption DEF DataInv
  <2>3. /\ polls' \in [Thread -> 0 .. MaxTries - 1] /\ polls'[t] = polls[t] + 1
        /\ \A u \in Thread \ {t} : polls'[u] = polls[u]
    BY <1>0, <2>1, DataInvPolls
  <2>4. CASE polls[t] + 1 = MaxTries - 1
    <3>1. pc' = [pc EXCEPT ![t] = "idle"] /\ UNCHANGED written
      BY <1>8, <2>4 DEF PollAgain, ReturnError, Goto
    <3> QED
      BY <1>0, <2>1, <2>3, <3>1, DataKept
  <2>5. CASE polls[t] + 1 # MaxTries - 1
    <3>1. pc' = [pc EXCEPT ![t] = "poll"] /\ UNCHANGED written
      BY <1>8, <2>1, <2>5 DEF PollAgain, Inv, ControlInv
    <3>2. polls'[t] < MaxTries - 1
      BY <2>2, <2>3, <2>5
    <3> QED
      BY <1>0, <2>1, <2>3, <3>1, <3>2, DataKept
  <2> QED
    BY <2>4, <2>5
<1> QED
  BY <1>1, <1>2, <1>3, <1>4, <1>5, <1>6, <1>7, <1>8

LEMMA DataInvStep == Inv /\ PlanInv /\ DataInv /\ [Next]_vars => DataInv'
<1> SUFFICES ASSUME Inv, PlanInv, DataInv, [Next]_vars PROVE DataInv'
  OBVIOUS
<1>0. ASSUME UNCHANGED dataVars PROVE DataInv'
  BY <1>0 DEF DataInv, dataVars
<1>1. ASSUME NEW t \in Thread, CallAccess(t) PROVE DataInv'
  BY <1>1, DataInvCall
<1>2. ASSUME NEW t \in Thread, CallInterrupt(t) PROVE DataInv'
  <2>1. /\ calls[t] < MaxCalls /\ calls' = [calls EXCEPT ![t] = calls[t] + 1]
        /\ pc' = [pc EXCEPT ![t] = "irr"]
        /\ UNCHANGED <<buf, polls, trnsLen, mem, inflight, busy, written, asked, spoilt>>
    BY <1>2 DEF CallInterrupt, Goto
  <2>2. calls' \in [Thread -> 0 .. MaxCalls]
    BY <2>1, DriverAssumption DEF DataInv
  <2>3. \A u \in Thread : pc'[u] = "poll" => pc[u] = "poll"
    BY <2>1 DEF Inv, ControlInv
  <2> QED
    BY <2>1, <2>2, <2>3 DEF DataInv
<1>3. ASSUME NEW t \in Thread, Step(t) PROVE DataInv'
  <2>1. CASE ReadConfig(t) \/ ReadConfigAgain(t) \/ WriteConfig(t)
    <3>1. /\ \E s \in {"irr_again", "irw", "idle"} : pc' = [pc EXCEPT ![t] = s]
          /\ UNCHANGED <<buf, polls, trnsLen, mem, inflight, busy, written, asked, spoilt, calls>>
      BY <2>1 DEF ReadConfig, ReadConfigAgain, WriteConfig, InterruptReturns, Goto
    <3>2. \A u \in Thread : pc'[u] = "poll" => pc[u] = "poll"
      BY <3>1 DEF Inv, ControlInv
    <3> QED
      BY <3>1, <3>2 DEF DataInv
  <2> QED
    BY <1>3, <2>1, DataInvTransfer DEF Step
<1>4. CASE SlaveStores
  BY <1>4, DataInvStore
<1>5. CASE SlaveReady
  BY <1>5 DEF SlaveReady, DataInv
<1>6. CASE SlaveServes \/ UNCHANGED vars
  BY <1>0, <1>6 DEF SlaveServes, vars, dataVars
<1> QED
  BY <1>1, <1>2, <1>3, <1>4, <1>5, <1>6 DEF Next

\* For any threads, calls and failures: no poll is made beyond the limit, nothing
\* outside slave memory is read or reported as written, and a thread is in an
\* access exactly as long as its call has accesses left.
THEOREM DriverTypeOK == Spec => []TypeOK
<1>1. Inv /\ IrqInv /\ PlanInv /\ DataInv => TypeOK
  <2> SUFFICES ASSUME Inv, IrqInv, PlanInv, DataInv PROVE TypeOK
    OBVIOUS
  <2>1. \A t \in Thread : pc[t] \in AccessSteps <=> todo[t] # << >>
    BY IdleHasNoPlan DEF Inv, ControlInv
  <2> QED
    BY <2>1 DEF TypeOK, AccessSteps, Inv, ControlInv, IrqInv, DataInv
<1> QED
  BY InvInit, InvStep, IrqInvInit, IrqInvStep, PlanInvInit, PlanInvStep,
     DataInvInit, DataInvStep, <1>1, PTL DEF Spec

-----------------------------------------------------------------------------
(* The word a partial write is completed with.                             *)

\* Every partial write of the plan p still has its read before it; or it has it
\* behind it, with no other read between, and its word is one of those in K. If
\* the first access has been made (done), what it read is in K.
Recalled(p, done, K) ==
  /\ \A i \in DOMAIN p :
       Partial(p[i]) =>
         \/ RereadComes(p, i)
         \/ p[i].addr \in K /\ \A k \in 1 .. i - 1 : p[k].op # "read"
  /\ done /\ p[1].op = "read" /\ p[1].size = 4 /\ (\E i \in DOMAIN p : p[i].op = "write")
       => p[1].addr \in K

LEMMA RecalledNew ==
  ASSUME NEW p, NEW K, PartialsReread(p)
  PROVE  Recalled(p, FALSE, K)
  BY DEF PartialsReread, Recalled

LEMMA RecalledMore ==
  ASSUME NEW p, NEW d \in BOOLEAN, NEW K, NEW L,
         Recalled(p, d, K), K \subseteq L
  PROVE  Recalled(p, d, L)
  BY DEF Recalled

\* Only the words of partial writes count once the first access is behind.
LEMMA RecalledFor ==
  ASSUME NEW p, NEW K, NEW L, Recalled(p, FALSE, K),
         \A i \in DOMAIN p : Partial(p[i]) /\ p[i].addr \in K => p[i].addr \in L
  PROVE  Recalled(p, FALSE, L)
  BY DEF Recalled

\* The first access is not a read: nothing is learnt by making it.
LEMMA RecalledOn ==
  ASSUME NEW p, NEW d \in BOOLEAN, NEW e \in BOOLEAN, NEW K, Recalled(p, d, K),
         e => d \/ p[1].op # "read"
  PROVE  Recalled(p, e, K)
  BY DEF Recalled

\* The first access is a read, and leaves its word in the buffer.
LEMMA RecalledRead ==
  ASSUME NEW S, NEW p \in Seq(S), p # << >>, NEW K, NEW L, Recalled(p, FALSE, K),
         p[1].op = "read",
         p[1].size = 4 /\ (\E i \in DOMAIN p : p[i].op = "write") => p[1].addr \in L
  PROVE  Recalled(p, TRUE, L)
<1>1. ASSUME NEW i \in DOMAIN p, Partial(p[i]) PROVE RereadComes(p, i)
  <2>1. i \in Nat /\ i >= 1
    OBVIOUS
  <2>2. i # 1
    BY <1>1 DEF Partial
  <2>3. ~ \A k \in 1 .. i - 1 : p[k].op # "read"
    BY <2>1, <2>2
  <2> QED
    BY <1>1, <2>3 DEF Recalled
<1> QED
  BY <1>1 DEF Recalled

\* A partial write that is first has its word in the buffer.
LEMMA RecalledFirst ==
  ASSUME NEW p, NEW d \in BOOLEAN, NEW K, Recalled(p, d, K), 1 \in DOMAIN p, Partial(p[1])
  PROVE  p[1].addr \in K
  BY DEF Recalled, RereadComes

\* The access that ended was the read of the word, or another that reads nothing.
LEMMA RecalledTail ==
  ASSUME NEW S, NEW p \in Seq(S), p # << >>, NEW d \in BOOLEAN, NEW K, Recalled(p, d, K),
         d \/ p[1].op # "read"
  PROVE  Recalled(Tail(p), FALSE, K)
<1> DEFINE q == Tail(p)
<1>1. /\ DOMAIN q = 1 .. Len(p) - 1 /\ Len(p) \in Nat /\ DOMAIN p = 1 .. Len(p)
      /\ \A i \in DOMAIN q : i + 1 \in DOMAIN p /\ q[i] = p[i + 1]
  BY TailOfPlan
<1> HIDE DEF q
<1>2. ASSUME NEW i \in DOMAIN q, Partial(q[i])
      PROVE  \/ RereadComes(q, i)
             \/ q[i].addr \in K /\ \A k \in 1 .. i - 1 : q[k].op # "read"
  <2>1. i \in Nat /\ i + 1 \in DOMAIN p /\ q[i] = p[i + 1]
    BY <1>1
  <2>2. \A k \in 1 .. i - 1 : q[k] = p[k + 1]
    BY <1>1
  <2>3. CASE p[i + 1].addr \in K /\ \A k \in 1 .. i : p[k].op # "read"
    BY <2>1, <2>2, <2>3
  <2>4. CASE RereadComes(p, i + 1)
    <3> DEFINE n == i + 1
    <3>0. n - 1 = i
      BY <2>1
    <3>1. PICK j \in 1 .. i : /\ Rereads(p[j], p[i + 1])
                              /\ \A k \in j + 1 .. i : p[k].op # "read"
      <4>1. RereadComes(p, n)
        BY <2>4
      <4> HIDE DEF n
      <4>2. \E j \in 1 .. n - 1 : /\ Rereads(p[j], p[n])
                                   /\ \A k \in j + 1 .. n - 1 : p[k].op # "read"
        BY <4>1, Zenon DEF RereadComes
      <4>3. \E j \in 1 .. i : /\ Rereads(p[j], p[n])
                               /\ \A k \in j + 1 .. i : p[k].op # "read"
        BY <3>0, <4>2, Zenon
      <4> QED
        BY <4>3, Zenon DEF n
    <3>2. CASE j = 1
      <4>1. p[1].op = "read" /\ p[1].size = 4 /\ p[1].addr = p[i + 1].addr
        BY <3>1, <3>2 DEF Rereads
      <4>2. p[i + 1].op = "write"
        BY <1>2, <2>1 DEF Partial
      <4>3. q[i].addr \in K
        BY <2>1, <4>1, <4>2 DEF Recalled
      <4>4. \A k \in 1 .. i - 1 : q[k].op # "read"
        BY <2>1, <2>2, <3>1, <3>2
      <4> QED
        BY <4>3, <4>4
    <3>3. CASE j # 1
      <4>1. j - 1 \in 1 .. i - 1 /\ q[j - 1] = p[j]
        BY <2>1, <2>2, <3>1, <3>3
      <4>2. Rereads(q[j - 1], q[i])
        BY <2>1, <3>1, <4>1
      <4>3. \A k \in (j - 1) + 1 .. i - 1 : q[k].op # "read"
        BY <2>1, <2>2, <3>1, <4>1
      <4> QED
        BY <4>1, <4>2, <4>3 DEF RereadComes
    <3> QED
      BY <3>2, <3>3
  <2> QED
    BY <1>2, <2>1, <2>3, <2>4 DEF Recalled
<1> QED
  BY <1>2 DEF Recalled, q

\* A read that completes its frame: the word it leaves, if it is for a write.
LEMMA ReadWord ==
  ASSUME Inv, PlanInv, DataInv, FrameIntact, NEW t \in Thread, ReadData(t)
  PROVE  LET x == todo[t][1]
             merges == x.size = 4 /\ \E i \in DOMAIN todo[t] : todo[t][i].op = "write"
             length == trnsLen = x.size
         IN  /\ todo[t] \in Seq(Accesses(Ops)) /\ todo[t] # << >>
             /\ x.op = "read" /\ pc[t] # "poll" /\ pc'[t] = "poll"
             /\ x.size = 4 => x.addr \in Int /\ \A b \in 0 .. 3 : x.addr + b \in Addr
             /\ merges /\ length =>
                  \A b \in 0 .. 3 : buf'[t][b] = mem[x.addr + b]
             /\ merges /\ ~ length =>
                  \A b \in 0 .. 3 : buf'[t][b] = mem[x.addr + b] \/ buf'[t][b] = Noise
             /\ merges /\ ~ length =>
                  /\ written'[t] = Without(written[t], WordAt(x.addr))
                  /\ spoilt' = spoilt \cup WordAt(x.addr)
             /\ ~ merges \/ length => UNCHANGED <<written, spoilt>>
<1> DEFINE x == todo[t][1]
           word == [b \in 0 .. 3 |-> mem[x.addr + b]]
           noise == [b \in 0 .. 3 |-> Noise]
           merges == x.size = 4 /\ \E i \in DOMAIN todo[t] : todo[t][i].op = "write"
           length == trnsLen = x.size
<1>1. pc[t] = "read_data" /\ pc' = [pc EXCEPT ![t] = "poll"]
  BY DEF ReadData, Goto
<1>2. cs = t /\ pc[t] # "poll" /\ pc'[t] = "poll"
  BY <1>1 DEF FrameIntact, HasFrame, Inv, ControlInv
<1>3. /\ todo[t] \in Seq(Accesses(Ops)) /\ todo[t] # << >> /\ Head(todo[t]) = x
      /\ Fits(x, Addr) /\ x.op = "read"
  <2>1. pc[t] \in AccessSteps
    BY <1>1 DEF AccessSteps, Steps
  <2>2. /\ todo[t] \in Seq(Accesses(Ops)) /\ todo[t] # << >> /\ Head(todo[t]) = x
        /\ Fits(x, Addr) /\ pc[t] \in StepsOf(x.op)
    BY <2>1, AtAccess
  <2> QED
    BY <1>1, <2>2, OpSteps DEF Fits
<1>4. x.size = 4 => x.addr \in Int /\ \A b \in 0 .. 3 : x.addr + b \in Addr
  <2> HIDE DEF x
  <2>1. x.size = 4 => x.addr \in Int /\ x.addr .. x.addr + 3 \subseteq Addr
    BY <1>3 DEF Fits, WordBytes
  <2>2. x.addr \in Int => \A b \in 0 .. 3 : x.addr + b \in x.addr .. x.addr + 3
    OBVIOUS
  <2> QED
    BY <2>1, <2>2
<1>5. /\ merges => \E w \in IF length THEN {word} ELSE {word, noise} : buf' = [buf EXCEPT ![t] = w]
      /\ merges => written' = IF length THEN written
                               ELSE [written EXCEPT ![t] = Without(written[t], WordAt(x.addr))]
      /\ merges => spoilt' = IF length THEN spoilt ELSE spoilt \cup WordAt(x.addr)
      /\ ~ merges => UNCHANGED <<written, spoilt>>
  BY <1>2, <1>3 DEF ReadData, Merges
<1>6. merges => \E w \in IF length THEN {word} ELSE {word, noise} : buf'[t] = w
  <2> HIDE DEF word, noise, merges, length
  <2> QED
    BY <1>5 DEF DataInv
<1>7. /\ merges /\ length => \A b \in 0 .. 3 : buf'[t][b] = mem[x.addr + b]
      /\ merges /\ ~ length =>
           \A b \in 0 .. 3 : buf'[t][b] = mem[x.addr + b] \/ buf'[t][b] = Noise
  BY <1>6
<1>8. /\ merges /\ ~ length =>
           /\ written'[t] = Without(written[t], WordAt(x.addr))
           /\ spoilt' = spoilt \cup WordAt(x.addr)
      /\ ~ merges \/ length => UNCHANGED <<written, spoilt>>
  <2> HIDE DEF merges, length
  <2> QED
    BY <1>5 DEF DataInv
<1> HIDE DEF word, noise
<1> QED
  BY <1>2, <1>3, <1>4, <1>7, <1>8

-----------------------------------------------------------------------------
(* The bytes around a write: a partial word is completed with what it had. *)

\* The bytes of f belong where they are.
Kept(f) == \A a \in DOMAIN f : Belongs(f[a], a)

BytesKept == Kept(mem) /\ \A i \in DOMAIN inflight : Kept(inflight[i])

\* The words that the buffer of t can complete.
FitWords(t) == {a \in Int : \A b \in 0 .. 3 : Belongs(buf[t][b], a + b)}

WordKnown(t) ==
  /\ Recalled(todo[t], pc[t] = "poll", FitWords(t))
  /\ \A i \in DOMAIN todo[t] :
       todo[t][i].op = "write" => AskedBytes(todo[t][i]) \subseteq asked

NeighbourInv == BytesKept /\ \A t \in Thread : WordKnown(t)

LEMMA NeighbourInvInit == Init => NeighbourInv
<1> SUFFICES ASSUME Init PROVE NeighbourInv
  OBVIOUS
<1>1. /\ mem = [a \in Addr |-> Original(a)] /\ inflight = << >>
      /\ todo = [t \in Thread |-> << >>] /\ pc = [t \in Thread |-> "idle"]
  BY DEF Init
<1>2. BytesKept
  BY <1>1 DEF BytesKept, Kept, Belongs
<1>3. \A t \in Thread : WordKnown(t)
  BY <1>1 DEF WordKnown, Recalled
<1> QED
  BY <1>2, <1>3 DEF NeighbourInv

\* What belongs somewhere goes on doing so.
LEMMA BelongsStays ==
  ASSUME asked \subseteq asked', spoilt \subseteq spoilt', NEW v, NEW a, Belongs(v, a)
  PROVE  Belongs(v, a)'
  BY DEF Belongs, Original, Noise

LEMMA BytesSame ==
  ASSUME BytesKept, UNCHANGED <<mem, inflight>>, asked \subseteq asked', spoilt \subseteq spoilt'
  PROVE  BytesKept'
<1>1. ASSUME NEW f, Kept(f) PROVE \A a \in DOMAIN f : Belongs(f[a], a)'
  BY <1>1, BelongsStays DEF Kept
<1>2. Kept(mem)'
  BY <1>1 DEF BytesKept, Kept
<1>3. ASSUME NEW i \in DOMAIN inflight' PROVE Kept(inflight[i])'
  BY <1>1 DEF BytesKept, Kept
<1> QED
  BY <1>2, <1>3 DEF BytesKept

LEMMA FitWordsStay ==
  ASSUME NEW t \in Thread, buf'[t] = buf[t], asked \subseteq asked', spoilt \subseteq spoilt'
  PROVE  FitWords(t) \subseteq FitWords(t)'
<1> SUFFICES ASSUME NEW a \in FitWords(t) PROVE a \in FitWords(t)'
  OBVIOUS
<1>1. a \in Int /\ \A b \in 0 .. 3 : Belongs(buf[t][b], a + b)
  BY DEF FitWords
<1>2. ASSUME NEW b \in 0 .. 3 PROVE Belongs(buf[t][b], a + b)'
  <2>1. Belongs(buf[t][b], a + b)
    BY <1>1
  <2>2. Belongs(buf'[t][b], a + b)
    BY <2>1
  <2> QED
    BY <2>2 DEF Belongs, Original, Noise
<1> QED
  BY <1>1, <1>2 DEF FitWords

\* The plan and the buffer stay, and a poll begins after a write only.
LEMMA KnownSame ==
  ASSUME NEW t \in Thread, WordKnown(t),
         todo'[t] = todo[t], buf'[t] = buf[t], asked \subseteq asked', spoilt \subseteq spoilt',
         pc'[t] = "poll" => pc[t] = "poll" \/ todo[t][1].op # "read"
  PROVE  WordKnown(t)'
<1>1. Recalled(todo[t], pc'[t] = "poll", FitWords(t))
  BY RecalledOn DEF WordKnown
<1>2. Recalled(todo[t], pc'[t] = "poll", FitWords(t)')
  BY <1>1, FitWordsStay, RecalledMore
<1>3. Recalled(todo[t], pc[t] = "poll", FitWords(t))'
  BY <1>2
<1> QED
  BY <1>3 DEF WordKnown

LEMMA KnownEmpty ==
  ASSUME NEW t \in Thread, todo'[t] = << >>, pc'[t] # "poll"
  PROVE  WordKnown(t)'
  BY DEF WordKnown, Recalled

LEMMA KnownNew ==
  ASSUME NEW t \in Thread, NEW plan, todo'[t] = plan, pc'[t] # "poll",
         PartialsReread(plan),
         \A i \in DOMAIN plan : plan[i].op = "write" => AskedBytes(plan[i]) \subseteq asked'
  PROVE  WordKnown(t)'
<1>1. Recalled(plan, FALSE, FitWords(t)')
  BY RecalledNew
<1>2. Recalled(todo[t], pc[t] = "poll", FitWords(t))'
  BY <1>1
<1> QED
  BY <1>2 DEF WordKnown

LEMMA KnownTail ==
  ASSUME NEW t \in Thread, WordKnown(t), NEW S, todo[t] \in Seq(S), todo[t] # << >>,
         todo'[t] = Tail(todo[t]), buf'[t] = buf[t], UNCHANGED <<asked, spoilt>>,
         pc'[t] # "poll", pc[t] = "poll" \/ todo[t][1].op # "read"
  PROVE  WordKnown(t)'
<1>1. Recalled(Tail(todo[t]), FALSE, FitWords(t))
  BY RecalledTail DEF WordKnown
<1>2. Recalled(Tail(todo[t]), FALSE, FitWords(t)')
  BY <1>1, FitWordsStay, RecalledMore
<1>3. Recalled(todo[t], pc[t] = "poll", FitWords(t))'
  BY <1>2
<1>4. \A i \in DOMAIN Tail(todo[t]) :
        i + 1 \in DOMAIN todo[t] /\ Tail(todo[t])[i] = todo[t][i + 1]
  BY TailOfPlan
<1> QED
  BY <1>3, <1>4 DEF WordKnown

\* The read of a word leaves it in the buffer.
LEMMA KnownRead ==
  ASSUME Inv, PlanInv, DataInv, FrameIntact, BytesKept, NEW t \in Thread, WordKnown(t),
         ReadData(t)
  PROVE  WordKnown(t)'
<1> DEFINE x == todo[t][1]
           merges == x.size = 4 /\ \E i \in DOMAIN todo[t] : todo[t][i].op = "write"
<1>1. UNCHANGED <<todo, asked>> /\ spoilt \subseteq spoilt'
  BY ReadWord DEF ReadData
<1>2. /\ todo[t] \in Seq(Accesses(Ops)) /\ todo[t] # << >> /\ x.op = "read"
      /\ pc[t] # "poll" /\ pc'[t] = "poll"
  BY ReadWord
<1>3. ASSUME merges PROVE x.addr \in FitWords(t)'
  <2>1. x.addr \in Int /\ \A b \in 0 .. 3 : x.addr + b \in Addr
    BY <1>3, ReadWord
  <2>2. ASSUME NEW b \in 0 .. 3 PROVE Belongs(buf[t][b], x.addr + b)'
    <3>1. Belongs(mem[x.addr + b], x.addr + b)
      BY <2>1 DEF BytesKept, Kept, DataInv
    <3>2. Belongs(mem[x.addr + b], x.addr + b)'
      BY <1>1, <3>1 DEF ReadData, Belongs, Original, Noise
    <3>3. CASE buf'[t][b] = mem[x.addr + b]
      BY <1>1, <3>2, <3>3 DEF ReadData, Belongs, Original, Noise
    <3>4. CASE buf'[t][b] # mem[x.addr + b]
      <4>1. buf'[t][b] = Noise /\ spoilt' = spoilt \cup WordAt(x.addr)
        BY <1>3, <3>4, ReadWord
      <4>2. x.addr + b \in WordAt(x.addr)
        BY <2>1 DEF WordAt
      <4> QED
        BY <1>1, <4>1, <4>2 DEF Belongs, Noise
    <3> QED
      BY <3>3, <3>4
  <2> QED
    BY <1>1, <2>1, <2>2 DEF FitWords
<1>4. Recalled(todo[t], FALSE, FitWords(t))
  BY <1>2, RecalledOn DEF WordKnown
<1>5. Recalled(todo[t], TRUE, FitWords(t)')
  BY <1>2, <1>3, <1>4, RecalledRead
<1>6. Recalled(todo[t], pc[t] = "poll", FitWords(t))'
  BY <1>1, <1>2, <1>5
<1> QED
  BY <1>1, <1>6 DEF WordKnown

\* What goes out with a write.
LEMMA WordsKept ==
  ASSUME Inv, PlanInv, DataInv, NEW t \in Thread, WordKnown(t), pc[t] = "write_data"
  PROVE  Kept(WordsToWrite(t, Head(todo[t])))
<1> DEFINE x == todo[t][1]
<1>1. pc[t] \in AccessSteps
  BY DEF AccessSteps, Steps
<1>2. /\ Head(todo[t]) = x /\ 1 \in DOMAIN todo[t] /\ Fits(x, Addr) /\ x.op = "write"
  <2>1. Head(todo[t]) = x /\ 1 \in DOMAIN todo[t] /\ Fits(x, Addr) /\ pc[t] \in StepsOf(x.op)
    BY <1>1, AtAccess
  <2> QED
    BY <2>1, OpSteps DEF Fits
<1>3. AskedBytes(x) \subseteq asked
  BY <1>2 DEF WordKnown
<1>4. Partial(x) => x.addr \in FitWords(t)
  BY <1>2, RecalledFirst DEF WordKnown
<1> HIDE DEF x
<1>5. ASSUME NEW a \in WordBytes(x)
      PROVE  Belongs(WordsToWrite(t, x)[a], a)
  <2>1. CASE a \in AskedBytes(x)
    <3>1. WordsToWrite(t, x)[a] = Value(t, a)
      BY <1>5, <2>1 DEF WordsToWrite, AskedBytes, WordBytes
    <3> QED
      BY <1>3, <2>1, <3>1 DEF Belongs, Value
  <2>2. CASE a \notin AskedBytes(x)
    <3>1. Partial(x) /\ x.size = 4 /\ x.addr \in Int
      BY <1>2, <1>5, <2>2 DEF Partial, Fits
    <3>2. a - x.addr \in 0 .. 3 /\ x.addr + (a - x.addr) = a
      BY <1>5, <3>1 DEF WordBytes
    <3>3. Belongs(buf[t][a - x.addr], x.addr + (a - x.addr))
      BY <1>4, <3>1, <3>2 DEF FitWords
    <3>4. WordsToWrite(t, x)[a] = buf[t][a - x.addr]
      BY <1>5, <2>2 DEF WordsToWrite, AskedBytes, WordBytes
    <3> QED
      BY <3>2, <3>3, <3>4
  <2> QED
    BY <2>1, <2>2
<1>6. DOMAIN WordsToWrite(t, x) = WordBytes(x)
  BY DEF WordsToWrite, WordBytes
<1> QED
  BY <1>2, <1>5, <1>6 DEF Kept

LEMMA AcceptKept ==
  ASSUME Inv, PlanInv, DataInv, BytesKept, NEW t \in Thread, WordKnown(t), pc[t] = "write_data",
         SlaveAccepts(t) \/ UNCHANGED <<inflight, busy>>, UNCHANGED <<mem, asked, spoilt>>
  PROVE  BytesKept'
<1> DEFINE w == WordsToWrite(t, Head(todo[t]))
<1>1. Kept(w)
  BY WordsKept
<1>2. inflight \in Seq(ByteMaps) /\ w \in ByteMaps
  BY WordsTyped DEF DataInv
<1>3. inflight' = Append(inflight, w) \/ inflight' = inflight
  BY DEF SlaveAccepts
<1> HIDE DEF w
<1>4. \A i \in DOMAIN inflight' :
        \/ i \in DOMAIN inflight /\ inflight'[i] = inflight[i]
        \/ inflight'[i] = w
  BY <1>2, <1>3
<1> QED
  BY <1>1, <1>4 DEF BytesKept, Kept, Belongs, Original, Noise

LEMMA StoreKept ==
  ASSUME DataInv, BytesKept, SlaveStores
  PROVE  BytesKept'
<1>1. /\ inflight # << >> /\ mem' = Override(mem, Head(inflight)) /\ inflight' = Tail(inflight)
      /\ UNCHANGED <<asked, spoilt>> /\ inflight \in Seq(ByteMaps)
  BY DEF SlaveStores, DataInv
<1>2. Head(inflight) = inflight[1] /\ 1 \in DOMAIN inflight
  BY <1>1
<1>3. Kept(mem')
  <2>1. Kept(mem) /\ Kept(Head(inflight))
    BY <1>2 DEF BytesKept
  <2> QED
    BY <1>1, <2>1 DEF Kept, Override
<1>4. \A i \in DOMAIN inflight' : i + 1 \in DOMAIN inflight /\ inflight'[i] = inflight[i + 1]
  BY <1>1, TailOfPlan
<1>5. \A i \in DOMAIN inflight' : Kept(inflight'[i])
  BY <1>4 DEF BytesKept
<1> QED
  BY <1>1, <1>3, <1>5 DEF BytesKept, Kept, Belongs, Original, Noise

\* A step of t leaves the other threads' plans and buffers alone.
LEMMA OthersKnown ==
  ASSUME Inv, DataInv, NEW t \in Thread,
         CallAccess(t) \/ CallInterrupt(t) \/ Step(t)
  PROVE  /\ \A u \in Thread \ {t} : pc'[u] = pc[u] /\ todo'[u] = todo[u] /\ buf'[u] = buf[u]
         /\ asked \subseteq asked' /\ spoilt \subseteq spoilt'
<1>1. \E s : pc' = [pc EXCEPT ![t] = s]
  <2>1. pc = [pc EXCEPT ![t] = pc[t]]
    BY DEF Inv, ControlInv
  <2> QED
    BY <2>1
    DEF CallAccess, CallInterrupt, Step, WriteTrnsLen, ReadHeader, WriteHeader, Header,
        HeaderFails, ReadData, ReadDataFails, WriteData, WriteDataFails, NopTransfer,
        PollReady, PollAgain, ReadConfig, ReadConfigAgain, WriteConfig,
        InterruptReturns, EndAccess, ReturnError, Goto
<1>2. UNCHANGED todo \/ \E p : todo' = [todo EXCEPT ![t] = p]
  BY DEF CallAccess, CallInterrupt, Step, WriteTrnsLen, ReadHeader, WriteHeader, Header,
        HeaderFails, ReadData, ReadDataFails, WriteData, WriteDataFails, NopTransfer,
        PollReady, PollAgain, ReadConfig, ReadConfigAgain, WriteConfig,
        EndAccess, ReturnError
<1>3. UNCHANGED buf \/ \E w : buf' = [buf EXCEPT ![t] = w]
  BY DEF CallAccess, CallInterrupt, Step, WriteTrnsLen, ReadHeader, WriteHeader, Header,
        HeaderFails, ReadData, ReadDataFails, WriteData, WriteDataFails, NopTransfer,
        PollReady, PollAgain, ReadConfig, ReadConfigAgain, WriteConfig
<1>4. asked \subseteq asked' /\ spoilt \subseteq spoilt'
  BY DEF CallAccess, CallInterrupt, Step, WriteTrnsLen, ReadHeader, WriteHeader, Header,
        HeaderFails, ReadData, ReadDataFails, WriteData, WriteDataFails, NopTransfer,
        PollReady, PollAgain, ReadConfig, ReadConfigAgain, WriteConfig
<1>5. DOMAIN pc = Thread /\ DOMAIN todo = Thread /\ DOMAIN buf = Thread
  BY DEF Inv, ControlInv, DataInv
<1>6. \A u \in Thread \ {t} : pc'[u] = pc[u]
  BY <1>1, <1>5
<1>7. \A u \in Thread \ {t} : todo'[u] = todo[u]
  BY <1>2, <1>5
<1>8. \A u \in Thread \ {t} : buf'[u] = buf[u]
  BY <1>3, <1>5
<1> QED
  BY <1>4, <1>6, <1>7, <1>8

LEMMA NeighbourCall ==
  ASSUME Inv, PlanInv, NeighbourInv, NEW t \in Thread, CallAccess(t)
  PROVE  WordKnown(t)'
<1>1. PICK job \in Jobs[t] : CallOf(t, job) /\ PlanGood(job, PlanFor(job))
  BY CallPlan
<1> DEFINE plan == PlanFor(job)
<1>2. /\ todo' = [todo EXCEPT ![t] = plan] /\ pc' = [pc EXCEPT ![t] = Entry(plan[1].op)]
      /\ job.kind \in {"read", "write"}
      /\ job.kind = "write" => asked' = asked \cup job.addr .. job.addr + job.len - 1
  BY <1>1 DEF CallOf, RangeOf
<1>3. /\ PartialsReread(plan)
      /\ plan \in Seq(Accesses({"read", "write", "nop"})) /\ Len(plan) > 0
      /\ \A i \in DOMAIN plan : Fits(plan[i], RangeWords(job.addr, job.len))
      /\ job.kind = "read" => \A i \in DOMAIN plan : plan[i].op = "read"
      /\ job.kind = "write" =>
           \A i \in DOMAIN plan : plan[i].op = "write" =>
             AskedBytes(plan[i]) \subseteq job.addr .. job.addr + job.len - 1
  BY <1>1 DEF PlanGood
<1> HIDE DEF plan
<1>4. todo'[t] = plan
  BY <1>2 DEF Inv, ControlInv
<1>5. pc'[t] # "poll"
  <2>1. plan[1].op \in {"read", "write", "nop"}
    BY <1>3 DEF Fits
  <2>2. Entry(plan[1].op) # "poll"
    BY <2>1 DEF Entry
  <2> QED
    BY <1>2, <2>2 DEF Inv, ControlInv
<1>6. \A i \in DOMAIN plan : plan[i].op = "write" => AskedBytes(plan[i]) \subseteq asked'
  BY <1>2, <1>3
<1> QED
  BY <1>3, <1>4, <1>5, <1>6, KnownNew

\* An ended access leads to the next or to the end of the call.
LEMMA EndedAccess ==
  ASSUME Inv, PlanInv, NEW t \in Thread, pc[t] \in AccessSteps, EndAccess(t)
  PROVE  /\ todo[t] \in Seq(Accesses(Ops)) /\ todo[t] # << >>
         /\ todo'[t] = Tail(todo[t]) /\ pc'[t] # "poll"
<1>1. todo[t] \in Seq(Accesses(Ops)) /\ todo[t] # << >>
  BY AtAccess
<1>2. /\ todo' = [todo EXCEPT ![t] = Tail(todo[t])]
      /\ pc' = [pc EXCEPT ![t] =
                  IF Tail(todo[t]) = << >> THEN "idle" ELSE Entry(todo[t][2].op)]
  BY DEF EndAccess, Goto
<1>3. todo'[t] = Tail(todo[t])
        /\ pc'[t] = IF Tail(todo[t]) = << >> THEN "idle" ELSE Entry(todo[t][2].op)
  BY <1>2 DEF Inv, ControlInv
<1>4. ASSUME Tail(todo[t]) # << >> PROVE Entry(todo[t][2].op) # "poll"
  <2>1. 2 \in DOMAIN todo[t]
    BY <1>1, <1>4
  <2>2. todo[t][2].op \in {"read", "write", "nop"}
    BY <2>1 DEF PlanInv, PlanOf, Fits
  <2> QED
    BY <2>2 DEF Entry
<1> QED
  BY <1>1, <1>3, <1>4

LEMMA NeighbourTransfer ==
  ASSUME Inv, PlanInv, DataInv, FrameIntact, NeighbourInv, NEW t \in Thread, Step(t)
  PROVE  BytesKept' /\ WordKnown(t)'
<1>0. BytesKept /\ WordKnown(t) /\ pc \in [Thread -> Steps] /\ DOMAIN todo = Thread
  BY DEF NeighbourInv, Inv, ControlInv
<1>1. CASE ReadData(t)
  <2>1. UNCHANGED <<mem, inflight, asked>> /\ spoilt \subseteq spoilt'
    BY <1>1, ReadWord DEF ReadData
  <2> QED
    BY <1>0, <1>1, <2>1, BytesSame, KnownRead
<1>2. CASE WriteData(t)
  <2>1. /\ pc[t] = "write_data" /\ SlaveAccepts(t)
        /\ UNCHANGED <<todo, buf, mem, asked, spoilt>>
    BY <1>2 DEF WriteData
  <2>2. BytesKept'
    BY <1>0, <2>1, AcceptKept
  <2>3. todo[t][1].op # "read"
    <3>1. pc[t] \in AccessSteps
      BY <2>1 DEF AccessSteps, Steps
    <3>2. pc[t] \in StepsOf(todo[t][1].op) /\ Fits(todo[t][1], Addr)
      BY <3>1, AtAccess
    <3> QED
      BY <2>1, <3>2, OpSteps DEF Fits
  <2> QED
    BY <1>0, <2>1, <2>2, <2>3, KnownSame
<1>3. CASE WriteDataFails(t)
  <2>1. /\ pc[t] = "write_data"
        /\ SlaveAccepts(t) \/ UNCHANGED <<inflight, busy>>
        /\ ReturnError(t) /\ UNCHANGED <<mem, asked, spoilt>>
    BY <1>3 DEF WriteDataFails
  <2>2. BytesKept'
    BY <1>0, <1>3, <2>1, AcceptKept DEF WriteDataFails
  <2>3. todo'[t] = << >> /\ pc'[t] # "poll"
    BY <1>0, <2>1 DEF ReturnError, Goto
  <2> QED
    BY <2>2, <2>3, KnownEmpty
<1>4. CASE HeaderFails(t) \/ ReadDataFails(t) \/ (PollAgain(t) /\ ReturnError(t))
  <2>1. UNCHANGED <<mem, inflight, asked, spoilt>> /\ ReturnError(t)
    BY <1>4 DEF HeaderFails, ReadDataFails, PollAgain
  <2>2. todo'[t] = << >> /\ pc'[t] # "poll"
    BY <1>0, <2>1 DEF ReturnError, Goto
  <2> QED
    BY <1>0, <2>1, <2>2, BytesSame, KnownEmpty
<1>5. CASE NopTransfer(t) \/ PollReady(t)
  <2>1. /\ pc[t] \in AccessSteps /\ EndAccess(t)
        /\ pc[t] \in {"poll", "nop"}
        /\ UNCHANGED <<buf, mem, inflight, asked, spoilt>>
    BY <1>5 DEF NopTransfer, PollReady, AccessSteps, Steps
  <2>2. /\ todo[t] \in Seq(Accesses(Ops)) /\ todo[t] # << >>
        /\ todo'[t] = Tail(todo[t]) /\ pc'[t] # "poll"
    BY <2>1, EndedAccess
  <2>3. pc[t] = "poll" \/ todo[t][1].op # "read"
    <3>1. pc[t] \in StepsOf(todo[t][1].op) /\ Fits(todo[t][1], Addr)
      BY <2>1, AtAccess
    <3> QED
      BY <2>1, <3>1 DEF StepsOf, Fits
  <2>4. buf'[t] = buf[t]
    BY <2>1
  <2> QED
    BY <1>0, <2>1, <2>2, <2>3, <2>4, BytesSame, KnownTail
<1>6. CASE \/ WriteTrnsLen(t) \/ ReadHeader(t) \/ WriteHeader(t)
           \/ ReadConfig(t) \/ ReadConfigAgain(t) \/ WriteConfig(t)
           \/ PollAgain(t) /\ UNCHANGED <<pc, todo>>
  <2>1. /\ UNCHANGED <<todo, buf, mem, inflight, asked, spoilt>>
        /\ pc'[t] = "poll" => pc[t] = "poll"
    BY <1>0, <1>6
    DEF WriteTrnsLen, ReadHeader, WriteHeader, Header, ReadConfig, ReadConfigAgain,
        WriteConfig, InterruptReturns, PollAgain, Goto
  <2> QED
    BY <1>0, <2>1, BytesSame, KnownSame
<1> QED
  BY <1>1, <1>2, <1>3, <1>4, <1>5, <1>6 DEF Step, PollAgain

LEMMA NeighbourInvStep ==
  ASSUME Inv, PlanInv, DataInv, FrameIntact, NeighbourInv, [Next]_vars
  PROVE  NeighbourInv'
<1>0. BytesKept /\ \A u \in Thread : WordKnown(u)
  BY DEF NeighbourInv
<1>1. ASSUME NEW t \in Thread, CallAccess(t) \/ CallInterrupt(t) \/ Step(t),
             BytesKept', WordKnown(t)'
      PROVE  NeighbourInv'
  <2>1. \A u \in Thread \ {t} : WordKnown(u)'
    BY <1>0, <1>1, OthersKnown, KnownSame
  <2> QED
    BY <1>1, <2>1 DEF NeighbourInv
<1>2. ASSUME UNCHANGED <<pc, todo, buf, asked, spoilt>>, BytesKept' PROVE NeighbourInv'
  <2>1. \A u \in Thread : WordKnown(u)'
    BY <1>0, <1>2, KnownSame
  <2> QED
    BY <1>2, <2>1 DEF NeighbourInv
<1>3. ASSUME NEW t \in Thread, CallAccess(t) PROVE NeighbourInv'
  <2>1. UNCHANGED <<mem, inflight>> /\ asked \subseteq asked' /\ spoilt \subseteq spoilt'
    BY <1>3, OthersKnown DEF CallAccess
  <2> QED
    BY <1>0, <1>1, <1>3, <2>1, BytesSame, NeighbourCall
<1>4. ASSUME NEW t \in Thread, CallInterrupt(t) PROVE NeighbourInv'
  <2>1. /\ UNCHANGED <<todo, buf, mem, inflight, asked, spoilt>> /\ pc'[t] # "poll"
    BY <1>4 DEF CallInterrupt, Goto, Inv, ControlInv
  <2>2. WordKnown(t)' /\ BytesKept'
    BY <1>0, <2>1, BytesSame, KnownSame
  <2> QED
    BY <1>1, <1>4, <2>2
<1>5. ASSUME NEW t \in Thread, Step(t) PROVE NeighbourInv'
  BY <1>1, <1>5, NeighbourTransfer
<1>6. CASE SlaveStores
  <2>1. UNCHANGED <<pc, todo, buf, asked, spoilt>>
    BY <1>6 DEF SlaveStores
  <2> QED
    BY <1>0, <1>2, <1>6, <2>1, StoreKept
<1>7. CASE SlaveReady \/ SlaveServes \/ UNCHANGED vars
  <2>1. UNCHANGED <<pc, todo, buf, mem, inflight, asked, spoilt>>
    BY <1>7 DEF SlaveReady, SlaveServes, vars
  <2> QED
    BY <1>0, <1>2, <2>1, BytesSame
<1> QED
  BY <1>3, <1>4, <1>5, <1>6, <1>7 DEF Next

\* Any number of callers with whole words, or one with byte ranges of every
\* address and length: whichever transfers fail, whatever the slave has still to
\* store, every byte is the original one of its address or one a call wrote for
\* that address, except in words read with the length of another access.
THEOREM NeighboursKeptHolds == ASSUME Quiet PROVE Spec => []NeighboursKept
<1>1. Inv => FrameIntact
  BY DEF Inv
<1>2. Inv /\ PlanInv /\ DataInv /\ NeighbourInv /\ [Next]_vars => NeighbourInv'
  BY <1>1, NeighbourInvStep
<1>3. NeighbourInv /\ DataInv => NeighboursKept
  BY DEF NeighbourInv, BytesKept, Kept, NeighboursKept, DataInv
<1> QED
  BY InvInit, InvStep, PlanInvInit, PlanInvStep, DataInvInit, DataInvStep,
     NeighbourInvInit, <1>2, <1>3, PTL DEF Spec

-----------------------------------------------------------------------------
(* Writes that returned 0 are in slave memory.                             *)

\* The words that calls of t may write.
Own(t) ==
  UNION {RangeWords(job.addr, job.len) : job \in {j \in Jobs[t] : j.kind = "write"}}

\* No two threads write to the same word.
WritersApart == \A t, u \in Thread : t # u => Own(t) \cap Own(u) = {}

\* With memory m and the received words q: the byte at a is v and stays so.
Unchanging(q, a, v) == \A i \in DOMAIN q : a \in DOMAIN q[i] => q[i][a] = v
Landed(m, q, a, v) == m[a] = v /\ Unchanging(q, a, v)

\* It is or will be, once the slave has stored what it received.
Settles(m, q, a, v) ==
  \/ Landed(m, q, a, v)
  \/ \E i \in DOMAIN q :
       /\ a \in DOMAIN q[i] /\ q[i][a] = v
       /\ \A j \in DOMAIN q : j > i => a \notin DOMAIN q[j]

\* The words that the buffer of t can complete without undoing what it reported.
TrueWords(t) ==
  {a \in Int : \A b \in 0 .. 3 : a + b \in DOMAIN written[t] => buf[t][b] = written[t][a + b]}

\* What t has reported done has landed, what it waits for settles, and what it is
\* still to write is not among what it has reported.
StoredOf(t) ==
  /\ DOMAIN written[t] \subseteq Own(t)
  /\ \A i \in DOMAIN todo[t] :
       todo[t][i].op = "write" =>
         /\ WordBytes(todo[t][i]) \subseteq Own(t)
         /\ AskedBytes(todo[t][i]) \cap DOMAIN written[t] = {}
  /\ \A a \in DOMAIN written[t] : Landed(mem, inflight, a, written[t][a])
  /\ pc[t] = "poll" /\ todo[t][1].op = "write" =>
       \A a \in AskedBytes(todo[t][1]) : Settles(mem, inflight, a, Value(t, a))
  /\ Recalled(todo[t], pc[t] = "poll", TrueWords(t))

StoredInv == (~ busy => inflight = << >>) /\ \A t \in Thread : StoredOf(t)

LEMMA StoredInvInit == Init => StoredInv
<1> SUFFICES ASSUME Init PROVE StoredInv
  OBVIOUS
<1>1. /\ inflight = << >> /\ pc = [t \in Thread |-> "idle"]
      /\ todo = [t \in Thread |-> << >>] /\ written = [t \in Thread |-> << >>]
      /\ DOMAIN << >> = {}
  BY DEF Init
<1>2. \A t \in Thread : StoredOf(t)
  BY <1>1 DEF StoredOf, Recalled
<1> QED
  BY <1>1, <1>2 DEF StoredInv

LEMMA OwnInMemory == ASSUME NEW t \in Thread PROVE Own(t) \subseteq Addr
  BY MemoryAssumption DEF Own, RangeWords

\* Bytes of memory under the steps that move bytes.
LEMMA AppendElsewhere ==
  ASSUME inflight \in Seq(ByteMaps), NEW w \in ByteMaps, NEW a, NEW v,
         inflight' = Append(inflight, w), UNCHANGED mem, a \notin DOMAIN w
  PROVE  /\ Landed(mem, inflight, a, v) => Landed(mem', inflight', a, v)
         /\ Settles(mem, inflight, a, v) => Settles(mem', inflight', a, v)
<1>1. /\ DOMAIN inflight = 1 .. Len(inflight) /\ Len(inflight) \in Nat
      /\ DOMAIN inflight' = 1 .. Len(inflight) + 1
      /\ \A i \in DOMAIN inflight : inflight'[i] = inflight[i]
      /\ inflight'[Len(inflight) + 1] = w
  OBVIOUS
<1>2. ASSUME Landed(mem, inflight, a, v) PROVE Landed(mem', inflight', a, v)
  <2>1. \A i \in DOMAIN inflight' : a \in DOMAIN inflight'[i] => inflight'[i][a] = v
    BY <1>1, <1>2 DEF Landed, Unchanging
  <2> QED
    BY <1>2, <2>1 DEF Landed, Unchanging
<1>3. ASSUME NEW i \in DOMAIN inflight, a \in DOMAIN inflight[i], inflight[i][a] = v,
             \A j \in DOMAIN inflight : j > i => a \notin DOMAIN inflight[j]
      PROVE  Settles(mem', inflight', a, v)
  <2>1. i \in DOMAIN inflight' /\ a \in DOMAIN inflight'[i] /\ inflight'[i][a] = v
    BY <1>1, <1>3
  <2>2. \A j \in DOMAIN inflight' : j > i => a \notin DOMAIN inflight'[j]
    BY <1>1, <1>3
  <2> QED
    BY <2>1, <2>2 DEF Settles
<1> QED
  BY <1>2, <1>3 DEF Settles

\* A word that has the byte as it is changes nothing.
LEMMA AppendSame ==
  ASSUME inflight \in Seq(ByteMaps), NEW w \in ByteMaps, NEW a \in DOMAIN w,
         inflight' = Append(inflight, w), UNCHANGED mem, Landed(mem, inflight, a, w[a])
  PROVE  Landed(mem', inflight', a, w[a])
<1>1. /\ DOMAIN inflight = 1 .. Len(inflight) /\ Len(inflight) \in Nat
      /\ DOMAIN inflight' = 1 .. Len(inflight) + 1
      /\ \A i \in DOMAIN inflight : inflight'[i] = inflight[i]
      /\ inflight'[Len(inflight) + 1] = w
  OBVIOUS
<1>2. \A i \in DOMAIN inflight' : a \in DOMAIN inflight'[i] => inflight'[i][a] = w[a]
  BY <1>1 DEF Landed, Unchanging
<1> QED
  BY <1>2 DEF Landed, Unchanging

LEMMA AppendHere ==
  ASSUME inflight \in Seq(ByteMaps), NEW w \in ByteMaps, NEW a \in DOMAIN w,
         inflight' = Append(inflight, w)
  PROVE  Settles(mem', inflight', a, w[a])
<1>1. /\ DOMAIN inflight' = 1 .. Len(inflight) + 1 /\ Len(inflight) \in Nat
      /\ inflight'[Len(inflight) + 1] = w
  OBVIOUS
<1>2. \A j \in DOMAIN inflight' : ~ (j > Len(inflight) + 1)
  BY <1>1
<1> QED
  BY <1>1, <1>2 DEF Settles

LEMMA StoreSettles ==
  ASSUME DataInv, SlaveStores, NEW a \in Addr, NEW v
  PROVE  /\ Landed(mem, inflight, a, v) => Landed(mem', inflight', a, v)
         /\ Settles(mem, inflight, a, v) => Settles(mem', inflight', a, v)
<1>1. /\ inflight # << >> /\ inflight' = Tail(inflight) /\ inflight \in Seq(ByteMaps)
      /\ mem' = Override(mem, Head(inflight)) /\ DOMAIN mem = Addr
  BY DEF SlaveStores, DataInv
<1>2. /\ DOMAIN inflight' = 1 .. Len(inflight) - 1 /\ Len(inflight) \in Nat
      /\ DOMAIN inflight = 1 .. Len(inflight) /\ Len(inflight) > 0
      /\ \A i \in DOMAIN inflight' : i + 1 \in DOMAIN inflight /\ inflight'[i] = inflight[i + 1]
  BY <1>1, TailOfPlan
<1>3. mem'[a] = IF a \in DOMAIN inflight[1] THEN inflight[1][a] ELSE mem[a]
  BY <1>1 DEF Override
<1>4. ASSUME Landed(mem, inflight, a, v) PROVE Landed(mem', inflight', a, v)
  <2>1. mem'[a] = v
    BY <1>2, <1>3, <1>4 DEF Landed, Unchanging
  <2>2. \A i \in DOMAIN inflight' : a \in DOMAIN inflight'[i] => inflight'[i][a] = v
    BY <1>2, <1>4 DEF Landed, Unchanging
  <2> QED
    BY <2>1, <2>2 DEF Landed, Unchanging
<1>5. ASSUME NEW i \in DOMAIN inflight, a \in DOMAIN inflight[i], inflight[i][a] = v,
             \A j \in DOMAIN inflight : j > i => a \notin DOMAIN inflight[j]
      PROVE  Settles(mem', inflight', a, v)
  <2>1. CASE i = 1
    <3>1. mem'[a] = v
      BY <1>3, <1>5, <2>1
    <3>2. \A j \in DOMAIN inflight' : a \notin DOMAIN inflight'[j]
      BY <1>2, <1>5, <2>1
    <3> QED
      BY <3>1, <3>2 DEF Settles, Landed, Unchanging
  <2>2. CASE i # 1
    <3>1. i - 1 \in DOMAIN inflight' /\ inflight'[i - 1] = inflight[i]
      BY <1>2, <2>2
    <3>2. \A j \in DOMAIN inflight' : j > i - 1 => a \notin DOMAIN inflight'[j]
      BY <1>2, <1>5, <2>2
    <3> QED
      BY <1>5, <3>1, <3>2 DEF Settles
  <2> QED
    BY <2>1, <2>2
<1> QED
  BY <1>4, <1>5 DEF Settles

\* The slave is not busy: everything has been stored.
LEMMA SettledIsLanded ==
  ASSUME inflight = << >>, NEW a, NEW v, Settles(mem, inflight, a, v)
  PROVE  Landed(mem, inflight, a, v)
<1>1. DOMAIN inflight = {}
  OBVIOUS
<1> QED
  BY <1>1 DEF Settles

\* t keeps its plan and its buffer, and its bytes keep their values.
LEMMA StoredSame ==
  ASSUME PlanInv, NEW t \in Thread, StoredOf(t),
         todo'[t] = todo[t], written'[t] = written[t], calls'[t] = calls[t], buf'[t] = buf[t],
         pc'[t] = "poll" =>
           pc[t] = "poll" \/ (todo[t][1].op # "write" /\ todo[t][1].op # "read"),
         todo[t] # << >> => 1 \in DOMAIN todo[t],
         pc'[t] = "poll" => todo[t] # << >>,
         \A a \in Own(t) : \A v : /\ Landed(mem, inflight, a, v) => Landed(mem', inflight', a, v)
                                  /\ Settles(mem, inflight, a, v) => Settles(mem', inflight', a, v)
  PROVE  StoredOf(t)'
<1>1. \A a \in DOMAIN written'[t] : Landed(mem', inflight', a, written'[t][a])
  BY DEF StoredOf
<1>2. ASSUME pc'[t] = "poll", todo'[t][1].op = "write", NEW a \in AskedBytes(todo'[t][1])
      PROVE  Settles(mem', inflight', a, Value(t, a)')
  <2> DEFINE x == todo[t][1]
  <2>1. 1 \in DOMAIN todo[t] /\ pc[t] = "poll" /\ x.op = "write" /\ a \in AskedBytes(x)
    BY <1>2
  <2>2. a \in Own(t)
    BY <2>1 DEF StoredOf, PlanInv, PlanOf, Fits
  <2>3. Settles(mem, inflight, a, Value(t, a))
    BY <2>1 DEF StoredOf
  <2>4. Value(t, a)' = Value(t, a)
    BY DEF Value
  <2> QED
    BY <2>2, <2>3, <2>4
<1>3. Recalled(todo[t], pc[t] = "poll", TrueWords(t))'
  <2>1. Recalled(todo[t], pc'[t] = "poll", TrueWords(t))
    BY RecalledOn DEF StoredOf
  <2>2. TrueWords(t)' = TrueWords(t)
    BY DEF TrueWords
  <2> QED
    BY <2>1, <2>2
<1> QED
  BY <1>1, <1>2, <1>3 DEF StoredOf

\* t has nothing left to do.
LEMMA StoredEmpty ==
  ASSUME NEW t \in Thread, StoredOf(t), todo'[t] = << >>, written'[t] = written[t],
         pc'[t] # "poll",
         \A a \in DOMAIN written[t] : Landed(mem', inflight', a, written[t][a])
  PROVE  StoredOf(t)'
<1>1. \A a \in DOMAIN written'[t] : Landed(mem', inflight', a, written'[t][a])
  BY DEF StoredOf
<1>2. DOMAIN todo'[t] = {}
  OBVIOUS
<1>3. Recalled(todo[t], pc[t] = "poll", TrueWords(t))'
  BY <1>2 DEF Recalled
<1> QED
  BY <1>1, <1>2, <1>3 DEF StoredOf

\* The value of every byte in the set is kept, landed or not.
BytesStay(S) ==
  \A a \in S : \A v :
    /\ Landed(mem, inflight, a, v) => Landed(mem', inflight', a, v)
    /\ Settles(mem, inflight, a, v) => Settles(mem', inflight', a, v)

LEMMA NoBytesMove == ASSUME UNCHANGED <<mem, inflight>>, NEW S PROVE BytesStay(S)
  BY DEF BytesStay

\* A thread's write goes to its own words.
LEMMA AcceptedWords ==
  ASSUME Inv, PlanInv, DataInv, FrameIntact, StoredInv, NEW t \in Thread,
         pc[t] = "write_data"
  PROVE  LET x == todo[t][1]
             w == WordsToWrite(t, x)
         IN  /\ Head(todo[t]) = x /\ 1 \in DOMAIN todo[t] /\ todo[t] # << >>
             /\ x.op = "write" /\ Fits(x, Addr) /\ cs = t
             /\ w \in ByteMaps /\ DOMAIN w = WordBytes(x)
             /\ WordBytes(x) \subseteq Own(t)
             /\ \A a \in AskedBytes(x) : w[a] = Value(t, a)
             /\ \A a \in DOMAIN w \cap DOMAIN written[t] : w[a] = written[t][a]
<1> DEFINE x == todo[t][1]
           w == WordsToWrite(t, x)
<1>1. pc[t] \in AccessSteps /\ cs = t
  BY DEF AccessSteps, Steps, FrameIntact, HasFrame
<1>2. /\ Head(todo[t]) = x /\ 1 \in DOMAIN todo[t] /\ todo[t] # << >> /\ Fits(x, Addr)
      /\ pc[t] \in StepsOf(x.op)
  BY <1>1, AtAccess
<1>3. x.op = "write"
  BY <1>2, OpSteps DEF Fits
<1>4. w \in ByteMaps
  BY <1>2, WordsTyped
<1>5. DOMAIN w = WordBytes(x) /\ \A a \in AskedBytes(x) : a \in WordBytes(x) => w[a] = Value(t, a)
  BY DEF WordsToWrite, WordBytes, AskedBytes
<1>6. \A a \in AskedBytes(x) : w[a] = Value(t, a)
  BY <1>2, <1>5 DEF Fits
<1>7. WordBytes(x) \subseteq Own(t) /\ AskedBytes(x) \cap DOMAIN written[t] = {}
  BY <1>2, <1>3 DEF StoredInv, StoredOf
<1>8. Partial(x) => x.addr \in TrueWords(t)
  BY <1>2, RecalledFirst DEF StoredInv, StoredOf
<1>9. ASSUME NEW a \in WordBytes(x), a \in DOMAIN written[t]
      PROVE  w[a] = written[t][a]
  <2> HIDE DEF x
  <2>1. a \notin AskedBytes(x)
    BY <1>7, <1>9
  <2>2. Partial(x) /\ x.size = 4 /\ x.addr \in Int
    BY <1>2, <1>3, <1>9, <2>1 DEF Partial, Fits
  <2>3. a - x.addr \in 0 .. 3 /\ x.addr + (a - x.addr) = a
    BY <1>9, <2>2 DEF WordBytes
  <2>4. buf[t][a - x.addr] = written[t][a]
    BY <1>8, <1>9, <2>2, <2>3 DEF TrueWords
  <2> QED
    BY <1>9, <2>1, <2>4 DEF WordsToWrite, AskedBytes, WordBytes
<1>10. /\ Head(todo[t]) = x /\ 1 \in DOMAIN todo[t] /\ todo[t] # << >>
       /\ x.op = "write" /\ Fits(x, Addr) /\ cs = t
       /\ WordBytes(x) \subseteq Own(t)
  BY <1>1, <1>2, <1>3, <1>7
<1> HIDE DEF w, x
<1>11. \A a \in DOMAIN w \cap DOMAIN written[t] : w[a] = written[t][a]
  BY <1>5, <1>9
<1> QED
  BY <1>4, <1>5, <1>6, <1>10, <1>11 DEF w, x

\* Accepted or not, it leaves the words of the others and what t reported alone.
LEMMA AcceptStays ==
  ASSUME WritersApart, Inv, PlanInv, DataInv, FrameIntact, StoredInv, NEW t \in Thread,
         pc[t] = "write_data",
         SlaveAccepts(t) \/ UNCHANGED <<inflight, busy>>, UNCHANGED mem
  PROVE  /\ \A u \in Thread \ {t} : BytesStay(Own(u))
         /\ \A a \in DOMAIN written[t] : Landed(mem', inflight', a, written[t][a])
<1> DEFINE x == todo[t][1]
           w == WordsToWrite(t, x)
<1>1. /\ Head(todo[t]) = x /\ cs = t /\ w \in ByteMaps /\ DOMAIN w = WordBytes(x)
      /\ WordBytes(x) \subseteq Own(t)
      /\ \A a \in DOMAIN w \cap DOMAIN written[t] : w[a] = written[t][a]
  BY AcceptedWords
<1>2. inflight' = Append(inflight, w) \/ UNCHANGED inflight
  BY <1>1 DEF SlaveAccepts
<1> HIDE DEF x, w
<1>3. ASSUME NEW S, S \cap DOMAIN w = {} PROVE BytesStay(S)
  <2>1. CASE UNCHANGED inflight
    BY <2>1, NoBytesMove
  <2>2. CASE inflight' = Append(inflight, w)
    <3>1. inflight \in Seq(ByteMaps)
      BY DEF DataInv
    <3>2. ASSUME NEW a \in S, NEW v
          PROVE  /\ Landed(mem, inflight, a, v) => Landed(mem', inflight', a, v)
                 /\ Settles(mem, inflight, a, v) => Settles(mem', inflight', a, v)
      <4>1. a \notin DOMAIN w
        BY <1>3
      <4> QED
        BY <1>1, <2>2, <3>1, <4>1, AppendElsewhere
    <3> QED
      BY <3>2 DEF BytesStay
  <2> QED
    BY <1>2, <2>1, <2>2
<1>4. \A u \in Thread \ {t} : Own(u) \cap DOMAIN w = {}
  BY <1>1 DEF WritersApart
<1>5. ASSUME NEW a \in DOMAIN written[t] PROVE Landed(mem', inflight', a, written[t][a])
  <2>1. Landed(mem, inflight, a, written[t][a]) /\ inflight \in Seq(ByteMaps)
    BY DEF StoredInv, StoredOf, DataInv
  <2>2. CASE UNCHANGED inflight
    BY <2>1, <2>2
  <2>3. CASE inflight' = Append(inflight, w) /\ a \in DOMAIN w
    <3>1. w[a] = written[t][a]
      BY <1>1, <2>3
    <3> QED
      BY <1>1, <2>1, <2>3, <3>1, AppendSame
  <2>4. CASE inflight' = Append(inflight, w) /\ a \notin DOMAIN w
    BY <1>1, <2>1, <2>4, AppendElsewhere
  <2> QED
    BY <1>2, <2>2, <2>3, <2>4
<1> QED
  BY <1>3, <1>4, <1>5

LEMMA StoredCall ==
  ASSUME Inv, PlanInv, DataInv, StoredInv, NEW t \in Thread, CallAccess(t)
  PROVE  StoredOf(t)'
<1>1. PICK job \in Jobs[t] : CallOf(t, job) /\ PlanGood(job, PlanFor(job))
  BY CallPlan
<1> DEFINE plan == PlanFor(job)
<1>2. /\ todo' = [todo EXCEPT ![t] = plan] /\ pc' = [pc EXCEPT ![t] = Entry(plan[1].op)]
      /\ job.kind \in {"read", "write"}
      /\ written' = [written EXCEPT ![t] = Without(written[t], RangeOf(job))]
  BY <1>1 DEF CallOf
<1>3. /\ plan \in Seq(Accesses({"read", "write", "nop"})) /\ Len(plan) > 0
      /\ \A i \in DOMAIN plan : Fits(plan[i], RangeWords(job.addr, job.len))
      /\ job.kind = "read" => \A i \in DOMAIN plan : plan[i].op = "read"
      /\ job.kind = "write" =>
           \A i \in DOMAIN plan : plan[i].op = "write" =>
             AskedBytes(plan[i]) \subseteq job.addr .. job.addr + job.len - 1
      /\ PartialsReread(plan)
  BY <1>1 DEF PlanGood
<1>4. UNCHANGED <<mem, inflight>>
  BY DEF CallAccess
<1> HIDE DEF plan
<1>5. /\ todo'[t] = plan
      /\ written'[t] = Without(written[t], RangeOf(job))
      /\ pc'[t] = Entry(plan[1].op)
  BY <1>2 DEF Inv, ControlInv, DataInv
<1>6. pc'[t] # "poll"
  <2>1. plan[1].op \in {"read", "write", "nop"}
    BY <1>3 DEF Fits
  <2> QED
    BY <1>5, <2>1 DEF Entry
<1>7. /\ DOMAIN written'[t] = DOMAIN written[t] \ RangeOf(job)
      /\ \A a \in DOMAIN written'[t] : written'[t][a] = written[t][a]
  BY <1>5 DEF Without
<1>8. /\ DOMAIN written'[t] \subseteq Own(t)
      /\ \A a \in DOMAIN written'[t] : Landed(mem', inflight', a, written'[t][a])
  BY <1>4, <1>7 DEF StoredInv, StoredOf
<1>9. ASSUME NEW i \in DOMAIN plan, plan[i].op = "write"
      PROVE  /\ WordBytes(plan[i]) \subseteq Own(t)
             /\ AskedBytes(plan[i]) \cap DOMAIN written'[t] = {}
  <2>1. job.kind = "write"
    BY <1>2, <1>3, <1>9
  <2>2. RangeWords(job.addr, job.len) \subseteq Own(t)
    BY <2>1 DEF Own
  <2>3. AskedBytes(plan[i]) \subseteq RangeOf(job)
    BY <1>3, <1>9, <2>1 DEF RangeOf
  <2> QED
    BY <1>3, <1>7, <2>2, <2>3 DEF Fits
<1>10. Recalled(todo[t], pc[t] = "poll", TrueWords(t))'
  <2>1. Recalled(plan, FALSE, TrueWords(t)')
    BY <1>3, RecalledNew
  <2> QED
    BY <1>5, <1>6, <2>1
<1> QED
  BY <1>5, <1>6, <1>8, <1>9, <1>10 DEF StoredOf

\* A poll that finds the slave ready: the access has landed.
LEMMA StoredEnd ==
  ASSUME Inv, PlanInv, DataInv, StoredInv, NEW t \in Thread,
         pc[t] \in AccessSteps, EndAccess(t), UNCHANGED <<mem, inflight, buf>>,
         todo[t][1].op = "write" => pc[t] = "poll" /\ inflight = << >>,
         pc[t] = "poll" \/ todo[t][1].op # "read"
  PROVE  StoredOf(t)'
<1> DEFINE p == todo[t]
           x == todo[t][1]
           q == Tail(todo[t])
<1>1. p \in Seq(Accesses(Ops)) /\ p # << >> /\ todo'[t] = q /\ pc'[t] # "poll"
  BY EndedAccess
<1>2. Head(p) = x /\ 1 \in DOMAIN p /\ Fits(x, Addr)
  BY AtAccess
<1>3. StoredOf(t) /\ WritesApart(p)
  BY DEF StoredInv, PlanInv, PlanOf
<1>4. written' = IF x.op = "write"
                   THEN [written EXCEPT ![t] = WithAccess(written[t], t, x)] ELSE written
  BY <1>2 DEF EndAccess
<1>5. /\ \A i \in DOMAIN q : i + 1 \in DOMAIN p /\ i + 1 > 1 /\ q[i] = p[i + 1]
      /\ DOMAIN p = 1 .. Len(p) /\ Len(p) \in Nat
  <2>1. /\ DOMAIN q = 1 .. Len(p) - 1 /\ Len(p) \in Nat /\ DOMAIN p = 1 .. Len(p)
        /\ \A i \in DOMAIN q : i + 1 \in DOMAIN p /\ q[i] = p[i + 1]
    BY <1>1, TailOfPlan
  <2> HIDE DEF p, q
  <2> QED
    BY <2>1
<1>8. Recalled(q, FALSE, TrueWords(t))
  BY <1>1, <1>3, RecalledTail DEF StoredOf
<1>6. CASE x.op # "write"
  <2>1. written'[t] = written[t]
    BY <1>4, <1>6
  <2>2. \A i \in DOMAIN q : q[i].op = "write" =>
          WordBytes(q[i]) \subseteq Own(t) /\ AskedBytes(q[i]) \cap DOMAIN written[t] = {}
    BY <1>3, <1>5 DEF StoredOf
  <2>4. Recalled(todo[t], pc[t] = "poll", TrueWords(t))'
    <3>1. TrueWords(t)' = TrueWords(t)
      BY <2>1 DEF TrueWords
    <3> HIDE DEF q
    <3> QED
      BY <1>1, <1>8, <3>1
  <2>3. \A a \in DOMAIN written'[t] : Landed(mem', inflight', a, written'[t][a])
    BY <1>3, <2>1 DEF StoredOf
  <2> HIDE DEF p, q
  <2> QED
    BY <1>1, <1>3, <2>1, <2>2, <2>3, <2>4 DEF StoredOf
<1>7. CASE x.op = "write"
  <2>1. written'[t] = WithAccess(written[t], t, x)
    BY <1>4, <1>7 DEF DataInv
  <2>2. /\ DOMAIN written'[t] = DOMAIN written[t] \cup AskedBytes(x)
        /\ \A a \in DOMAIN written[t] : written'[t][a] = written[t][a]
        /\ \A a \in AskedBytes(x) \ DOMAIN written[t] : written'[t][a] = Value(t, a)
    BY <2>1 DEF WithAccess, AskedBytes
  <2>3. AskedBytes(x) \subseteq WordBytes(x) /\ WordBytes(x) \subseteq Own(t)
    BY <1>2, <1>3, <1>7 DEF Fits, StoredOf
  <2>4. \A a \in AskedBytes(x) : Landed(mem, inflight, a, Value(t, a))
    BY <1>3, <1>7, SettledIsLanded DEF StoredOf
  <2>5. \A a \in DOMAIN written'[t] : Landed(mem', inflight', a, written'[t][a])
    BY <1>3, <2>2, <2>4 DEF StoredOf
  <2>6. DOMAIN written'[t] \subseteq Own(t)
    BY <1>3, <2>2, <2>3 DEF StoredOf
  <2>7. ASSUME NEW i \in DOMAIN q, q[i].op = "write"
        PROVE  /\ WordBytes(q[i]) \subseteq Own(t)
               /\ AskedBytes(q[i]) \cap DOMAIN written'[t] = {}
               /\ WordBytes(q[i]) \cap AskedBytes(x) = {}
    <3>1. i + 1 \in DOMAIN p /\ 1 < i + 1 /\ q[i] = p[i + 1]
      BY <1>5
    <3>2. WordBytes(x) \cap WordBytes(p[i + 1]) = {}
      BY <1>2, <1>3, <1>7, <2>7, <3>1 DEF WritesApart
    <3>3. /\ WordBytes(p[i + 1]) \subseteq Own(t)
          /\ AskedBytes(p[i + 1]) \cap DOMAIN written[t] = {}
      BY <1>3, <2>7, <3>1 DEF StoredOf
    <3>4. AskedBytes(p[i + 1]) \subseteq WordBytes(p[i + 1])
      BY <3>1 DEF PlanInv, PlanOf, Fits
    <3> QED
      BY <2>2, <2>3, <3>1, <3>2, <3>3, <3>4
  <2>8. ASSUME NEW i \in DOMAIN q, Partial(q[i]), q[i].addr \in TrueWords(t)
        PROVE  q[i].addr \in TrueWords(t)'
    <3>1. Fits(q[i], Addr) /\ q[i].op = "write"
      BY <1>5, <2>8 DEF PlanInv, PlanOf, Partial
    <3>2. q[i].size = 4 /\ q[i].addr \in Int
      BY <2>8, <3>1 DEF Fits
    <3> DEFINE a == q[i].addr
    <3>3. \A b \in 0 .. 3 : a + b \in DOMAIN written[t] => buf[t][b] = written[t][a + b]
      BY <2>8 DEF TrueWords
    <3>4. \A b \in 0 .. 3 : a + b \notin AskedBytes(x)
      <4>1. WordBytes(q[i]) \cap AskedBytes(x) = {}
        BY <2>7, <3>1
      <4> DEFINE y == q[i]
      <4> HIDE DEF x, y
      <4>2. \A b \in 0 .. 3 : a + b \in WordBytes(q[i])
        <5>1. y.size = 4 /\ y.addr \in Int
          BY <3>2 DEF y
        <5>2. \A b \in 0 .. 3 : y.addr + b \in WordBytes(y)
          BY <5>1 DEF WordBytes
        <5> QED
          BY <5>2 DEF y
      <4> QED
        BY <4>1, <4>2
    <3>5. \A b \in 0 .. 3 : a + b \in DOMAIN written'[t] => buf'[t][b] = written'[t][a + b]
      <4> HIDE DEF a, x
      <4> QED
        BY <2>2, <3>3, <3>4
    <3> QED
      BY <3>2, <3>5 DEF TrueWords
  <2>9. Recalled(todo[t], pc[t] = "poll", TrueWords(t))'
    <3> HIDE DEF q
    <3>1. Recalled(q, FALSE, TrueWords(t)')
      BY <1>8, <2>8, RecalledFor
    <3> QED
      BY <1>1, <3>1
  <2> HIDE DEF p, q
  <2> QED
    BY <1>1, <2>5, <2>6, <2>7, <2>9 DEF StoredOf
<1> QED
  BY <1>6, <1>7

\* The read of a word leaves it in the buffer as t has reported it.
LEMMA StoredRead ==
  ASSUME Inv, PlanInv, DataInv, FrameIntact, StoredInv, NEW t \in Thread, ReadData(t)
  PROVE  StoredOf(t)'
<1> DEFINE x == todo[t][1]
           merges == x.size = 4 /\ \E i \in DOMAIN todo[t] : todo[t][i].op = "write"
           length == trnsLen = x.size
<1>1. UNCHANGED <<todo, mem, inflight, calls>>
  BY DEF ReadData
<1>2. /\ todo[t] \in Seq(Accesses(Ops)) /\ todo[t] # << >> /\ x.op = "read"
      /\ pc[t] # "poll" /\ pc'[t] = "poll"
  BY ReadWord
<1>3. StoredOf(t)
  BY DEF StoredInv
<1>4. /\ DOMAIN written'[t] \subseteq DOMAIN written[t]
      /\ \A a \in DOMAIN written'[t] : written'[t][a] = written[t][a]
  <2>1. written'[t] = written[t] \/ written'[t] = Without(written[t], WordAt(x.addr))
    BY ReadWord
  <2> HIDE DEF x
  <2> QED
    BY <2>1 DEF Without
<1>5. ASSUME merges PROVE x.addr \in TrueWords(t)'
  <2>1. x.addr \in Int
    BY <1>5, ReadWord
  <2>2. CASE length
    <3>1. written'[t] = written[t] /\ \A b \in 0 .. 3 : buf'[t][b] = mem[x.addr + b]
      BY <1>5, <2>2, ReadWord
    <3>2. \A a \in DOMAIN written[t] : mem[a] = written[t][a]
      BY <1>3 DEF StoredOf, Landed
    <3> QED
      BY <2>1, <3>1, <3>2 DEF TrueWords
  <2>3. CASE ~ length
    <3>1. written'[t] = Without(written[t], WordAt(x.addr))
      BY <1>5, <2>3, ReadWord
    <3>2. \A b \in 0 .. 3 : x.addr + b \in WordAt(x.addr)
      BY <2>1 DEF WordAt
    <3>3. \A b \in 0 .. 3 : x.addr + b \notin DOMAIN written'[t]
      BY <3>1, <3>2 DEF Without
    <3> QED
      BY <2>1, <3>3 DEF TrueWords
  <2> QED
    BY <2>2, <2>3
<1>6. Recalled(todo[t], pc[t] = "poll", TrueWords(t))'
  <2>1. Recalled(todo[t], FALSE, TrueWords(t))
    BY <1>2, <1>3, RecalledOn DEF StoredOf
  <2>2. Recalled(todo[t], TRUE, TrueWords(t)')
    BY <1>2, <1>5, <2>1, RecalledRead
  <2> QED
    BY <1>1, <1>2, <2>2
<1>7. /\ DOMAIN written'[t] \subseteq Own(t)
      /\ \A a \in DOMAIN written'[t] : Landed(mem', inflight', a, written'[t][a])
  BY <1>1, <1>3, <1>4 DEF StoredOf
<1>8. \A i \in DOMAIN todo'[t] :
        todo'[t][i].op = "write" =>
          /\ WordBytes(todo'[t][i]) \subseteq Own(t)
          /\ AskedBytes(todo'[t][i]) \cap DOMAIN written'[t] = {}
  BY <1>1, <1>3, <1>4 DEF StoredOf
<1>9. todo'[t][1].op # "write"
  BY <1>1, <1>2
<1> QED
  BY <1>6, <1>7, <1>8, <1>9 DEF StoredOf

LEMMA StoredWrite ==
  ASSUME WritersApart, Inv, PlanInv, DataInv, FrameIntact, StoredInv,
         NEW t \in Thread, WriteData(t)
  PROVE  StoredOf(t)'
<1> DEFINE x == todo[t][1]
           w == WordsToWrite(t, x)
<1>1. /\ pc[t] = "write_data" /\ SlaveAccepts(t)
      /\ UNCHANGED <<todo, buf, mem, written, calls>>
  BY DEF WriteData
<1>2. /\ Head(todo[t]) = x /\ cs = t /\ w \in ByteMaps /\ DOMAIN w = WordBytes(x)
      /\ Fits(x, Addr) /\ x.op = "write" /\ \A a \in AskedBytes(x) : w[a] = Value(t, a)
  BY <1>1, AcceptedWords
<1>3. \A a \in DOMAIN written[t] : Landed(mem', inflight', a, written[t][a])
  BY <1>1, AcceptStays
<1>4. inflight' = Append(inflight, w) /\ inflight \in Seq(ByteMaps)
  BY <1>1, <1>2 DEF SlaveAccepts, DataInv
<1> HIDE DEF w
<1>5. ASSUME NEW a \in AskedBytes(x)
      PROVE  Settles(mem', inflight', a, Value(t, a))
  <2>1. a \in DOMAIN w /\ w[a] = Value(t, a)
    BY <1>2, <1>5 DEF Fits
  <2>2. Settles(mem', inflight', a, w[a])
    BY <1>2, <1>4, <2>1, AppendHere
  <2> QED
    BY <2>1, <2>2
<1>6. \A a \in DOMAIN written'[t] : Landed(mem', inflight', a, written'[t][a])
  BY <1>1, <1>3
<1>7. (\A a : Value(t, a)' = Value(t, a)) /\ StoredOf(t)
  BY <1>1 DEF Value, StoredInv
<1>8. Recalled(todo[t], pc[t] = "poll", TrueWords(t))'
  <2>1. Recalled(todo[t], pc'[t] = "poll", TrueWords(t))
    BY <1>2, <1>7, RecalledOn DEF StoredOf
  <2>2. TrueWords(t)' = TrueWords(t)
    BY <1>1 DEF TrueWords
  <2> QED
    BY <1>1, <2>1, <2>2
<1> QED
  BY <1>1, <1>5, <1>6, <1>7, <1>8 DEF StoredOf

\* What a step of t moves, and what it leaves to the others.
LEMMA StoredTransfer ==
  ASSUME WritersApart, Inv, PlanInv, DataInv, FrameIntact, StoredInv,
         NEW t \in Thread, Step(t)
  PROVE  /\ StoredOf(t)'
         /\ ~ busy' => inflight' = << >>
         /\ \A u \in Thread \ {t} : BytesStay(Own(u))
<1>0. /\ StoredOf(t)
      /\ ~ busy => inflight = << >>
      /\ pc \in [Thread -> Steps] /\ DOMAIN todo = Thread
  BY DEF StoredInv, Inv, ControlInv
<1>1. CASE WriteData(t)
  <2>1. /\ pc[t] = "write_data" /\ SlaveAccepts(t) /\ UNCHANGED mem
        /\ busy' = TRUE
    BY <1>1 DEF WriteData, SlaveAccepts
  <2> QED
    BY <1>1, <2>1, AcceptStays, StoredWrite
<1>2. CASE WriteDataFails(t)
  <2>1. /\ pc[t] = "write_data" /\ UNCHANGED mem
        /\ SlaveAccepts(t) \/ UNCHANGED <<inflight, busy>>
        /\ ReturnError(t)
    BY <1>2 DEF WriteDataFails
  <2>2. /\ \A u \in Thread \ {t} : BytesStay(Own(u))
        /\ \A a \in DOMAIN written[t] : Landed(mem', inflight', a, written[t][a])
    BY <2>1, AcceptStays
  <2>3. todo'[t] = << >> /\ pc'[t] # "poll" /\ UNCHANGED written
    BY <1>0, <2>1 DEF ReturnError, Goto
  <2>4. StoredOf(t)'
    BY <1>0, <2>2, <2>3, StoredEmpty
  <2>5. ~ busy' => inflight' = << >>
    BY <1>0, <2>1 DEF SlaveAccepts
  <2> QED
    BY <2>2, <2>4, <2>5
<1>3. ASSUME UNCHANGED <<mem, inflight>>
      PROVE  /\ \A u \in Thread \ {t} : BytesStay(Own(u))
             /\ BytesStay(Own(t)) /\ BytesStay(DOMAIN written[t])
  BY <1>3, NoBytesMove
<1>4. CASE HeaderFails(t) \/ ReadDataFails(t) \/ (PollAgain(t) /\ ReturnError(t))
  <2>1. UNCHANGED <<mem, inflight, busy>> /\ ReturnError(t)
    BY <1>4 DEF HeaderFails, ReadDataFails, PollAgain
  <2>2. todo'[t] = << >> /\ pc'[t] # "poll" /\ UNCHANGED written
    BY <1>0, <2>1 DEF ReturnError, Goto
  <2>3. StoredOf(t)'
    BY <1>0, <1>3, <2>1, <2>2, StoredEmpty DEF BytesStay, StoredOf
  <2> QED
    BY <1>0, <1>3, <2>1, <2>3
<1>5. CASE NopTransfer(t) \/ PollReady(t)
  <2>1. /\ pc[t] \in AccessSteps /\ EndAccess(t)
        /\ pc[t] = "nop" \/ (pc[t] = "poll" /\ ~ busy)
        /\ UNCHANGED <<mem, inflight, busy, buf>>
    BY <1>5 DEF NopTransfer, PollReady, AccessSteps, Steps
  <2>2. pc[t] \in StepsOf(todo[t][1].op) /\ Fits(todo[t][1], Addr)
    BY <2>1, AtAccess
  <2>3. todo[t][1].op = "write" => pc[t] = "poll" /\ inflight = << >>
    BY <1>0, <2>1, <2>2 DEF StepsOf
  <2>5. pc[t] = "poll" \/ todo[t][1].op # "read"
    BY <2>1, <2>2 DEF StepsOf, Fits
  <2>4. StoredOf(t)'
    BY <2>1, <2>3, <2>5, StoredEnd
  <2> QED
    BY <1>0, <1>3, <2>1, <2>4
<1>6. CASE ReadData(t)
  <2>1. UNCHANGED <<mem, inflight>> /\ busy' = TRUE
    BY <1>6 DEF ReadData
  <2> QED
    BY <1>3, <1>6, <2>1, StoredRead
<1>7. CASE \/ WriteTrnsLen(t) \/ ReadHeader(t) \/ WriteHeader(t)
           \/ ReadConfig(t) \/ ReadConfigAgain(t) \/ WriteConfig(t)
           \/ PollAgain(t) /\ UNCHANGED <<pc, todo, written>>
  <2>1. /\ UNCHANGED <<todo, buf, mem, inflight, busy, written, calls>>
        /\ pc'[t] = "poll" => pc[t] = "poll"
    BY <1>0, <1>7
    DEF WriteTrnsLen, ReadHeader, WriteHeader, Header, ReadConfig,
        ReadConfigAgain, WriteConfig, InterruptReturns, PollAgain, Goto
  <2>2. pc[t] = "poll" => todo[t] # << >>
    BY AtAccess DEF AccessSteps, Steps
  <2>3. todo[t] # << >> => 1 \in DOMAIN todo[t]
    BY DEF Inv, ControlInv
  <2>4. StoredOf(t)'
    BY <1>0, <1>3, <2>1, <2>2, <2>3, StoredSame DEF BytesStay
  <2> QED
    BY <1>0, <1>3, <2>1, <2>4
<1> QED
  BY <1>1, <1>2, <1>4, <1>5, <1>6, <1>7 DEF Step, PollAgain

\* A step of t leaves what the others report alone.
LEMMA OthersStored ==
  ASSUME Inv, DataInv, NEW t \in Thread,
         CallAccess(t) \/ CallInterrupt(t) \/ Step(t)
  PROVE  \A u \in Thread \ {t} : written'[u] = written[u] /\ calls'[u] = calls[u]
<1>1. UNCHANGED written \/ \E w : written' = [written EXCEPT ![t] = w]
  BY DEF CallAccess, CallInterrupt, Step, WriteTrnsLen, ReadHeader, WriteHeader, Header,
        HeaderFails, ReadData, ReadDataFails, WriteData, WriteDataFails, NopTransfer,
        PollReady, PollAgain, ReadConfig, ReadConfigAgain, WriteConfig,
        EndAccess, ReturnError
<1>2. UNCHANGED calls \/ \E n : calls' = [calls EXCEPT ![t] = n]
  BY DEF CallAccess, CallInterrupt, Step, WriteTrnsLen, ReadHeader, WriteHeader, Header,
        HeaderFails, ReadData, ReadDataFails, WriteData, WriteDataFails, NopTransfer,
        PollReady, PollAgain, ReadConfig, ReadConfigAgain, WriteConfig
<1>3. DOMAIN written = Thread /\ DOMAIN calls = Thread
  BY DEF DataInv
<1>4. \A u \in Thread \ {t} : written'[u] = written[u]
  BY <1>1, <1>3
<1>5. \A u \in Thread \ {t} : calls'[u] = calls[u]
  BY <1>2, <1>3
<1> QED
  BY <1>4, <1>5

\* A thread whose own state and words do not move.
LEMMA StoredStays ==
  ASSUME Inv, PlanInv, StoredInv, NEW u \in Thread,
         pc'[u] = pc[u], todo'[u] = todo[u], buf'[u] = buf[u],
         written'[u] = written[u], calls'[u] = calls[u],
         BytesStay(Own(u))
  PROVE  StoredOf(u)'
<1>1. StoredOf(u)
  BY DEF StoredInv
<1>2. todo[u] # << >> => 1 \in DOMAIN todo[u]
  BY DEF Inv, ControlInv
<1>3. pc[u] = "poll" => todo[u] # << >>
  BY AtAccess DEF AccessSteps, Steps
<1> QED
  BY <1>1, <1>2, <1>3, StoredSame DEF BytesStay

LEMMA StoredInvStep ==
  ASSUME WritersApart, Inv, PlanInv, DataInv, FrameIntact, StoredInv, [Next]_vars
  PROVE  StoredInv'
<1>0. ~ busy => inflight = << >>
  BY DEF StoredInv
<1>1. ASSUME NEW t \in Thread, CallAccess(t) \/ CallInterrupt(t) \/ Step(t),
             ~ busy' => inflight' = << >>, StoredOf(t)',
             \A u \in Thread \ {t} : BytesStay(Own(u))
      PROVE  StoredInv'
  <2>1. \A u \in Thread \ {t} : StoredOf(u)'
    BY <1>1, OthersKnown, OthersStored, StoredStays
  <2> QED
    BY <1>1, <2>1 DEF StoredInv
<1>2. ASSUME UNCHANGED <<pc, todo, buf, written, calls>>,
             ~ busy' => inflight' = << >>,
             \A u \in Thread : BytesStay(Own(u))
      PROVE  StoredInv'
  <2>1. \A u \in Thread : StoredOf(u)'
    BY <1>2, StoredStays
  <2> QED
    BY <1>2, <2>1 DEF StoredInv
<1>3. ASSUME NEW t \in Thread, CallAccess(t) PROVE StoredInv'
  <2>1. UNCHANGED <<mem, inflight, busy>>
    BY <1>3 DEF CallAccess
  <2> QED
    BY <1>0, <1>1, <1>3, <2>1, NoBytesMove, StoredCall
<1>4. ASSUME NEW t \in Thread, CallInterrupt(t) PROVE StoredInv'
  <2>1. /\ UNCHANGED <<todo, mem, inflight, busy, written>>
        /\ pc[t] = "idle" /\ pc'[t] # "poll"
    BY <1>4 DEF CallInterrupt, Goto, Inv, ControlInv
  <2>2. todo'[t] = << >>
    BY <2>1, IdleHasNoPlan DEF AccessSteps
  <2>3. StoredOf(t)'
    BY <2>1, <2>2, NoBytesMove, StoredEmpty DEF BytesStay, StoredInv, StoredOf
  <2> QED
    BY <1>0, <1>1, <1>4, <2>1, <2>3, NoBytesMove
<1>5. ASSUME NEW t \in Thread, Step(t) PROVE StoredInv'
  BY <1>1, <1>5, StoredTransfer
<1>6. CASE SlaveStores
  <2>1. /\ UNCHANGED <<pc, todo, buf, written, calls, busy>>
        /\ inflight # << >>
    BY <1>6 DEF SlaveStores
  <2>2. \A u \in Thread : BytesStay(Own(u))
    BY <1>6, OwnInMemory, StoreSettles DEF BytesStay
  <2> QED
    BY <1>0, <1>2, <2>1, <2>2
<1>7. CASE SlaveReady \/ SlaveServes \/ UNCHANGED vars
  <2>1. /\ UNCHANGED <<pc, todo, buf, written, calls, mem, inflight>>
        /\ ~ busy' => inflight = << >>
    BY <1>0, <1>7 DEF SlaveReady, SlaveServes, vars
  <2> QED
    BY <1>2, <2>1, NoBytesMove
<1> QED
  BY <1>3, <1>4, <1>5, <1>6, <1>7 DEF Next

\* Writers of different words, with whole words or alone: whichever transfers
\* fail, a byte of a write that returned 0, or of an access of it that the slave
\* was polled ready after, is in memory, and no word still to be stored hides it.
THEOREM OkIsWrittenHolds == ASSUME Quiet, WritersApart PROVE Spec => []OkIsWritten
<1>1. Inv => FrameIntact
  BY DEF Inv
<1>2. Inv /\ PlanInv /\ DataInv /\ StoredInv /\ [Next]_vars => StoredInv'
  BY <1>1, StoredInvStep
<1>3. StoredInv => OkIsWritten
  BY DEF StoredInv, StoredOf, Landed, OkIsWritten
<1> QED
  BY InvInit, InvStep, PlanInvInit, PlanInvStep, DataInvInit, DataInvStep,
     StoredInvInit, <1>2, <1>3, PTL DEF Spec

=============================================================================
