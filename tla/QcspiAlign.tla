----------------------------- MODULE QcspiAlign -----------------------------
(***************************************************************************)
(* The QCSPI slave moves whole, aligned 4-byte words.  For a byte range of *)
(* any address and length, qcspi_read_addr_align and                       *)
(* qcspi_write_addr_align issue the sequence of word accesses below.       *)
(***************************************************************************)
EXTENDS Integers, Sequences

AlignDown(a) == a - (a % 4)

IsAligned(a, n) == a % 4 = 0 /\ n % 4 = 0

\* Mutant: the length is not compared with the first word.
FirstSizeFull(a, n) == 4 - (a % 4)

\* Bytes of the range in its first word.
FirstSize(a, n) == IF 4 - (a % 4) > n THEN n ELSE 4 - (a % 4)

\* Bytes in the whole words that follow.
MiddleSize(a, n) ==
  IF n >= FirstSize(a, n) + 4 THEN AlignDown(n - FirstSize(a, n)) ELSE 0

LastSize(a, n) == n - FirstSize(a, n) - MiddleSize(a, n)

MiddleAddr(a) == AlignDown(a) + 4
LastAddr(a, n) == MiddleAddr(a) + MiddleSize(a, n)

\* An access: the words [addr, addr + size), of which [from, upto) is asked
\* for; a write fills the rest from the word last read.
Access(op, addr, size, from, upto) ==
  [op |-> op, addr |-> addr, size |-> size, from |-> from, upto |-> upto]

First(op, a, n) == Access(op, AlignDown(a), 4, a, a + FirstSize(a, n))
Middle(op, a, n) ==
  Access(op, MiddleAddr(a), MiddleSize(a, n), MiddleAddr(a), LastAddr(a, n))
Last(op, a, n) == Access(op, LastAddr(a, n), 4, LastAddr(a, n), a + n)
Whole(op, a, n) == Access(op, a, n, a, a + n)
Nop(a) == Access("nop", a, 0, a, a)

ReadPlan(a, n) ==
  IF IsAligned(a, n)
    THEN <<Whole("read", a, n)>>
    ELSE <<First("read", a, n)>>
         \o (IF MiddleSize(a, n) > 0 THEN <<Middle("read", a, n)>> ELSE << >>)
         \o (IF LastSize(a, n) > 0 THEN <<Last("read", a, n)>> ELSE << >>)

\* Mutant: the last word is not read before it is completed and written.
WritePlanNoReread(a, n) ==
  IF IsAligned(a, n)
    THEN <<Whole("write", a, n)>>
    ELSE <<First("read", a, n), Nop(a), First("write", a, n)>>
         \o (IF MiddleSize(a, n) > 0 THEN <<Middle("write", a, n)>> ELSE << >>)
         \o (IF LastSize(a, n) > 0 THEN <<Last("write", a, n)>> ELSE << >>)

\* Partial words are read first; only the first write follows a NOP.
WritePlan(a, n) ==
  IF IsAligned(a, n)
    THEN <<Whole("write", a, n)>>
    ELSE <<First("read", a, n), Nop(a), First("write", a, n)>>
         \o (IF MiddleSize(a, n) > 0 THEN <<Middle("write", a, n)>> ELSE << >>)
         \o (IF LastSize(a, n) > 0
               THEN <<Last("read", a, n), Last("write", a, n)>> ELSE << >>)
=============================================================================
