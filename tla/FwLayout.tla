------------------------------ MODULE FwLayout ------------------------------
(***************************************************************************)
(* Where fw_upgrade_select_trial_fwd puts the next image set, in blocks:   *)
(* mem is the size of the flash, first the block after the file systems,   *)
(* end0 the block after the image set of descriptor 0.                     *)
(***************************************************************************)
LOCAL INSTANCE Integers

CONSTANT SizeLimit  \* sizes are kept modulo this: 2^32 bytes

ASSUME SizeAssumption == SizeLimit \in Nat \ {0}

\* Two descriptors: half of what follows the file systems each.
Half(mem, first) == (mem - first) \div 2

LowerRegion(mem, first) == [start |-> first, size |-> Half(mem, first)]

\* The upper half shrinks if the set of descriptor 0 reaches into it.
UpperRegion(mem, first, end0) ==
    LET start == first + Half(mem, first)
    IN  IF start < end0
        THEN [start |-> end0,
              size |-> (Half(mem, first) - (end0 - start)) % SizeLimit]
        ELSE [start |-> start, size |-> Half(mem, first)]

\* Golden and two others: half of what follows the golden set each.
RegionBesideGolden(mem, end0, idx) ==
    LET size == (mem - end0) \div 2
    IN  [start |-> end0 + (idx - 1) * size, size |-> size]
=============================================================================
