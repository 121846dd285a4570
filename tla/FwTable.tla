------------------------------- MODULE FwTable -------------------------------
(***************************************************************************)
(* The firmware descriptors in flash (fw_upgrade_mem.c): which one is the  *)
(* current firmware and which the trial, where the next image set goes,    *)
(* accepting and rejecting a trial, erasing a slot.  A descriptor's fields *)
(* are written one by one, and the device may lose power between any two   *)
(* writes, so an operation of several writes has an outcome for each       *)
(* number of writes done.                                                  *)
(*                                                                         *)
(* Flash is counted in units; an erase takes a block of BlockUnits.  The   *)
(* descriptors occupy the first MaxFwd blocks and are kept in fwd.         *)
(***************************************************************************)
EXTENDS Integers, Sequences, FwLayout

CONSTANTS
    MemBlocks,      \* density_in_blocks of the flash
    BlockUnits,     \* units in a block
    MaxRank,        \* bound: no trial is accepted beyond this rank
    FactoryEntries  \* the factory's image entries, image id -> blocks

ASSUME FlashAssumption ==
    /\ MemBlocks \in Nat \ {0}
    /\ BlockUnits \in Nat \ {0}
    /\ MaxRank \in Nat \ {0}

VARIABLES
    fwd,        \* descriptor table, index -> descriptor
    flash,      \* unit address -> cell
    active,     \* boot record of the application: the descriptor booted
    boot_type   \* boot record: "golden", "current" or "trial"

tableVars == <<fwd, flash, active, boot_type>>

MaxFwd == 3
FwdIdx == 0 .. MaxFwd - 1
TRIAL == -1           \* FW_UPGRADE_FWD_RANK_TRIAL, the value of erased flash
GOLDEN == 0
FS1 == 5
FS2 == 128
NoPart == [start |-> 0, size |-> 0]

\* A cell of flash is erased, spoilt, or holds unit <<file, position>>.
ErasedCell == <<-1, 0>>
Spoilt == <<-2, 0>>

ErasedFwd == [magic |-> FALSE, total |-> FALSE, rank |-> TRIAL,
              status |-> "unused", entries |-> <<>>]

-----------------------------------------------------------------------------
(* Reading the table *)

\* The test of the boot loader and of every search for a firmware.
Valid(d) == d.magic /\ d.total /\ d.status = "valid"

\* Three descriptors if the first is golden, two otherwise.
FwdNum == IF fwd[0].magic /\ fwd[0].rank = GOLDEN THEN 3 ELSE 2

Searched == IF FwdNum = 2 THEN {0, 1} ELSE {1, 2}
TrialFwds == {i \in Searched : Valid(fwd[i]) /\ fwd[i].rank = TRIAL}
RankedFwds == {i \in Searched : Valid(fwd[i]) /\ fwd[i].rank > 0}

HasTrial == TrialFwds # {}
TrialFwd == CHOOSE i \in TrialFwds : \A j \in TrialFwds : j <= i
CurrentFwd ==
    IF RankedFwds = {} THEN 0
    ELSE CHOOSE i \in RankedFwds : \A j \in RankedFwds :
            fwd[j].rank < fwd[i].rank \/ (fwd[j].rank = fwd[i].rank /\ i <= j)
BiggestRank == IF RankedFwds = {} THEN 0 ELSE fwd[CurrentFwd].rank

\* An image's entry, the first with its id as fw_upgrade_find_partition takes.
Found(d, id) == id \in DOMAIN d.entries
Find(d, id) == d.entries[id]

PartEnd(p) == p.start + p.size
Largest(S) == CHOOSE x \in S : \A y \in S : y <= x

\* Every image of a set: the first and the next until none is left.
Partitions(d) == DOMAIN d.entries

SetEnd(d) == Largest({PartEnd(Find(d, id)) : id \in Partitions(d)})

\* The first block after the file systems of the running firmware.
FirstImageBlock ==
    Largest({MaxFwd} \cup
            {PartEnd(Find(fwd[active], id)) :
                id \in {i \in {FS1, FS2} : Found(fwd[active], i)}})

-----------------------------------------------------------------------------
(* Selecting the trial descriptor and its region *)

TrialIdx ==
    IF FwdNum = 2 THEN (IF CurrentFwd = 0 THEN 1 ELSE 0)
    ELSE (IF CurrentFwd = 1 THEN 2 ELSE 1)

\* Every choice but the first of two depends on where set 0 ends.
CanSelect ==
    \/ FwdNum = 2 /\ TrialIdx = 0
    \/ fwd[0].magic /\ Partitions(fwd[0]) # {}

TrialRegion ==
    IF FwdNum = 3 THEN RegionBesideGolden(MemBlocks, SetEnd(fwd[0]), TrialIdx)
    ELSE IF TrialIdx = 0 THEN LowerRegion(MemBlocks, FirstImageBlock)
    ELSE UpperRegion(MemBlocks, FirstImageBlock, SetEnd(fwd[0]))

-----------------------------------------------------------------------------
(* Flash *)

Cells(block, n) == block * BlockUnits .. (block + n) * BlockUnits - 1

Erased(f, block, n) ==
    [a \in DOMAIN f |-> IF a \in Cells(block, n) THEN ErasedCell ELSE f[a]]

-----------------------------------------------------------------------------
(* Operations *)

\* The factory programs one descriptor, golden or of rank 1.
TableInit ==
    /\ \E r \in {GOLDEN, 1} :
        /\ fwd = [i \in FwdIdx |->
                    IF i = 0
                    THEN [magic |-> TRUE, total |-> TRUE, rank |-> r,
                          status |-> "valid", entries |-> FactoryEntries]
                    ELSE ErasedFwd]
        /\ boot_type = IF r = GOLDEN THEN "golden" ELSE "current"
    /\ active = 0

\* One field of descriptor i is written.
WithStatus(t, i, status) == [t EXCEPT ![i].status = status]
WithRank(t, i, rank) == [t EXCEPT ![i].rank = rank]

\* Mutant: the old firmware becomes invalid first.
InvalidateFirst(n) ==
    LET invalid == IF FwdNum = 2 \/ CurrentFwd # 0
                   THEN WithStatus(fwd, CurrentFwd, "invalid") ELSE fwd
    IN  CASE n = 0 -> fwd
          [] n = 1 -> invalid
          [] n = 2 -> WithRank(invalid, TrialFwd, BiggestRank + 1)

\* Accepting: the trial gets the biggest rank, then the old firmware becomes
\* invalid unless it is golden.  n writes are done.
AcceptWrites(n) ==
    LET ranked == WithRank(fwd, TrialFwd, BiggestRank + 1)
    IN  CASE n = 0 -> fwd
          [] n = 1 -> ranked
          [] n = 2 -> IF FwdNum = 2 \/ CurrentFwd # 0
                      THEN WithStatus(ranked, CurrentFwd, "invalid")
                      ELSE ranked

AcceptTrialFwd(n) ==
    /\ HasTrial
    /\ boot_type = "trial"
    /\ BiggestRank < MaxRank
    /\ fwd' = AcceptWrites(n)
    /\ UNCHANGED <<flash, active, boot_type>>

\* Rejecting: first invalid, then a rank that is not a trial's.
RejectWrites(n) ==
    CASE n = 0 -> fwd
      [] n = 1 -> WithStatus(fwd, TrialFwd, "invalid")
      [] n = 2 -> WithRank(WithStatus(fwd, TrialFwd, "invalid"), TrialFwd, 1)

RejectTrialFwd(n) ==
    /\ HasTrial
    /\ fwd' = RejectWrites(n)
    /\ UNCHANGED <<flash, active, boot_type>>

EraseFwd(i) == fwd' = [fwd EXCEPT ![i] = ErasedFwd]

\* The boot loader tries a trial, or returns to the current firmware (golden
\* if there is no other), and records its choice.
BootChoices ==
    TrialFwds \cup (IF Valid(fwd[CurrentFwd]) THEN {CurrentFwd} ELSE {})

Boot ==
    /\ \E i \in BootChoices :
        /\ active' = i
        /\ boot_type' = CASE fwd[i].rank = TRIAL  -> "trial"
                          [] fwd[i].rank = GOLDEN -> "golden"
                          [] OTHER                -> "current"
    /\ UNCHANGED <<fwd, flash>>
=============================================================================
