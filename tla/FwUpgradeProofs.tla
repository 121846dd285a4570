---------------------------- MODULE FwUpgradeProofs ----------------------------
(***************************************************************************)
(* For flashes, files and packets of any size: the regions of image sets   *)
(* are disjoint; there is a confirmed firmware to return to, which no      *)
(* upload works on; file systems keep their data; what may boot is whole;  *)
(* and FwUpgrade implements FwStore.                                       *)
(*                                                                         *)
(* The invariants come first.  Each is proved from those before it, and    *)
(* by the same case distinction: a turn of the session before the erasure  *)
(* of the trial descriptor, one after it (LateTurn), the session's end, or *)
(* a command or reset.                                                     *)
(***************************************************************************)
EXTENDS FwUpgrade, TLAPS, WellFoundedInduction

-----------------------------------------------------------------------------
(* The regions of image sets *)

\* Two descriptors: the lower region ends where the upper one begins at the
\* latest, and the upper one spares the set of descriptor 0 and ends in the
\* flash, if that set leaves something of the two halves
\* (fw_upgrade_select_trial_fwd).
THEOREM HalvesAreDisjoint ==
    ASSUME NEW mem \in 0 .. SizeLimit - 1, NEW first \in 0 .. mem,
           NEW end0 \in 0 .. first + 2 * Half(mem, first)
    PROVE  LET lower == LowerRegion(mem, first)
               upper == UpperRegion(mem, first, end0)
           IN  /\ first <= lower.start
               /\ lower.start + lower.size <= upper.start
               /\ end0 <= upper.start
               /\ upper.size \in Nat
               /\ upper.start + upper.size <= mem
<1> DEFINE half == Half(mem, first)
<1>1. half \in Nat /\ first + 2 * half <= mem
  BY DEF Half
<1>2. CASE first + half < end0
  <2>1. half - (end0 - (first + half)) \in 0 .. SizeLimit - 1
    BY <1>1, <1>2, SizeAssumption
  <2>2. (half - (end0 - (first + half))) % SizeLimit
           = half - (end0 - (first + half))
    BY <2>1, SizeAssumption
  <2> QED  BY <1>1, <1>2, <2>1, <2>2 DEF LowerRegion, UpperRegion
<1>3. CASE ~ (first + half < end0)
  BY <1>1, <1>3 DEF LowerRegion, UpperRegion
<1> QED  BY <1>2, <1>3

\* Golden and two others: the regions of descriptors 1 and 2 follow the golden
\* set and one another, and end in the flash (fw_upgrade_select_trial_fwd).
THEOREM RegionsBesideGoldenAreDisjoint ==
    ASSUME NEW mem \in Nat, NEW end0 \in 0 .. mem
    PROVE  LET one == RegionBesideGolden(mem, end0, 1)
               two == RegionBesideGolden(mem, end0, 2)
           IN  /\ end0 <= one.start
               /\ one.start + one.size <= two.start
               /\ one.size \in Nat /\ two.size = one.size
               /\ two.start + two.size <= mem
<1> DEFINE size == (mem - end0) \div 2
<1>1. size \in Nat /\ 2 * size <= mem - end0
  OBVIOUS
<1> QED  BY <1>1 DEF RegionBesideGolden

-----------------------------------------------------------------------------
(* A firmware to return to, and a trial descriptor that is free *)

\* The descriptors are there, with their fields.
Descriptors ==
    /\ DOMAIN fwd = FwdIdx
    /\ \A i \in FwdIdx :
         /\ DOMAIN fwd[i] = {"magic", "total", "rank", "status", "entries"}
         /\ fwd[i].magic \in BOOLEAN /\ fwd[i].total \in BOOLEAN
         /\ fwd[i].rank \in Int

\* The firmware of descriptor 0 is golden, or none is and one is ranked.
Confirmed ==
    \/ Valid(fwd[0]) /\ fwd[0].rank = GOLDEN
    \/ (\A i \in FwdIdx : fwd[i].rank # GOLDEN) /\ RankedFwds # {}

\* What the session writes to is not in use: it was not the current firmware
\* while the packet that chose it was processed, and is not valid afterwards.
TrialIsFree ==
    IF session.state = "erase_fwd"
    THEN packet # NoPacket => session.trial # CurrentFwd
    ELSE fwd[session.trial].status # "valid"

\* A session that has erased nothing is at offset 0; one that chose a descriptor
\* chose one that neither runs nor is golden, nor is valid once erased.
SessionInv ==
    session # NoSession =>
        /\ DOMAIN session = DOMAIN NewSession
        /\ session.state \in {"get_trial", "erase_fwd"} => upload_off = 0
        /\ session.state # "get_trial" =>
             /\ session.trial \in FwdIdx \ {active}
             /\ fwd[0].rank = GOLDEN => session.trial # 0
             /\ TrialIsFree

\* The inductive invariant of FallbackKept.
FallbackInv ==
    /\ Descriptors
    /\ Confirmed
    /\ SessionInv
    /\ packet # NoPacket => session # NoSession

\* The states before the trial descriptor is erased.
Early == {"get_trial", "erase_fwd"}

\* The trial descriptor was chosen and erased.
Late == session # NoSession /\ session.state \notin Early

-----------------------------------------------------------------------------
(* Which descriptors are in use *)

\* Descriptor 0 holds a golden firmware.
Golden == fwd[0].rank = GOLDEN

\* A trial descriptor was chosen, and is still the one to choose.
Chosen ==
    /\ session # NoSession
    /\ session.state # "get_trial"
    /\ session.state = "erase_fwd" => packet # NoPacket

\* The firmware that runs is the current one or the one an upload would
\* replace, and beside these two only a golden one is valid.
TableInv ==
    /\ active \in {CurrentFwd, TrialIdx}
    /\ boot_type \in {"golden", "current", "trial"}
    /\ ~ Golden \/ RankedFwds = {} => ~ Valid(fwd[2])
    /\ Golden /\ boot_type = "trial" => active # 0
    /\ Chosen => session.trial = TrialIdx
    /\ Late => fwd[session.trial].rank = TRIAL

-----------------------------------------------------------------------------
(* Where partitions are *)

\* The two file systems, which change places.
PartA == FactoryEntries[FS1]

PartB == FactoryEntries[FS2]

\* Where images may begin, and where the factory's end.
FirstBlock == Largest({PartEnd(PartA), PartEnd(PartB)})

FactoryEnd == Largest({PartEnd(FactoryEntries[id]) : id \in DOMAIN FactoryEntries})

\* A partition of the flash.
Inside(p) ==
    /\ p \in [start : MaxFwd .. MemBlocks, size : 0 .. MemBlocks]
    /\ PartEnd(p) <= MemBlocks

\* Partition p is in region r.
Within(p, r) == r.start <= p.start /\ PartEnd(p) <= PartEnd(r)

\* Partition p ends before q begins, or the other way round.
Beside(p, q) == PartEnd(p) <= q.start \/ PartEnd(q) <= p.start

\* The two file systems of a firmware are the factory's, either way round.
FsPair(d) ==
    /\ Found(d, FS1) /\ Found(d, FS2)
    /\ \/ Find(d, FS1) = PartA /\ Find(d, FS2) = PartB
       \/ Find(d, FS1) = PartB /\ Find(d, FS2) = PartA

\* The descriptors that are in use.
Used == {i \in FwdIdx : i = active \/ Valid(fwd[i])}

\* The images of a descriptor, whose places its own upload chose.
ImagesOf(d) == DOMAIN d.entries \ {FS1, FS2}

\* The lower half of what follows the file systems.
Lower == LowerRegion(MemBlocks, FirstBlock)

\* What is in use has both file systems.
UsedFsInv == \A i \in Used : FsPair(fwd[i])

\* Each image of descriptor 0 is in the lower half or where the factory put
\* it, those of descriptor 1 behind both; with a golden firmware the two
\* others have a region each.
ZoneInv ==
    /\ \A i \in FwdIdx :
         /\ DOMAIN fwd[i].entries \subseteq ImageIds \cup {FS2}
         /\ \A id \in DOMAIN fwd[i].entries : Inside(fwd[i].entries[id])
         /\ \A id \in DOMAIN fwd[i].entries \cap {FS1, FS2} :
              fwd[i].entries[id] \in {PartA, PartB}
    /\ \A id \in ImagesOf(fwd[0]) :
         \/ fwd[0].entries[id] = FactoryEntries[id]
         \/ Within(fwd[0].entries[id], Lower)
    /\ Golden =>
         /\ fwd[0].entries = FactoryEntries
         /\ \A i \in {1, 2} : \A id \in ImagesOf(fwd[i]) :
              Within(fwd[i].entries[id],
                     RegionBesideGolden(MemBlocks, FactoryEnd, i))
    /\ ~ Golden =>
         \A id \in ImagesOf(fwd[1]) :
            LET p == fwd[1].entries[id]
            IN  /\ PartEnd(Lower) <= p.start
                /\ \A id0 \in DOMAIN fwd[0].entries :
                     PartEnd(fwd[0].entries[id0]) <= p.start

-----------------------------------------------------------------------------
(* Where the session is *)

\* The states of the second file system, between erasure and header.
Unprepared == {"erase_fs2", "prepare_fs"}

\* The region was measured, images before the next one fill it from its
\* start, and the header is checked before the first of them.
RegionInv ==
    Chosen =>
        /\ session.mem_size = TrialRegion.size
        /\ session.mem_start = TrialRegion.start + DiskBefore[session.index - 1]
        /\ IF session.is_first THEN session.index = 1
                               ELSE TotalDisk <= session.mem_size
        /\ session.state \in {"erase_fwd", "config"} \cup Unprepared
              => session.is_first
        /\ session.state \in {"image", "duplicate_fs", "finish"}
              => ~ session.is_first
        /\ session.state \in {"duplicate_fs", "finish"}
              <=> session.index > NImages

\* Where the next image set has image j.
Place(j) == [start |-> TrialRegion.start + DiskBefore[j - 1],
             size  |-> Images[j].disk]

\* File system 1 goes where the running firmware has its second one.
PlaceOf(j) == IF Images[j].id = FS1 THEN Find(fwd[active], FS2) ELSE Place(j)

\* The trial's file systems are the running firmware's the other way round.
SwapInv ==
    Late =>
        LET d == fwd[session.trial]
        IN  /\ session.state \in Unprepared => d.entries = <<>> /\ upload_off = 0
            /\ session.state \notin Unprepared => Found(d, FS2)
            /\ Found(d, FS2) => Find(d, FS2) = Find(fwd[active], FS1)
            /\ Found(d, FS1) => Find(d, FS1) = Find(fwd[active], FS2)

\* Every image up to the next one has its entry, at its place, and the handle
\* is the next one's.
EntryInv ==
    Late =>
        /\ \A j \in 1 .. NImages :
             /\ j < session.index => Found(fwd[session.trial], Images[j].id)
             /\ Found(fwd[session.trial], Images[j].id)
                  => Find(fwd[session.trial], Images[j].id) = PlaceOf(j)
        /\ session.is_first =>
             /\ session.wrt_length = 0 /\ session.wrt_count = 0
             /\ \/ session.state = "erase_fs2" /\ packet = NoPacket
                \/ session.part = NoPart
        /\ session.part # NoPart /\ ~ session.is_first =>
             \E j \in 1 .. NImages :
               /\ j = session.index
               /\ session.part = PlaceOf(j)
               /\ Found(fwd[session.trial], Images[j].id)
        /\ session.wrt_length # 0 =>
             /\ session.index <= NImages
             /\ session.wrt_length = Images[session.index].len
             /\ session.wrt_count \in 0 .. session.wrt_length
             /\ session.part # NoPart => session.wrt_count < session.wrt_length

-----------------------------------------------------------------------------
(* Counters *)

\* The counters of the session and the packet.
Packet == [of : Version, from : 0 .. FileLen, len : 1 .. FileLen,
           received : BOOLEAN]

CountInv ==
    /\ upload_off \in 0 .. FileLen
    /\ session = NoSession \/ session \in Session
    /\ packet # NoPacket =>
         packet \in Packet /\ packet.from + packet.len <= FileLen

-----------------------------------------------------------------------------
(* The layout *)

\* The layout, without the counters.
MapInv ==
    /\ UsedFsInv
    /\ ZoneInv
    /\ RegionInv
    /\ SwapInv
    /\ EntryInv

\* An upload that has erased nothing is at its beginning.
FreshInv ==
    session # NoSession /\ session.state \in Early =>
        /\ session.is_first /\ session.index = 1
        /\ session.part = NoPart
        /\ session.wrt_length = 0 /\ session.wrt_count = 0

\* The layout.
LayoutInv == MapInv /\ FreshInv /\ CountInv

-----------------------------------------------------------------------------
(* The fields of the descriptors *)

\* Every field has a value of its own type, and only descriptor 0 is golden.
Formed(d) ==
    d \in [magic : BOOLEAN, total : BOOLEAN, rank : -1 .. MaxRank,
           status : {"unused", "valid", "invalid"}, entries : {d.entries}]

FieldInv ==
    /\ DOMAIN fwd = FwdIdx
    /\ \A i \in FwdIdx : Formed(fwd[i])
    /\ \A i \in {1, 2} : fwd[i].rank # GOLDEN
    /\ DOMAIN flash = Cells(MaxFwd, MemBlocks - MaxFwd)

\* The inductive invariant of the type invariant, and of what follows.
UpgradeInv == FallbackInv /\ TableInv /\ LayoutInv /\ FieldInv

-----------------------------------------------------------------------------
(* The file systems *)

\* The firmwares whose data must not get lost.
Kept == {active, CurrentFwd} \cup TrialFwds

\* The partition holds a file system.
HasData(p) == UnitAt(flash, p, 0) = FsData

\* The firmwares that must not lose their data have got it, and the copy for
\* the trial is made before it becomes valid.
FsKeptInv ==
    /\ \A i \in Kept : HasData(Find(fwd[i], FS1))
    /\ Late /\ session.state = "finish" => HasData(Find(fwd[active], FS2))

-----------------------------------------------------------------------------
(* The images *)

\* Partition p holds the first n units of image j of file v.
Stored(f, p, v, j, n) ==
    \A k \in 0 .. n - 1 : UnitAt(f, p, k) = <<v, Images[j].pos + k>>

\* The images that are not file system 1.
Parts == {j \in 1 .. NImages : Images[j].id # FS1}

\* The images are no longer than their partitions.
Fits(d) ==
    \A j \in Parts :
        Found(d, Images[j].id) =>
            Images[j].len <= Find(d, Images[j].id).size * BlockUnits

\* Each firmware in use is a file, whole.
UsedWhole == \A i \in Used : Fits(fwd[i]) /\ FilesIn(fwd[i]) # {}

\* The place in the file of the next unit the session looks at.
NextPos == IF packet = NoPacket THEN upload_off ELSE packet.from + session.buf_offset

\* The rest of the block the image has come to.
RestErased ==
    \A k \in session.wrt_count ..
               (session.wrt_count \div BlockUnits) * BlockUnits + BlockUnits - 1 :
        UnitAt(flash, session.part, k) = ErasedCell

\* The trial holds the images before the next one, and of that one as much as
\* was written while its hash has been right: what is missing can be written,
\* unless the failure to erase made the file stay behind.
OpenContent ==
    \A j \in 1 .. NImages :
        j = session.index /\ session.digest =>
            /\ session.wrt_length # 0 /\ session.part # NoPart
            /\ Images[j].id # FS1 =>
                 /\ Stored(flash, session.part, session.config_of, j,
                           session.wrt_count)
                 /\ RestErased \/ NextPos < Images[j].pos + session.wrt_count

\* The images before the next one are stored.
DoneContent ==
    \A j \in Parts :
        j < session.index =>
            Stored(flash, PlaceOf(j), session.config_of, j, Images[j].len)

\* Unless the trial is untouched, it holds the images in order.
TrialContent ==
    Late /\ ~ session.is_first =>
        /\ session.config_of \in Version
        /\ session.digest => session.index <= NImages
        /\ DoneContent
        /\ OpenContent

\* What is in use is whole, the trial is as far as its upload.
ContentInv ==
    /\ UsedWhole
    /\ TrialContent
    /\ packet # NoPacket => packet.from = upload_off

\* The inductive invariant of BootableIsWhole and of the refinement.
WholeInv == UpgradeInv /\ ContentInv

-----------------------------------------------------------------------------
(* Searching the table *)

\* The search for the current firmware finds a ranked one if there is one.
LEMMA CurrentIsRanked ==
    ASSUME Descriptors, RankedFwds # {}
    PROVE  CurrentFwd \in RankedFwds
<1> DEFINE Before(i, j) == \/ fwd[j].rank < fwd[i].rank
                           \/ fwd[j].rank = fwd[i].rank /\ i <= j
<1>1. PICK a \in {0, 1} : RankedFwds \subseteq {a, a + 1}
  BY DEF RankedFwds, Searched
<1>2. \A i \in {a, a + 1} : fwd[i].rank \in Int
  BY <1>1 DEF Descriptors, FwdIdx, MaxFwd
<1>3. \A i, j \in {a, a + 1} : Before(i, i) /\ (Before(i, j) \/ Before(j, i))
  BY <1>2
<1>4. \E i \in RankedFwds : \A j \in RankedFwds : Before(i, j)
  <2> HIDE DEF Before
  <2>1. CASE RankedFwds = {a, a + 1}
    <3>1. CASE Before(a, a + 1)
      BY <1>3, <2>1, <3>1
    <3>2. CASE Before(a + 1, a)
      BY <1>3, <2>1, <3>2
    <3> QED  BY <1>3, <3>1, <3>2
  <2>2. CASE RankedFwds # {a, a + 1}
    <3>1. PICK i : RankedFwds = {i} /\ i \in {a, a + 1}
      BY <1>1, <2>2
    <3> QED  BY <1>3, <3>1
  <2> QED  BY <2>1, <2>2
<1> QED  BY <1>4 DEF CurrentFwd

\* The search for a trial finds one if there is one.
LEMMA TrialIsTrial ==
    ASSUME HasTrial
    PROVE  TrialFwd \in TrialFwds
<1>1. PICK a \in Int, b \in Int : a < b /\ TrialFwds \subseteq {a, b}
  <2>1. TrialFwds \subseteq {0, 1} \/ TrialFwds \subseteq {1, 2}
    BY DEF TrialFwds, Searched
  <2> QED  BY <2>1
<1>2. \E i \in TrialFwds : \A j \in TrialFwds : j <= i
  <2>1. CASE b \in TrialFwds
    BY <1>1, <2>1
  <2>2. CASE b \notin TrialFwds
    <3>1. TrialFwds = {a}
      BY <1>1, <2>2 DEF HasTrial
    <3> QED  BY <3>1
  <2> QED  BY <2>1, <2>2
<1> QED  BY <1>2 DEF TrialFwd

\* The rank a trial is accepted with is neither golden nor a trial's.
LEMMA NextRank ==
    ASSUME Descriptors
    PROVE  BiggestRank + 1 \in Nat \ {0}
<1>1. CASE RankedFwds = {}
  BY <1>1 DEF BiggestRank
<1>2. CASE RankedFwds # {}
  <2>1. CurrentFwd \in RankedFwds
    BY <1>2, CurrentIsRanked
  <2>2. CurrentFwd \in FwdIdx /\ fwd[CurrentFwd].rank > 0
    BY <2>1 DEF RankedFwds, Searched, FwdIdx, MaxFwd
  <2> QED  BY <1>2, <2>2 DEF BiggestRank, Descriptors
<1> QED  BY <1>1, <1>2

\* The current firmware is valid, and golden or ranked.
LEMMA CurrentIsConfirmed ==
    ASSUME Descriptors, Confirmed
    PROVE  /\ CurrentFwd \in FwdIdx
           /\ Valid(fwd[CurrentFwd])
           /\ fwd[0].rank # GOLDEN => CurrentFwd \in RankedFwds
           /\ CurrentFwd = 0 \/ CurrentFwd \in RankedFwds
<1>1. CASE RankedFwds = {}
  BY <1>1 DEF Confirmed, CurrentFwd, FwdIdx, MaxFwd
<1>2. CASE RankedFwds # {}
  <2>1. CurrentFwd \in RankedFwds
    BY <1>2, CurrentIsRanked
  <2> QED  BY <2>1 DEF RankedFwds, Searched, FwdIdx, MaxFwd
<1> QED  BY <1>1, <1>2

\* The property follows from the invariant.
LEMMA InvImpliesFallbackKept == FallbackInv => FallbackKept
<1> SUFFICES ASSUME FallbackInv PROVE FallbackKept
  OBVIOUS
<1>1. Valid(fwd[CurrentFwd])
  BY CurrentIsConfirmed DEF FallbackInv
<1>2. ASSUME packet # NoPacket, session.state # "get_trial"
      PROVE  session.trial \notin {CurrentFwd, active}
  <2>1. session # NoSession
    BY <1>2 DEF FallbackInv
  <2>2. /\ session.trial \in FwdIdx \ {active}
        /\ fwd[0].rank = GOLDEN => session.trial # 0
        /\ TrialIsFree
    BY <1>2, <2>1 DEF FallbackInv, SessionInv
  <2>3. CASE session.state = "erase_fwd"
    BY <1>2, <2>2, <2>3 DEF TrialIsFree
  <2>4. CASE session.state # "erase_fwd"
    <3>1. session.trial \notin RankedFwds
      BY <2>2, <2>4 DEF TrialIsFree, RankedFwds, Valid
    <3> QED  BY <2>2, <3>1, CurrentIsConfirmed DEF FallbackInv
  <2> QED  BY <2>3, <2>4
<1> QED  BY <1>1, <1>2 DEF FallbackKept

-----------------------------------------------------------------------------
(* What leaves ranks, statuses and validity alone *)

SameTable ==
    /\ Descriptors'
    /\ \A i \in FwdIdx :
         /\ fwd'[i].rank = fwd[i].rank
         /\ fwd'[i].status = fwd[i].status
         /\ Valid(fwd'[i]) <=> Valid(fwd[i])

\* A confirmed firmware stays one where no rank changes and no firmware
\* becomes invalid.
LEMMA ConfirmedGrows ==
    ASSUME Confirmed,
           \A i \in FwdIdx : fwd'[i].rank = fwd[i].rank,
           \A i \in FwdIdx : Valid(fwd[i]) => Valid(fwd'[i])
    PROVE  Confirmed'
<1>1. 0 \in FwdIdx /\ {0, 1} \subseteq FwdIdx
  BY DEF FwdIdx, MaxFwd
<1>2. CASE Valid(fwd[0]) /\ fwd[0].rank = GOLDEN
  BY <1>1, <1>2 DEF Confirmed, GOLDEN
<1>3. CASE (\A i \in FwdIdx : fwd[i].rank # GOLDEN) /\ RankedFwds # {}
  <2>1. \A i \in FwdIdx : fwd'[i].rank # GOLDEN
    BY <1>3
  <2>2. Searched = {0, 1} /\ Searched' = {0, 1}
    BY <1>1, <1>3, <2>1 DEF Searched, FwdNum
  <2>3. RankedFwds \subseteq RankedFwds'
    BY <1>1, <2>2 DEF RankedFwds
  <2> QED  BY <1>3, <2>1, <2>3 DEF Confirmed
<1> QED  BY <1>2, <1>3 DEF Confirmed

\* Such a step keeps the confirmed firmware.
LEMMA SameTableConfirmed ==
    ASSUME Descriptors, Confirmed, SameTable
    PROVE  Confirmed'
BY ConfirmedGrows DEF SameTable

\* A step that leaves the table alone is one of them.
LEMMA UnchangedIsSame ==
    ASSUME Descriptors, UNCHANGED fwd
    PROVE  SameTable
BY DEF SameTable, Descriptors, Valid

\* fw_upgrade_create_partition writes an entry only.
LEMMA EntryIsSame ==
    ASSUME Descriptors, NEW i \in FwdIdx, NEW id, NEW p,
           fwd' = WithEntry(i, id, p)
    PROVE  SameTable
BY DEF SameTable, Descriptors, WithEntry, Valid

\* The writes after the header of a descriptor that is not valid.
LEMMA HeaderIsSame ==
    ASSUME Descriptors, NEW i \in FwdIdx, fwd[i].status # "valid",
           NEW n \in 0 .. 3, fwd' = HeaderWrites(i, n)
    PROVE  SameTable
<1>1. CASE n = 0
  BY <1>1, UnchangedIsSame DEF HeaderWrites
<1>2. CASE n \in {1, 2}
  BY <1>2 DEF SameTable, Descriptors, HeaderWrites, Valid
<1>3. CASE n = 3
  BY <1>3 DEF SameTable, Descriptors, HeaderWrites, Valid
<1> QED  BY <1>1, <1>2, <1>3

\* What every turn of the session from then on does to the table.
LateTurn ==
    /\ Late
    /\ SameTable
    /\ UNCHANGED <<active, boot_type>>
    /\ DOMAIN session' = DOMAIN NewSession
    /\ session'.trial = session.trial
    /\ session'.state \notin Early
    /\ session' # NoSession

\* A turn after the erasure keeps the invariant.
LEMMA LateStep ==
    ASSUME FallbackInv, LateTurn
    PROVE  FallbackInv'
<1>1. Confirmed'
  BY SameTableConfirmed DEF FallbackInv, LateTurn
<1>2. /\ session.trial \in FwdIdx \ {active}
      /\ fwd[0].rank = GOLDEN => session.trial # 0
      /\ fwd[session.trial].status # "valid"
  BY DEF FallbackInv, SessionInv, TrialIsFree, Early, LateTurn, Late
<1>3. fwd'[0].rank = fwd[0].rank
  BY DEF SameTable, FwdIdx, MaxFwd, LateTurn
<1>4. SessionInv'
  BY <1>2, <1>3 DEF SessionInv, TrialIsFree, Early, SameTable, LateTurn
<1> QED  BY <1>1, <1>4 DEF FallbackInv, SameTable, LateTurn

-----------------------------------------------------------------------------
(* FallbackInv: turns of the session *)

\* A session just made is not the absence of a session.
LEMMA NewIsNone == DOMAIN NewSession # DOMAIN NoSession
BY DEF NewSession, NoSession

\* The facts every turn of the session starts from.
LEMMA Turn ==
    ASSUME FallbackInv, NEW state, Processing(state)
    PROVE  /\ Descriptors
           /\ session # NoSession
           /\ DOMAIN session = DOMAIN NewSession
           /\ session.state = state
BY DEF FallbackInv, SessionInv, Processing

\* The choice of the trial descriptor keeps the invariant.
LEMMA GetTrialInfoKeeps ==
    ASSUME FallbackInv, GetTrialInfo
    PROVE  FallbackInv'
<1>1. /\ Descriptors /\ session # NoSession /\ packet # NoPacket
      /\ DOMAIN session = DOMAIN NewSession /\ session.state = "get_trial"
      /\ upload_off = 0
      /\ UNCHANGED tableVars
  BY Turn DEF GetTrialInfo, Processing, FallbackInv, SessionInv
<1>2. SameTable
  BY <1>1, UnchangedIsSame DEF tableVars
<1>3. Confirmed' /\ Descriptors'
  BY <1>2, SameTableConfirmed DEF FallbackInv, SameTable
<1>4. CASE session' = session /\ upload_off' = upload_off /\ packet' = NoPacket
  BY <1>1, <1>3, <1>4 DEF FallbackInv, SessionInv
<1>5. CASE /\ CanSelect /\ TrialIdx # active
           /\ Continue([session EXCEPT !.state = "erase_fwd",
                                       !.trial = TrialIdx,
                                       !.mem_start = TrialRegion.start,
                                       !.mem_size = TrialRegion.size])
  <2>1. /\ DOMAIN session' = DOMAIN session
        /\ session'.state = "erase_fwd" /\ session'.trial = TrialIdx
        /\ UNCHANGED <<packet, upload_off>>
    BY <1>1, <1>5 DEF Continue, NewSession
  <2>2. /\ TrialIdx \in FwdIdx \ {active}
        /\ TrialIdx # CurrentFwd
        /\ fwd[0].rank = GOLDEN => TrialIdx # 0
    <3>1. fwd[0].rank = GOLDEN => FwdNum = 3
      BY DEF FallbackInv, Confirmed, FwdNum, Valid, FwdIdx, MaxFwd
    <3>2. fwd[0].rank # GOLDEN => FwdNum = 2
      BY DEF FwdNum
    <3> QED  BY <1>5, <3>1, <3>2 DEF TrialIdx, FwdIdx, MaxFwd
  <2>3. CurrentFwd' = CurrentFwd
    BY <1>1 DEF tableVars, CurrentFwd, RankedFwds, Searched, FwdNum, Valid
  <2>4. SessionInv'
    BY <1>1, <2>1, <2>2, <2>3 DEF SessionInv, TrialIsFree, tableVars
  <2> QED  BY <1>1, <1>3, <2>1, <2>4 DEF FallbackInv, NoSession, NewSession
<1> QED  BY <1>1, <1>4, <1>5 DEF GetTrialInfo, Fail, Reply

\* An erased descriptor is unused and ranks as a trial; the others stay.
LEMMA Erasing ==
    ASSUME Descriptors, NEW i \in FwdIdx, EraseFwd(i)
    PROVE  /\ Descriptors'
           /\ fwd'[i].status = "unused" /\ fwd'[i].rank = TRIAL
           /\ \A j \in FwdIdx \ {i} : fwd'[j] = fwd[j]
<1>1. /\ ErasedFwd.status = "unused" /\ ErasedFwd.rank = TRIAL
      /\ DOMAIN ErasedFwd = {"magic", "total", "rank", "status", "entries"}
      /\ ErasedFwd.magic \in BOOLEAN /\ ErasedFwd.total \in BOOLEAN
      /\ ErasedFwd.rank \in Int
  BY DEF ErasedFwd, TRIAL
<1>2. DOMAIN fwd' = FwdIdx /\ fwd'[i] = ErasedFwd
      /\ \A j \in FwdIdx \ {i} : fwd'[j] = fwd[j]
  BY DEF EraseFwd, Descriptors
<1>3. Descriptors'
  BY <1>1, <1>2 DEF Descriptors
<1> QED  BY <1>1, <1>2, <1>3

\* A descriptor that is not the current firmware's may be erased.
LEMMA EraseKeepsConfirmed ==
    ASSUME Descriptors, Confirmed, NEW i \in FwdIdx, EraseFwd(i),
           i # CurrentFwd, fwd[0].rank = GOLDEN => i # 0
    PROVE  Confirmed'
<1>1. /\ fwd'[i].rank # GOLDEN
      /\ \A j \in FwdIdx \ {i} : fwd'[j] = fwd[j]
      /\ {0, 1} \subseteq FwdIdx
  BY Erasing DEF TRIAL, GOLDEN, FwdIdx, MaxFwd
<1>2. CASE Valid(fwd[0]) /\ fwd[0].rank = GOLDEN
  BY <1>1, <1>2 DEF Confirmed
<1>3. CASE (\A j \in FwdIdx : fwd[j].rank # GOLDEN) /\ RankedFwds # {}
  <2>1. \A j \in FwdIdx : fwd'[j].rank # GOLDEN
    BY <1>1, <1>3
  <2>2. Searched = {0, 1} /\ Searched' = {0, 1}
    BY <1>1, <1>3, <2>1 DEF Searched, FwdNum
  <2>3. CurrentFwd \in RankedFwds
    BY <1>3, CurrentIsRanked
  <2>4. CurrentFwd \in {0, 1} /\ fwd'[CurrentFwd] = fwd[CurrentFwd]
    BY <1>1, <2>2, <2>3 DEF RankedFwds
  <2>5. \E j \in {0, 1} : Valid(fwd'[j]) /\ fwd'[j].rank > 0
    BY <2>3, <2>4 DEF RankedFwds
  <2>6. RankedFwds' # {}
    BY <2>2, <2>5 DEF RankedFwds
  <2> QED  BY <2>1, <2>6 DEF Confirmed
<1> QED  BY <1>2, <1>3 DEF Confirmed

\* The erasure of the trial descriptor keeps the invariant.
LEMMA EraseTrialFwdKeeps ==
    ASSUME FallbackInv, EraseTrialFwd
    PROVE  FallbackInv'
<1>1. /\ Descriptors /\ Confirmed /\ session # NoSession /\ packet # NoPacket
      /\ DOMAIN session = DOMAIN NewSession /\ session.state = "erase_fwd"
      /\ upload_off = 0 /\ UNCHANGED active
      /\ session.trial \in FwdIdx \ {active} /\ session.trial # CurrentFwd
      /\ fwd[0].rank = GOLDEN => session.trial # 0
  BY Turn DEF EraseTrialFwd, Processing, FallbackInv, SessionInv, TrialIsFree
<1>2. ASSUME EraseFwd(session.trial)
      PROVE  /\ Descriptors' /\ Confirmed'
             /\ fwd'[session.trial].status # "valid"
             /\ fwd'[0].rank = GOLDEN => session.trial # 0
  <2>1. Confirmed'
    BY <1>1, <1>2, EraseKeepsConfirmed
  <2>2. /\ Descriptors' /\ fwd'[session.trial].status = "unused"
        /\ fwd'[session.trial].rank # GOLDEN
    BY <1>1, <1>2, Erasing DEF TRIAL, GOLDEN
  <2> QED  BY <2>1, <2>2
<1>3. CASE /\ EraseFwd(session.trial)
           /\ Continue([session EXCEPT !.state = "erase_fs2"])
  <2>1. /\ DOMAIN session' = DOMAIN session
        /\ session'.state = "erase_fs2" /\ session'.trial = session.trial
        /\ UNCHANGED <<packet, upload_off>>
    BY <1>1, <1>3 DEF Continue, NewSession
  <2> QED  BY <1>1, <1>2, <1>3, <2>1
             DEF FallbackInv, SessionInv, TrialIsFree, NoSession, NewSession
<1>4. CASE EraseFwd(session.trial) /\ Fail(session)
  BY <1>1, <1>2, <1>4 DEF FallbackInv, SessionInv, TrialIsFree, Fail, Reply
<1>5. CASE UNCHANGED fwd /\ Fail(session)
  <2>1. SameTable
    BY <1>1, <1>5, UnchangedIsSame
  <2>2. Confirmed'
    BY <1>1, <2>1, SameTableConfirmed
  <2>3. session' = session /\ packet' = NoPacket /\ upload_off' = upload_off
    BY <1>5 DEF Fail, Reply
  <2>4. SessionInv'
    BY <1>1, <1>5, <2>3 DEF SessionInv, TrialIsFree
  <2> QED  BY <2>1, <2>2, <2>3, <2>4 DEF FallbackInv, SameTable
<1> QED  BY <1>3, <1>4, <1>5 DEF EraseTrialFwd

\* The remaining turns are turns after the erasure.
LEMMA EraseSecondFsIsLate ==
    ASSUME FallbackInv, EraseSecondFs
    PROVE  LateTurn
<1>1. /\ Descriptors /\ session # NoSession
      /\ UNCHANGED <<active, boot_type>> /\ UNCHANGED fwd
      /\ DOMAIN session = DOMAIN NewSession /\ session.state = "erase_fs2"
  BY Turn DEF EraseSecondFs
<1>2. /\ DOMAIN session' = DOMAIN NewSession
      /\ session'.state \in {"erase_fs2", "prepare_fs"}
      /\ session'.trial = session.trial
  BY <1>1 DEF EraseSecondFs, Continue, Fail, NewSession
<1> QED  BY <1>1, <1>2, UnchangedIsSame, NewIsNone DEF Early, Late, LateTurn

LEMMA PrepareFsIsLate ==
    ASSUME FallbackInv, PrepareFs
    PROVE  LateTurn
<1>1. /\ Descriptors /\ session # NoSession /\ UNCHANGED <<active, boot_type>>
      /\ DOMAIN session = DOMAIN NewSession /\ session.state = "prepare_fs"
      /\ session.trial \in FwdIdx
  BY Turn DEF PrepareFs, FallbackInv, SessionInv
<1>2. /\ DOMAIN session' = DOMAIN NewSession
      /\ session'.state \in {"prepare_fs", "receive"}
      /\ session'.trial = session.trial
  BY <1>1 DEF PrepareFs, Continue, Fail, NewSession
<1>3. \/ UNCHANGED fwd
      \/ fwd' = WithEntry(session.trial, FS2, Find(fwd[active], FS1))
  BY DEF PrepareFs
<1>4. SameTable
  BY <1>1, <1>3, UnchangedIsSame, EntryIsSame
<1> QED  BY <1>1, <1>2, <1>4, NewIsNone DEF Early, Late, LateTurn

LEMMA ReceiveDataIsLate ==
    ASSUME FallbackInv, ReceiveData
    PROVE  LateTurn
<1>1. /\ Descriptors /\ session # NoSession
      /\ UNCHANGED <<active, boot_type>> /\ UNCHANGED fwd
      /\ DOMAIN session = DOMAIN NewSession /\ session.state = "receive"
  BY Turn DEF ReceiveData, tableVars
<1>2. /\ DOMAIN session' = DOMAIN NewSession
      /\ session'.state \in {"receive", "config", "image"}
      /\ session'.trial = session.trial
  BY <1>1 DEF ReceiveData, NewSession
<1> QED  BY <1>1, <1>2, UnchangedIsSame, NewIsNone DEF Early, Late, LateTurn

LEMMA ProcessConfigFileIsLate ==
    ASSUME FallbackInv, ProcessConfigFile
    PROVE  LateTurn
<1>1. /\ Descriptors /\ session # NoSession /\ UNCHANGED <<active, boot_type>>
      /\ DOMAIN session = DOMAIN NewSession /\ session.state = "config"
      /\ session.trial \in FwdIdx /\ fwd[session.trial].status # "valid"
  BY Turn DEF ProcessConfigFile, FallbackInv, SessionInv, TrialIsFree
<1>2. /\ DOMAIN session' = DOMAIN NewSession
      /\ session'.state \in {"receive", "config", "image"}
      /\ session'.trial = session.trial
  BY <1>1 DEF ProcessConfigFile, Continue, Fail, NewSession
<1>3. \E n \in 0 .. 3 : fwd' = HeaderWrites(session.trial, n)
  BY <1>1 DEF ProcessConfigFile, HeaderWrites, NewSession
<1>4. SameTable
  BY <1>1, <1>3, HeaderIsSame
<1> QED  BY <1>1, <1>2, <1>4, NewIsNone DEF Early, Late, LateTurn

LEMMA ConfigWithoutBufferIsLate ==
    ASSUME FallbackInv, ConfigWithoutBuffer
    PROVE  LateTurn
<1>1. /\ Descriptors /\ session # NoSession /\ UNCHANGED <<active, boot_type, session>>
      /\ UNCHANGED fwd /\ session.state = "config"
      /\ DOMAIN session = DOMAIN NewSession
  BY Turn DEF ConfigWithoutBuffer, tableVars, Fail
<1> QED  BY <1>1, UnchangedIsSame, NewIsNone DEF Early, Late, LateTurn

\* The session after an image is complete.
LEMMA NextImageKeeps ==
    ASSUME NEW s, DOMAIN s = DOMAIN NewSession, s.state = "image"
    PROVE  /\ DOMAIN NextImage(s) = DOMAIN s
           /\ NextImage(s).trial = s.trial
           /\ NextImage(s).state \in {"image", "duplicate_fs"}
BY DEF NextImage, NewSession

LEMMA OpenImageIsLate ==
    ASSUME FallbackInv, OpenImage
    PROVE  LateTurn
<1> DEFINE s == [session EXCEPT !.wrt_count = 0, !.wrt_length = Image.len]
<1>1. /\ Descriptors /\ session # NoSession /\ UNCHANGED <<active, boot_type>>
      /\ DOMAIN session = DOMAIN NewSession /\ session.state = "image"
      /\ session.trial \in FwdIdx
  BY Turn DEF OpenImage, FallbackInv, SessionInv
<1>2. /\ DOMAIN s = DOMAIN NewSession /\ s.state = "image"
      /\ s.trial = session.trial
  BY <1>1 DEF NewSession
<1>3. \/ session' = NextImage(s)
      \/ session' = [s EXCEPT !.part = NextPart, !.digest = TRUE]
      \/ session' = s
      \/ session' = [s EXCEPT !.part = NextPart]
  BY DEF OpenImage, Continue, Fail
<1>4. /\ DOMAIN session' = DOMAIN NewSession
      /\ session'.state \in {"image", "duplicate_fs"}
      /\ session'.trial = session.trial
  <2> HIDE DEF s
  <2>1. CASE session' = NextImage(s)
    BY <1>1, <1>2, <2>1, NextImageKeeps
  <2>2. CASE session' # NextImage(s)
    BY <1>1, <1>2, <1>3, <2>2 DEF NewSession
  <2> QED  BY <2>1, <2>2
<1>5. UNCHANGED fwd \/ fwd' = WithEntry(session.trial, Image.id, NextPart)
  BY <1>2 DEF OpenImage
<1>6. SameTable
  BY <1>1, <1>5, UnchangedIsSame, EntryIsSame
<1> QED  BY <1>1, <1>4, <1>6, NewIsNone DEF Early, Late, LateTurn

LEMMA WriteImageIsLate ==
    ASSUME FallbackInv, WriteImage
    PROVE  LateTurn
<1> DEFINE s == [session EXCEPT !.digest = Hashed, !.buf_offset = @ + ChunkLen,
                                !.wrt_count = @ + ChunkLen]
<1>1. /\ Descriptors /\ session # NoSession /\ UNCHANGED <<active, boot_type, fwd>>
      /\ DOMAIN session = DOMAIN NewSession /\ session.state = "image"
  BY Turn DEF WriteImage
<1>2. /\ DOMAIN s = DOMAIN NewSession /\ s.state = "image"
      /\ s.trial = session.trial
  BY <1>1 DEF NewSession
<1>3. \/ session' = [NextImage(s) EXCEPT !.digest = FALSE]
      \/ session' = [s EXCEPT !.part = NoPart]
      \/ session' = s
      \/ session' = [session EXCEPT !.digest = FALSE]
  BY DEF WriteImage, Continue, Fail
<1>4. /\ DOMAIN session' = DOMAIN NewSession
      /\ session'.state \in {"image", "duplicate_fs"}
      /\ session'.trial = session.trial
  <2> HIDE DEF s
  <2>1. CASE session' = [NextImage(s) EXCEPT !.digest = FALSE]
    BY <1>1, <1>2, <2>1, NextImageKeeps DEF NewSession
  <2>2. CASE session' # [NextImage(s) EXCEPT !.digest = FALSE]
    BY <1>1, <1>2, <1>3, <2>2 DEF NewSession
  <2> QED  BY <2>1, <2>2
<1> QED  BY <1>1, <1>4, UnchangedIsSame, NewIsNone DEF Early, Late, LateTurn

LEMMA WriteWithoutHandleIsLate ==
    ASSUME FallbackInv, WriteWithoutHandle
    PROVE  LateTurn
<1>1. /\ Descriptors /\ session # NoSession /\ UNCHANGED <<active, boot_type, fwd>>
      /\ DOMAIN session = DOMAIN NewSession /\ session.state = "image"
  BY Turn DEF WriteWithoutHandle, tableVars
<1>2. /\ DOMAIN session' = DOMAIN NewSession /\ session'.state = "image"
      /\ session'.trial = session.trial
  BY <1>1 DEF WriteWithoutHandle, Fail, NewSession
<1> QED  BY <1>1, <1>2, UnchangedIsSame, NewIsNone DEF Early, Late, LateTurn

LEMMA PacketConsumedIsLate ==
    ASSUME FallbackInv, PacketConsumed
    PROVE  LateTurn
<1>1. /\ Descriptors /\ session # NoSession /\ UNCHANGED <<active, boot_type, fwd>>
      /\ DOMAIN session = DOMAIN NewSession /\ session.state = "image"
  BY Turn DEF PacketConsumed, tableVars
<1>2. /\ DOMAIN session' = DOMAIN NewSession /\ session'.state = "receive"
      /\ session'.trial = session.trial
  BY <1>1 DEF PacketConsumed, Continue, NewSession
<1> QED  BY <1>1, <1>2, UnchangedIsSame, NewIsNone DEF Early, Late, LateTurn

LEMMA DuplicateFsIsLate ==
    ASSUME FallbackInv, DuplicateFs
    PROVE  LateTurn
<1>1. /\ Descriptors /\ session # NoSession /\ UNCHANGED <<active, boot_type, fwd>>
      /\ DOMAIN session = DOMAIN NewSession /\ session.state = "duplicate_fs"
  BY Turn DEF DuplicateFs
<1>2. /\ DOMAIN session' = DOMAIN NewSession
      /\ session'.state \in {"duplicate_fs", "finish"}
      /\ session'.trial = session.trial
  BY <1>1 DEF DuplicateFs, Continue, Fail, NewSession
<1> QED  BY <1>1, <1>2, UnchangedIsSame, NewIsNone DEF Early, Late, LateTurn

\* The trial becomes valid; every firmware that was valid still is.
LEMMA FinishKeeps ==
    ASSUME FallbackInv, Finish
    PROVE  FallbackInv'
<1>1. /\ Descriptors /\ Confirmed /\ session.trial \in FwdIdx
      /\ session' = NoSession /\ packet' = NoPacket
  BY Turn DEF Finish, Reply, FallbackInv, SessionInv, Processing
<1>2. CASE UNCHANGED fwd
  BY <1>1, <1>2, UnchangedIsSame, SameTableConfirmed
     DEF FallbackInv, SessionInv, SameTable
<1>3. CASE fwd' = [fwd EXCEPT ![session.trial].status = "valid"]
  <2>1. Descriptors'
    BY <1>1, <1>3 DEF Descriptors
  <2>2. \A i \in FwdIdx : fwd'[i].rank = fwd[i].rank
    BY <1>1, <1>3 DEF Descriptors
  <2>3. \A i \in FwdIdx : Valid(fwd[i]) => Valid(fwd'[i])
    BY <1>1, <1>3 DEF Descriptors, Valid
  <2>4. Confirmed'
    BY <1>1, <2>2, <2>3, ConfirmedGrows
  <2> QED  BY <1>1, <2>1, <2>4 DEF FallbackInv, SessionInv
<1> QED  BY <1>2, <1>3 DEF Finish, WithStatus

\* The turns after the erasure.
LateAction ==
    \/ EraseSecondFs \/ PrepareFs
    \/ ReceiveData \/ ProcessConfigFile \/ ConfigWithoutBuffer
    \/ OpenImage \/ WriteImage \/ WriteWithoutHandle \/ PacketConsumed
    \/ DuplicateFs

\* Any of them is.
LEMMA LateActions ==
    ASSUME FallbackInv, LateAction
    PROVE  LateTurn
BY EraseSecondFsIsLate, PrepareFsIsLate, ReceiveDataIsLate,
   ProcessConfigFileIsLate, ConfigWithoutBufferIsLate, OpenImageIsLate,
   WriteImageIsLate, WriteWithoutHandleIsLate, PacketConsumedIsLate,
   DuplicateFsIsLate DEF LateAction

\* A turn of fw_upgrade_session_process keeps the invariant.
LEMMA ProcessKeeps ==
    ASSUME FallbackInv, Process
    PROVE  FallbackInv'
<1>1. Process => GetTrialInfo \/ EraseTrialFwd \/ LateAction \/ Finish
  BY DEF Process, LateAction
<1> QED  BY <1>1, GetTrialInfoKeeps, EraseTrialFwdKeeps, FinishKeeps,
            LateActions, LateStep

-----------------------------------------------------------------------------
(* FallbackInv: packets, commands and resets *)

\* A packet that goes on with an upload finds the trial descriptor erased, as
\* nothing moved upload_off before that.
LEMMA UploadIsLate ==
    ASSUME FallbackInv, NEW v, NEW off \in Nat, NEW n, Upload(v, off, n), off # 0
    PROVE  LateTurn
<1>1. /\ Descriptors /\ UNCHANGED <<fwd, active, boot_type>>
      /\ upload_off # 0 /\ session # NoSession
      /\ session' = [session EXCEPT !.buf_offset = 0]
  BY DEF Upload, tableVars, FallbackInv
<1>2. /\ DOMAIN session = DOMAIN NewSession
      /\ session.state \notin Early
  BY <1>1 DEF FallbackInv, SessionInv, Early
<1>3. /\ DOMAIN session' = DOMAIN NewSession /\ session'.state = session.state
      /\ session'.trial = session.trial
  BY <1>1, <1>2 DEF NewSession
<1> QED  BY <1>1, <1>2, <1>3, UnchangedIsSame, NewIsNone DEF Late, LateTurn

\* A request of the client keeps the invariant.
LEMMA UploadKeeps ==
    ASSUME FallbackInv, NEW v, NEW off \in Nat, NEW n, Upload(v, off, n)
    PROVE  FallbackInv'
<1>1. CASE off = 0
  <2>1. /\ session' = NewSession /\ upload_off' = 0
        /\ Descriptors /\ UNCHANGED <<fwd, active>>
    BY <1>1 DEF Upload, tableVars, FallbackInv
  <2>2. SameTable
    BY <2>1, UnchangedIsSame
  <2>3. Confirmed' /\ Descriptors'
    BY <2>2, SameTableConfirmed DEF FallbackInv, SameTable
  <2>4. session'.state = "get_trial"
    BY <2>1 DEF NewSession
  <2> QED  BY <2>1, <2>3, <2>4 DEF FallbackInv, SessionInv, NewSession, NoSession
<1>2. CASE off # 0
  BY <1>2, UploadIsLate, LateStep
<1> QED  BY <1>1, <1>2

\* Without a session and a packet the table is all there is to keep.
LEMMA NoSessionKeeps ==
    ASSUME Descriptors', Confirmed', session' = NoSession, packet' = NoPacket
    PROVE  FallbackInv'
BY DEF FallbackInv, SessionInv

\* A session that cannot be allocated keeps the invariant.
LEMMA UploadInitFailsKeeps ==
    ASSUME FallbackInv, UploadInitFails
    PROVE  FallbackInv'
<1>1. /\ Descriptors /\ Confirmed /\ UNCHANGED fwd
      /\ session' = NoSession /\ packet' = NoPacket
  BY DEF UploadInitFails, tableVars, FallbackInv
<1>2. SameTable
  BY <1>1, UnchangedIsSame
<1> QED  BY <1>1, <1>2, SameTableConfirmed, NoSessionKeeps DEF SameTable

\* A reset keeps the invariant: the boot loader boots a valid firmware.
LEMMA RestartKeeps ==
    ASSUME FallbackInv, Restart
    PROVE  FallbackInv'
<1>1. /\ Descriptors /\ Confirmed /\ UNCHANGED fwd
      /\ session' = NoSession /\ packet' = NoPacket
  BY DEF Restart, Boot, FallbackInv
<1>2. SameTable
  BY <1>1, UnchangedIsSame
<1> QED  BY <1>1, <1>2, SameTableConfirmed, NoSessionKeeps DEF SameTable

\* A command between packets that makes no firmware valid or golden.
LEMMA CommandKeeps ==
    ASSUME FallbackInv, packet = NoPacket, UNCHANGED <<active, session, packet>>,
           UNCHANGED upload_off, Descriptors', Confirmed',
           \A i \in FwdIdx : /\ fwd[i].status # "valid" => fwd'[i].status # "valid"
                             /\ fwd[i].rank # GOLDEN => fwd'[i].rank # GOLDEN
    PROVE  FallbackInv'
<1>1. 0 \in FwdIdx
  BY DEF FwdIdx, MaxFwd
<1>2. CASE session = NoSession
  BY <1>2 DEF FallbackInv, SessionInv
<1>3. CASE session # NoSession
  <2>1. /\ DOMAIN session = DOMAIN NewSession
        /\ session.state \in {"get_trial", "erase_fwd"} => upload_off = 0
    BY <1>3 DEF FallbackInv, SessionInv
  <2>2. CASE session.state = "get_trial"
    BY <2>1, <2>2 DEF FallbackInv, SessionInv
  <2>3. CASE session.state # "get_trial"
    <3>1. /\ session.trial \in FwdIdx \ {active}
          /\ fwd'[0].rank = GOLDEN => session.trial # 0
      BY <1>1, <1>3, <2>3 DEF FallbackInv, SessionInv
    <3>2. TrialIsFree'
      BY <1>3, <2>3, <3>1 DEF FallbackInv, SessionInv, TrialIsFree
    <3> QED  BY <2>1, <3>1, <3>2 DEF FallbackInv, SessionInv
  <2> QED  BY <2>2, <2>3
<1> QED  BY <1>2, <1>3

\* Between its two writes an acceptance has two ranked firmwares; after them
\* the trial is the ranked one.
LEMMA AcceptKeeps ==
    ASSUME FallbackInv, Accept
    PROVE  FallbackInv'
<1>1. PICK n \in 0 .. 2 : AcceptTrialFwd(n)
  BY DEF Accept
<1>2. /\ packet = NoPacket /\ UNCHANGED <<active, session, packet, upload_off>>
      /\ Descriptors /\ Confirmed /\ HasTrial
  BY <1>1 DEF Accept, AcceptTrialFwd, FallbackInv
<1> DEFINE t == TrialFwd  c == CurrentFwd  r == BiggestRank + 1
<1>3. t \in Searched /\ Valid(fwd[t]) /\ fwd[t].rank = TRIAL /\ t \in FwdIdx
  BY <1>2, TrialIsTrial DEF TrialFwds, Searched, FwdIdx, MaxFwd
<1>4. /\ c \in FwdIdx /\ Valid(fwd[c]) /\ c # t
      /\ fwd[0].rank # GOLDEN => c \in RankedFwds
      /\ c = 0 \/ c \in RankedFwds
  <2>1. c \in RankedFwds => c # t
    BY <1>3 DEF RankedFwds, TRIAL
  <2>2. fwd[0].rank = GOLDEN => t # 0
    BY <1>2, <1>3 DEF TRIAL, GOLDEN
  <2> QED  BY <1>2, <2>1, <2>2, CurrentIsConfirmed
<1>5. r \in Nat \ {0}
  BY <1>2, NextRank
<1> HIDE DEF t, c, r
<1>6. CASE n = 0
  <2>1. UNCHANGED fwd
    BY <1>1, <1>6 DEF AcceptTrialFwd, AcceptWrites
  <2>2. SameTable
    BY <1>2, <2>1, UnchangedIsSame
  <2> QED  BY <1>2, <2>1, <2>2, SameTableConfirmed, CommandKeeps DEF SameTable
<1>7. CASE n # 0
  <2>1. \/ fwd' = [fwd EXCEPT ![t].rank = r]
        \/ /\ FwdNum = 2 \/ c # 0
           /\ fwd' = [fwd EXCEPT ![t].rank = r, ![c].status = "invalid"]
    <3>1. n \in {1, 2}
      BY <1>7
    <3> QED  BY <1>1, <3>1 DEF AcceptTrialFwd, AcceptWrites, WithRank,
                                        WithStatus, t, c, r
  <2>2. /\ fwd'[t].rank = r /\ Valid(fwd'[t])
        /\ DOMAIN fwd' = FwdIdx
        /\ \A i \in FwdIdx \ {t} : fwd'[i].rank = fwd[i].rank
    BY <1>2, <1>3, <1>4, <2>1 DEF Descriptors, Valid
  <2>3. \A i \in FwdIdx : fwd[i].status # "valid" => fwd'[i].status # "valid"
    BY <1>2, <1>3, <1>4, <2>1 DEF Descriptors
  <2>4. Descriptors'
    BY <1>2, <1>3, <1>4, <1>5, <2>1 DEF Descriptors
  <2>5. \A i \in FwdIdx : fwd[i].rank # GOLDEN => fwd'[i].rank # GOLDEN
    BY <1>5, <2>2 DEF GOLDEN
  <2>6. Confirmed'
    <3>1. 0 \in FwdIdx
      BY DEF FwdIdx, MaxFwd
    <3>2. CASE Valid(fwd[0]) /\ fwd[0].rank = GOLDEN
      <4>1. t # 0
        BY <1>3, <3>2 DEF TRIAL, GOLDEN
      <4>2. FwdNum = 3
        BY <3>2 DEF FwdNum, Valid
      <4>3. Valid(fwd'[0])
        BY <1>2, <1>3, <1>4, <2>1, <3>1, <3>2, <4>1, <4>2 DEF Descriptors, Valid
      <4> QED  BY <2>2, <3>1, <3>2, <4>1, <4>3 DEF Confirmed
    <3>3. CASE \A i \in FwdIdx : fwd[i].rank # GOLDEN
      <4>1. \A i \in FwdIdx : fwd'[i].rank # GOLDEN
        BY <2>5, <3>3
      <4>2. Searched = {0, 1} /\ Searched' = {0, 1}
        BY <3>1, <3>3, <4>1 DEF Searched, FwdNum
      <4>3. t \in RankedFwds'
        BY <1>3, <1>5, <2>2, <4>2 DEF RankedFwds
      <4> QED  BY <4>1, <4>3 DEF Confirmed
    <3> QED  BY <1>2, <3>2, <3>3 DEF Confirmed
  <2> QED  BY <1>2, <2>3, <2>4, <2>5, <2>6, CommandKeeps
<1> QED  BY <1>6, <1>7

\* A rejection keeps the invariant.
LEMMA RejectKeeps ==
    ASSUME FallbackInv, Reject
    PROVE  FallbackInv'
<1>1. PICK n \in 0 .. 2 : RejectTrialFwd(n)
  BY DEF Reject
<1>2. /\ packet = NoPacket /\ UNCHANGED <<active, session, packet, upload_off>>
      /\ Descriptors /\ Confirmed /\ HasTrial
  BY <1>1 DEF Reject, RejectTrialFwd, FallbackInv
<1> DEFINE t == TrialFwd
<1>3. t \in Searched /\ fwd[t].rank = TRIAL /\ t \in FwdIdx
  BY <1>2, TrialIsTrial DEF TrialFwds, Searched, FwdIdx, MaxFwd
<1> HIDE DEF t
<1>4. \/ UNCHANGED fwd
      \/ fwd' = [fwd EXCEPT ![t].status = "invalid"]
      \/ fwd' = [fwd EXCEPT ![t].status = "invalid", ![t].rank = 1]
  BY <1>1 DEF RejectTrialFwd, RejectWrites, WithStatus, WithRank, t
<1>5. /\ Descriptors'
      /\ \A i \in FwdIdx \ {t} : fwd'[i] = fwd[i]
      /\ \A i \in FwdIdx : fwd[i].status # "valid" => fwd'[i].status # "valid"
      /\ fwd'[t].rank # GOLDEN
  BY <1>2, <1>3, <1>4 DEF Descriptors, TRIAL, GOLDEN
<1>6. Confirmed'
  <2>2. CASE Valid(fwd[0]) /\ fwd[0].rank = GOLDEN
    <3>1. fwd'[0] = fwd[0]
      BY <1>3, <1>5, <2>2 DEF TRIAL, GOLDEN, FwdIdx, MaxFwd
    <3> QED  BY <2>2, <3>1 DEF Confirmed
  <2>3. CASE (\A i \in FwdIdx : fwd[i].rank # GOLDEN) /\ RankedFwds # {}
    <3>1. \A i \in FwdIdx : fwd'[i].rank # GOLDEN
      BY <1>5, <2>3
    <3>2. Searched = {0, 1} /\ Searched' = {0, 1} /\ {0, 1} \subseteq FwdIdx
      BY <2>3, <3>1 DEF Searched, FwdNum, FwdIdx, MaxFwd
    <3>3. RankedFwds \subseteq RankedFwds'
      BY <1>3, <1>5, <3>2 DEF RankedFwds, TRIAL
    <3> QED  BY <2>3, <3>1, <3>3 DEF Confirmed
  <2> QED  BY <1>2, <2>2, <2>3 DEF Confirmed
<1> QED  BY <1>2, <1>5, <1>6, CommandKeeps

\* The erase command of a careful operator.
LEMMA EraseSlotKeeps ==
    ASSUME CarefulErase, FallbackInv, EraseSlot
    PROVE  FallbackInv'
<1>1. /\ Descriptors /\ Confirmed /\ EraseFwd(1)
      /\ 1 # CurrentFwd /\ 1 \in FwdIdx
      /\ session' = NoSession /\ packet' = NoPacket
  BY DEF EraseSlot, FallbackInv, FwdIdx, MaxFwd
<1> QED  BY <1>1, Erasing, EraseKeepsConfirmed, NoSessionKeeps

\* The factory's table has a confirmed firmware.
LEMMA InitImpliesInv == Init => FallbackInv
<1> SUFFICES ASSUME Init PROVE FallbackInv
  OBVIOUS
<1>1. PICK r \in {GOLDEN, 1} :
        fwd = [i \in FwdIdx |->
                 IF i = 0
                 THEN [magic |-> TRUE, total |-> TRUE, rank |-> r,
                       status |-> "valid", entries |-> FactoryEntries]
                 ELSE ErasedFwd]
  BY DEF Init, TableInit
<1>2. /\ Valid(fwd[0]) /\ fwd[0].rank = r
      /\ \A i \in FwdIdx \ {0} : fwd[i].rank = TRIAL
      /\ 0 \in FwdIdx
  BY <1>1 DEF Valid, ErasedFwd, FwdIdx, MaxFwd
<1>3. Descriptors
  BY <1>1 DEF Descriptors, ErasedFwd, TRIAL, GOLDEN
<1>4. Confirmed
  <2>1. CASE r = GOLDEN
    BY <1>2, <2>1 DEF Confirmed
  <2>2. CASE r = 1
    <3>1. \A i \in FwdIdx : fwd[i].rank # GOLDEN
      BY <1>2, <2>2 DEF TRIAL, GOLDEN
    <3>2. 0 \in RankedFwds
      BY <1>2, <2>2, <3>1 DEF RankedFwds, Searched, FwdNum
    <3> QED  BY <3>1, <3>2 DEF Confirmed
  <2> QED  BY <2>1, <2>2
<1> QED  BY <1>3, <1>4 DEF Init, FallbackInv, SessionInv

\* Every step keeps the invariant.
LEMMA FallbackNext ==
    ASSUME CarefulErase, FallbackInv, [Next]_vars
    PROVE  FallbackInv'
<1>1. ASSUME NEW v \in Version, NEW off \in 0 .. FileLen - 1,
             NEW n \in PacketLen, Upload(v, off, n)
      PROVE  FallbackInv'
  <2>1. off \in Nat
    OBVIOUS
  <2> QED  BY <1>1, <2>1, UploadKeeps
<1>2. CASE UploadInitFails
  BY <1>2, UploadInitFailsKeeps
<1>3. CASE Process
  BY <1>3, ProcessKeeps
<1>4. CASE Accept
  BY <1>4, AcceptKeeps
<1>5. CASE Reject
  BY <1>5, RejectKeeps
<1>6. CASE EraseSlot
  BY <1>6, EraseSlotKeeps
<1>7. CASE Restart
  BY <1>7, RestartKeeps
<1>8. CASE UNCHANGED vars
  <2>1. UNCHANGED <<fwd, active, session, packet, upload_off>>
    BY <1>8 DEF vars, tableVars
  <2>2. /\ UNCHANGED <<Descriptors, RankedFwds, CurrentFwd>>
    BY <2>1 DEF Descriptors, RankedFwds, CurrentFwd, Searched, FwdNum, Valid
  <2> QED  BY <2>1, <2>2
             DEF FallbackInv, Confirmed, SessionInv, TrialIsFree, Valid
<1> QED  BY <1>1, <1>2, <1>3, <1>4, <1>5, <1>6, <1>7, <1>8 DEF Next

-----------------------------------------------------------------------------
(* FallbackKept *)

\* Whatever packets arrive and whatever write fails or is cut off by a reset,
\* there is a confirmed firmware the boot loader accepts, and no upload works
\* on it or on the one that runs (fw_upgrade_select_trial_fwd,
\* fw_upgrade_accept_trial_fwd, TRIAL_IS_RUNNING), if the erase command is
\* used with care.
THEOREM FallbackKeptHolds ==
    ASSUME CarefulErase
    PROVE  Spec => []FallbackKept
<1>1. FallbackInv /\ [Next]_vars => FallbackInv'
  BY FallbackNext
<1> QED  BY <1>1, InitImpliesInv, InvImpliesFallbackKept, PTL DEF Spec

-----------------------------------------------------------------------------
(* Least numbers, images and the disk they take *)

\* A set of naturals has a least element: what stands in for induction below.
LEMMA LeastNat ==
    ASSUME NEW T, T \subseteq Nat, T # {}
    PROVE  \E n \in T : \A m \in T : n <= m
<1> DEFINE R == OpToRel(<, Nat)
<1>1. IsWellFoundedOn(R, Nat)
  BY NatLessThanWellFounded
<1>2. R = {ss \in Nat \X Nat : ss[1] < ss[2]}
  BY DEF OpToRel
<1> HIDE DEF R
<1>3. \E x \in T : \A y \in T : ~ (<<y, x>> \in R)
  BY <1>1, WFMin
<1>4. \A x, y \in Nat : <<y, x>> \in R <=> y < x
  BY <1>2
<1>5. PICK n \in T : \A y \in T : ~ (<<y, n>> \in R)
  BY <1>3
<1>6. \A m \in T : n <= m
  <2> TAKE m \in T
  <2>1. m \in Nat /\ n \in Nat
    OBVIOUS
  <2>2. ~ (m < n)
    BY <1>4, <1>5, <2>1
  <2> QED  BY <2>1, <2>2
<1> QED  BY <1>6

\* The search for the end of a set finds it.
LEMMA LargestIsLargest ==
    ASSUME NEW S, NEW m \in Nat, S \subseteq 0 .. m, S # {}
    PROVE  /\ Largest(S) \in S
           /\ \A y \in S : y <= Largest(S)
<1> DEFINE T == {m - x : x \in S}
<1>1. T \subseteq Nat /\ T # {}
  OBVIOUS
<1>2. PICK n \in T : \A k \in T : n <= k
  BY <1>1, LeastNat
<1>3. PICK x \in S : n = m - x
  BY <1>2
<1>4. \A y \in S : y <= x
  <2> TAKE y \in S
  <2>1. m - x <= m - y
    BY <1>2, <1>3
  <2> QED  BY <2>1
<1>5. \E z \in S : \A y \in S : y <= z
  BY <1>3, <1>4
<1> QED  BY <1>5 DEF Largest

\* A larger block begins at a larger unit.
LEMMA BlocksInOrder ==
    ASSUME NEW a \in Int, NEW b \in Int, a <= b
    PROVE  a * BlockUnits <= b * BlockUnits
BY FlashAssumption

\* The header's images, by the assumption on them.
LEMMA ImagesTyped ==
    /\ NImages \in Nat \ {0}
    /\ DOMAIN Images = 1 .. NImages
    /\ \A j \in 1 .. NImages :
         /\ Images[j].id \in Nat /\ Images[j].pos \in Nat
         /\ Images[j].len \in Nat /\ Images[j].disk \in Nat \ {0}
<1> DEFINE R == [id : Nat, pos : Nat, len : Nat, disk : Nat \ {0}]
<1>1. Images \in Seq(R)
  BY UpgradeAssumption
<1>2. \A j \in 1 .. NImages : Images[j] \in R
  <2> HIDE DEF R
  <2> QED  BY <1>1 DEF NImages
<1>3. Len(Images) \in Nat /\ DOMAIN Images = 1 .. Len(Images)
  <2> HIDE DEF R
  <2> QED  BY <1>1
<1>4. NImages > 0
  BY UpgradeAssumption
<1> QED  BY <1>2, <1>3, <1>4 DEF NImages

\* The images follow one another, so each ends within the file.
LEMMA ImagesWithinFile ==
    /\ FileLen \in Nat \ {0}
    /\ HeaderLen <= FileLen
    /\ \A j \in 1 .. NImages :
         /\ HeaderLen <= Images[j].pos
         /\ Images[j].pos + Images[j].len <= FileLen
<1>1. /\ NImages \in Nat \ {0} /\ HeaderLen \in Nat \ {0}
      /\ \A j \in 1 .. NImages : Images[j].pos \in Nat /\ Images[j].len \in Nat
      /\ DOMAIN Images = 1 .. NImages
  BY ImagesTyped, UpgradeAssumption
<1>2. \A j \in 1 .. NImages :
         Images[j].pos = IF j = 1 THEN HeaderLen
                         ELSE Images[j - 1].pos + Images[j - 1].len
  BY <1>1, UpgradeAssumption
<1>3. ASSUME NEW j \in 1 .. NImages, ~ (Images[j].pos + Images[j].len <= FileLen)
      PROVE  FALSE
  <2> DEFINE T == {m \in 0 .. NImages - 1 :
                     ~ (Images[NImages - m].pos + Images[NImages - m].len
                          <= FileLen)}
  <2>1. NImages - j \in 0 .. NImages - 1 /\ NImages - (NImages - j) = j
    BY <1>1
  <2>2. NImages - j \in T
    BY <1>3, <2>1
  <2>3. T \subseteq Nat /\ T # {}
    BY <1>1, <2>2
  <2>4. PICK m \in T : \A k \in T : m <= k
    BY <2>3, LeastNat
  <2>5. m # 0
    BY <1>1, <2>4 DEF FileLen
  <2>6. m - 1 \in 0 .. NImages - 1 /\ ~ (m <= m - 1)
    BY <1>1, <2>4, <2>5
  <2>7. m - 1 \notin T
    BY <2>4, <2>6
  <2> DEFINE i == NImages - (m - 1)
  <2>8. Images[i].pos + Images[i].len <= FileLen
    BY <2>6, <2>7
  <2>9. i \in 2 .. NImages /\ i - 1 = NImages - m
    BY <1>1, <2>4, <2>5
  <2> HIDE DEF i
  <2>10. Images[i].pos = Images[i - 1].pos + Images[i - 1].len
    BY <1>2, <2>9
  <2>11. Images[i].pos \in Nat /\ Images[i].len \in Nat
    BY <1>1, <2>9
  <2>12. FileLen \in Nat
    BY <1>1 DEF FileLen
  <2>13. Images[i - 1].pos + Images[i - 1].len <= FileLen
    BY <2>8, <2>10, <2>11, <2>12
  <2> QED  BY <2>4, <2>9, <2>13
<1>4. ASSUME NEW j \in 1 .. NImages, ~ (HeaderLen <= Images[j].pos)
      PROVE  FALSE
  <2> DEFINE T == {i \in 1 .. NImages : ~ (HeaderLen <= Images[i].pos)}
  <2>1. T \subseteq Nat /\ T # {}
    BY <1>1, <1>4, SMTT(20)
  <2>2. PICK i \in T : \A k \in T : i <= k
    BY <2>1, LeastNat
  <2>3. i # 1
    BY <1>1, <1>2, <2>2
  <2>4. i - 1 \in 1 .. NImages /\ ~ (i <= i - 1)
    BY <1>1, <2>2, <2>3
  <2>5. i - 1 \notin T
    BY <2>2, <2>4
  <2>6. HeaderLen <= Images[i - 1].pos
    BY <2>4, <2>5
  <2>7. Images[i].pos = Images[i - 1].pos + Images[i - 1].len
    BY <1>2, <2>2, <2>3
  <2>8. Images[i - 1].pos \in Nat /\ Images[i - 1].len \in Nat
    BY <1>1, <2>4
  <2>9. HeaderLen <= Images[i].pos
    BY <1>1, <2>6, <2>7, <2>8
  <2> QED  BY <2>2, <2>9
<1>5. FileLen \in Nat
  BY <1>1 DEF FileLen
<1>6. HeaderLen <= FileLen
  <2>1. NImages \in 1 .. NImages
    BY <1>1
  <2>2. HeaderLen <= Images[NImages].pos
    BY <1>4, <2>1
  <2> QED  BY <1>1, <2>1, <2>2 DEF FileLen
<1> QED  BY <1>1, <1>3, <1>4, <1>5, <1>6

\* What image j adds to DiskBefore.
Reserved(j) == IF Images[j].id \in {FS1, FS2} THEN 0 ELSE Images[j].disk

\* The recursive definition of DiskBefore has a solution.
LEMMA DiskBeforeEquations ==
    /\ DiskBefore \in [0 .. NImages -> Nat]
    /\ DiskBefore[0] = 0
    /\ \A j \in 1 .. NImages : DiskBefore[j] = DiskBefore[j - 1] + Reserved(j)
<1> DEFINE Sum(g, j) == IF j = 0 THEN 0 ELSE g[j - 1] + Reserved(j)
           Upto(n) == \E g \in [0 .. n -> Nat] : \A j \in 0 .. n : g[j] = Sum(g, j)
<1>1. NImages \in Nat /\ \A j \in 1 .. NImages : Reserved(j) \in Nat
  BY ImagesTyped DEF Reserved
<1>2. Upto(0)
  <2>1. [j \in 0 .. 0 |-> 0] \in [0 .. 0 -> Nat]
    OBVIOUS
  <2>2. \A j \in 0 .. 0 : [i \in 0 .. 0 |-> 0][j] = 0 /\ j = 0
    OBVIOUS
  <2> QED  BY <2>1, <2>2
<1>3. ASSUME NEW n \in 0 .. NImages - 1, Upto(n)
      PROVE  Upto(n + 1)
  <2>1. PICK g \in [0 .. n -> Nat] : \A j \in 0 .. n : g[j] = Sum(g, j)
    BY <1>3
  <2> DEFINE h == [j \in 0 .. n + 1 |->
                     IF j = n + 1 THEN g[n] + Reserved(n + 1) ELSE g[j]]
  <2>2. n \in Nat /\ n + 1 \in 1 .. NImages /\ n \in 0 .. n
    BY <1>1
  <2>3. \A j \in 0 .. n + 1 : j # n + 1 => j \in 0 .. n
    BY <2>2
  <2>4. h \in [0 .. n + 1 -> Nat]
    <3>1. g[n] + Reserved(n + 1) \in Nat
      BY <1>1, <2>2
    <3> QED  BY <2>3, <3>1
  <2>5. ASSUME NEW j \in 0 .. n + 1
        PROVE  h[j] = Sum(h, j)
    <3>1. CASE j = n + 1
      <4>1. h[j] = g[n] + Reserved(n + 1)
        BY <3>1
      <4>2. h[n] = g[n]
        BY <2>2
      <4>3. j # 0 /\ j - 1 = n
        BY <2>2, <3>1
      <4> HIDE DEF h
      <4> QED  BY <3>1, <4>1, <4>2, <4>3
    <3>2. CASE j # n + 1 /\ j # 0
      <4>1. j \in 0 .. n /\ j - 1 \in 0 .. n /\ j - 1 \in 0 .. n + 1
        BY <2>2, <2>3, <3>2
      <4>2. h[j] = g[j] /\ h[j - 1] = g[j - 1]
        BY <2>2, <4>1, <3>2
      <4> HIDE DEF h
      <4> QED  BY <2>1, <3>2, <4>1, <4>2
    <3>3. CASE j = 0
      <4>1. 0 \in 0 .. n /\ h[0] = g[0]
        BY <2>2
      <4> HIDE DEF h
      <4> QED  BY <2>1, <3>3, <4>1
    <3> QED  BY <3>1, <3>2, <3>3
  <2> HIDE DEF h
  <2> QED  BY <2>4, <2>5
<1>4. Upto(NImages)
  <2> DEFINE T == {n \in 0 .. NImages : ~ Upto(n)}
  <2> HIDE DEF Upto
  <2>1. ASSUME T # {}
        PROVE  FALSE
    <3>1. T \subseteq Nat
      BY <1>1
    <3>2. PICK n \in T : \A k \in T : n <= k
      BY <2>1, <3>1, LeastNat
    <3>3. n # 0
      BY <1>2, <3>2
    <3>4. n - 1 \in 0 .. NImages - 1 /\ ~ (n <= n - 1) /\ n - 1 \in 0 .. NImages
      BY <1>1, <3>2, <3>3
    <3>5. Upto(n - 1)
      BY <3>2, <3>4
    <3>6. Upto((n - 1) + 1)
      BY <1>3, <3>4, <3>5
    <3>7. (n - 1) + 1 = n
      BY <3>4, <3>2
    <3> QED  BY <3>2, <3>6, <3>7
  <2> QED  BY <1>1, <2>1
<1>5. PICK g \in [0 .. NImages -> Nat] : \A j \in 0 .. NImages : g[j] = Sum(g, j)
  BY <1>4
<1>6. g = [j \in 0 .. NImages |-> Sum(g, j)]
  BY <1>5
<1>7. DiskBefore = [j \in 0 .. NImages |-> Sum(DiskBefore, j)]
  BY <1>6 DEF DiskBefore, Reserved
<1>8. \A j \in 0 .. NImages : DiskBefore[j] = Sum(DiskBefore, j)
  BY <1>7
<1>9. \A j \in 1 .. NImages : j # 0 /\ j \in 0 .. NImages
  BY <1>1
<1>10. /\ DiskBefore[0] = 0
       /\ \A j \in 1 .. NImages : DiskBefore[j] = DiskBefore[j - 1] + Reserved(j)
  BY <1>1, <1>8, <1>9
<1>11. \A j \in 0 .. NImages : DiskBefore[j] \in Nat
  <2> DEFINE T == {j \in 0 .. NImages : DiskBefore[j] \notin Nat}
  <2>1. ASSUME T # {}
        PROVE  FALSE
    <3>1. T \subseteq Nat
      BY <1>1
    <3>2. PICK n \in T : \A k \in T : n <= k
      BY <2>1, <3>1, LeastNat
    <3>3. n # 0
      BY <1>10, <3>2
    <3>4. n - 1 \in 0 .. NImages /\ ~ (n <= n - 1) /\ n \in 1 .. NImages
      BY <1>1, <3>2, <3>3
    <3>5. DiskBefore[n - 1] \in Nat
      BY <3>2, <3>4
    <3> QED  BY <1>1, <1>10, <3>2, <3>4, <3>5
  <2> QED  BY <2>1
<1>12. DiskBefore \in [0 .. NImages -> Nat]
  BY <1>7, <1>11
<1> QED  BY <1>10, <1>12

\* More images take at least as many blocks.
LEMMA DiskBeforeGrows ==
    ASSUME NEW i \in 0 .. NImages, NEW j \in 0 .. NImages, i <= j
    PROVE  DiskBefore[i] <= DiskBefore[j]
<1>1. NImages \in Nat /\ \A k \in 1 .. NImages : Reserved(k) \in Nat
  BY ImagesTyped DEF Reserved
<1> DEFINE T == {k \in i .. j : ~ (DiskBefore[i] <= DiskBefore[k])}
<1>2. ASSUME T # {}
      PROVE  FALSE
  <2>1. T \subseteq Nat
    BY <1>1
  <2>2. PICK n \in T : \A k \in T : n <= k
    BY <1>2, <2>1, LeastNat
  <2>3. n # i
    BY <2>2, DiskBeforeEquations
  <2>4. n - 1 \in i .. j /\ ~ (n <= n - 1) /\ n \in 1 .. NImages
    BY <1>1, <2>2, <2>3
  <2>5. DiskBefore[i] <= DiskBefore[n - 1]
    BY <2>2, <2>4
  <2>6. DiskBefore[n] = DiskBefore[n - 1] + Reserved(n)
    BY <2>4, DiskBeforeEquations
  <2>7. DiskBefore[i] \in Nat /\ DiskBefore[n - 1] \in Nat /\ Reserved(n) \in Nat
    BY <1>1, <2>4, DiskBeforeEquations
  <2>8. DiskBefore[i] <= DiskBefore[n]
    BY <2>5, <2>6, <2>7
  <2> QED  BY <2>2, <2>8
<1> QED  BY <1>2

-----------------------------------------------------------------------------
(* TableInv: which descriptor is chosen *)

\* The three descriptors.
LEMMA Indices == FwdIdx = {0, 1, 2} /\ 0 \in FwdIdx /\ 1 \in FwdIdx /\ 2 \in FwdIdx
BY DEF FwdIdx, MaxFwd

\* The number of descriptors depends on the first one's rank alone.
LEMMA SearchedWhich ==
    ASSUME Confirmed
    PROVE  /\ Golden => FwdNum = 3 /\ Searched = {1, 2} /\ Valid(fwd[0])
           /\ ~ Golden => FwdNum = 2 /\ Searched = {0, 1}
<1>1. Golden => FwdNum = 3 /\ Valid(fwd[0])
  BY Indices DEF Confirmed, Golden, FwdNum, Valid
<1>2. ~ Golden => FwdNum = 2
  BY DEF Golden, FwdNum
<1> QED  BY <1>1, <1>2 DEF Searched

\* The search for the current firmware prefers a high rank and a low index.
LEMMA CurrentIsFirst ==
    ASSUME Descriptors, RankedFwds # {}
    PROVE  /\ CurrentFwd \in RankedFwds
           /\ \A j \in RankedFwds :
                \/ fwd[j].rank < fwd[CurrentFwd].rank
                \/ fwd[j].rank = fwd[CurrentFwd].rank /\ CurrentFwd <= j
<1> DEFINE Before(i, j) == \/ fwd[j].rank < fwd[i].rank
                           \/ fwd[j].rank = fwd[i].rank /\ i <= j
<1>1. PICK a \in {0, 1} : RankedFwds \subseteq {a, a + 1}
  BY DEF RankedFwds, Searched
<1>2. \A i \in {a, a + 1} : fwd[i].rank \in Int
  BY <1>1 DEF Descriptors, FwdIdx, MaxFwd
<1>3. \A i, j \in {a, a + 1} : Before(i, i) /\ (Before(i, j) \/ Before(j, i))
  BY <1>2
<1>4. \E i \in RankedFwds : \A j \in RankedFwds : Before(i, j)
  <2> HIDE DEF Before
  <2>1. CASE RankedFwds = {a, a + 1}
    <3>1. CASE Before(a, a + 1)
      BY <1>3, <2>1, <3>1
    <3>2. CASE Before(a + 1, a)
      BY <1>3, <2>1, <3>2
    <3> QED  BY <1>3, <3>1, <3>2
  <2>2. CASE RankedFwds # {a, a + 1}
    <3>1. PICK i : RankedFwds = {i} /\ i \in {a, a + 1}
      BY <1>1, <2>2
    <3> QED  BY <1>3, <3>1
  <2> QED  BY <2>1, <2>2
<1> QED  BY <1>4 DEF CurrentFwd

\* Where the current firmware and the next trial can be.
LEMMA Choices ==
    ASSUME Descriptors, Confirmed
    PROVE  /\ CurrentFwd \in FwdIdx /\ TrialIdx \in Searched
           /\ TrialIdx \in FwdIdx /\ TrialIdx # CurrentFwd
           /\ CurrentFwd = 0 \/ CurrentFwd \in RankedFwds
           /\ ~ Golden => CurrentFwd \in RankedFwds
                          /\ {CurrentFwd, TrialIdx} = {0, 1}
           /\ Golden => TrialIdx # 0
           /\ Golden /\ CurrentFwd = 0 => RankedFwds = {} /\ TrialIdx = 1
           /\ Golden /\ CurrentFwd # 0 => {CurrentFwd, TrialIdx} = {1, 2}
           /\ Valid(fwd[CurrentFwd])
<1>1. /\ CurrentFwd \in FwdIdx
      /\ Valid(fwd[CurrentFwd])
      /\ CurrentFwd = 0 \/ CurrentFwd \in RankedFwds
      /\ ~ Golden => CurrentFwd \in RankedFwds
  BY CurrentIsConfirmed DEF Golden
<1>2. CASE Golden
  <2>1. FwdNum = 3 /\ Searched = {1, 2}
    BY <1>2, SearchedWhich
  <2>2. CurrentFwd = 0 => RankedFwds = {}
    <3>1. CurrentFwd = 0 => CurrentFwd \notin RankedFwds
      BY <2>1 DEF RankedFwds
    <3> QED  BY <3>1, CurrentIsRanked
  <2>3. CurrentFwd # 0 => CurrentFwd \in {1, 2}
    BY <1>1, <2>1 DEF RankedFwds
  <2> QED  BY <1>1, <1>2, <2>1, <2>2, <2>3, Indices DEF TrialIdx
<1>3. CASE ~ Golden
  <2>1. FwdNum = 2 /\ Searched = {0, 1}
    BY <1>3, SearchedWhich
  <2>2. CurrentFwd \in {0, 1}
    BY <1>1, <1>3, <2>1 DEF RankedFwds
  <2> QED  BY <1>1, <1>3, <2>1, <2>2, Indices DEF TrialIdx
<1> QED  BY <1>2, <1>3

\* A valid firmware is the current one, the one in the trial's place, golden,
\* or of two ranked ones the older.
LEMMA ValidOnes ==
    ASSUME Descriptors, Confirmed, TableInv
    PROVE  /\ \A i \in FwdIdx : Valid(fwd[i]) =>
                \/ i \in {CurrentFwd, TrialIdx}
                \/ Golden /\ i = 0
           /\ TrialFwds \subseteq {TrialIdx}
           /\ HasTrial => TrialFwds = {TrialIdx} /\ TrialFwd = TrialIdx
<1>1. \A i \in FwdIdx : Valid(fwd[i]) =>
        \/ i \in {CurrentFwd, TrialIdx}
        \/ Golden /\ i = 0
  BY Choices, Indices DEF TableInv
<1>2. TrialFwds \subseteq {TrialIdx}
  <2> SUFFICES ASSUME NEW i \in TrialFwds PROVE i = TrialIdx
    OBVIOUS
  <2>1. i \in Searched /\ Valid(fwd[i]) /\ fwd[i].rank = TRIAL
    BY DEF TrialFwds
  <2>2. i \in FwdIdx /\ (Golden => i # 0)
    BY <2>1, SearchedWhich, Indices
  <2>3. i # CurrentFwd
    <3>1. i \notin RankedFwds
      BY <2>1 DEF RankedFwds, TRIAL
    <3> QED  BY <2>2, <3>1, Choices
  <2> QED  BY <1>1, <2>1, <2>2, <2>3
<1>3. HasTrial => TrialFwds = {TrialIdx}
  BY <1>2 DEF HasTrial
<1>4. HasTrial => TrialFwd \in TrialFwds
  BY TrialIsTrial
<1> QED  BY <1>1, <1>2, <1>3, <1>4

\* Past the erasure of the trial descriptor no firmware waits for its trial,
\* and the one that runs is the current one.
LEMMA LateTable ==
    ASSUME FallbackInv, TableInv, Late
    PROVE  /\ TrialFwds = {} /\ ~ HasTrial
           /\ session.trial = TrialIdx /\ active = CurrentFwd
           /\ session.trial # active /\ session.trial \in FwdIdx
           /\ active \in FwdIdx
           /\ ~ Valid(fwd[session.trial])
           /\ fwd[session.trial].rank = TRIAL
<1>1. Chosen
  BY DEF Late, Chosen, Early
<1>2. /\ Descriptors /\ Confirmed /\ session.trial = TrialIdx
      /\ active \in {CurrentFwd, TrialIdx}
  BY <1>1 DEF FallbackInv, TableInv
<1>3. session.trial \in FwdIdx \ {active} /\ fwd[session.trial].status # "valid"
  BY DEF FallbackInv, SessionInv, Late, Early, TrialIsFree
<1>4. ~ Valid(fwd[session.trial])
  BY <1>3 DEF Valid
<1>5. TrialFwds = {}
  <2>1. TrialFwds \subseteq {session.trial}
    BY <1>2, ValidOnes
  <2>2. session.trial \notin TrialFwds
    BY <1>4 DEF TrialFwds
  <2> QED  BY <2>1, <2>2
<1> QED  BY <1>2, <1>3, <1>4, <1>5, Choices DEF HasTrial, TableInv

\* CurrentIsOnly, for a table whose ranked firmwares are S.
LEMMA BestIsOnly ==
    ASSUME NEW S, S \subseteq Int, NEW r, \A i \in S : r[i] \in Int,
           NEW c \in S,
           \A j \in S : r[j] < r[c] \/ (r[j] = r[c] /\ c <= j)
    PROVE  (CHOOSE i \in S : \A j \in S :
               r[j] < r[i] \/ (r[j] = r[i] /\ i <= j)) = c
<1>1. ASSUME NEW d \in S,
             \A j \in S : r[j] < r[d] \/ (r[j] = r[d] /\ d <= j)
      PROVE  d = c
  <2>1. c \in Int /\ d \in Int /\ r[c] \in Int /\ r[d] \in Int
    OBVIOUS
  <2> QED  BY <1>1, <2>1
<1> DEFINE d == CHOOSE i \in S : \A j \in S :
               r[j] < r[i] \/ (r[j] = r[i] /\ i <= j)
<1>2. d \in S /\ \A j \in S : r[j] < r[d] \/ (r[j] = r[d] /\ d <= j)
  OBVIOUS
<1> HIDE DEF d
<1> QED  BY <1>1, <1>2

\* So the search after a step finds a firmware that is best then.
LEMMA CurrentNext ==
    ASSUME NEW c \in RankedFwds', RankedFwds' \subseteq FwdIdx,
           \A j \in RankedFwds' : fwd'[j].rank \in Int,
           \A j \in RankedFwds' : \/ fwd'[j].rank < fwd'[c].rank
                                  \/ fwd'[j].rank = fwd'[c].rank /\ c <= j
    PROVE  CurrentFwd' = c
<1> DEFINE S == RankedFwds'
           r == [j \in FwdIdx |-> fwd'[j].rank]
<1>1. c \in S /\ S \subseteq FwdIdx /\ S \subseteq Int
  BY Indices
<1>2. \A j \in S : r[j] = fwd'[j].rank
  BY <1>1
<1>3. /\ \A j \in S : r[j] \in Int
      /\ \A j \in S : r[j] < r[c] \/ (r[j] = r[c] /\ c <= j)
  BY <1>1, <1>2
<1> HIDE DEF S, r
<1>4. (CHOOSE k \in S : \A j \in S :
           r[j] < r[k] \/ (r[j] = r[k] /\ k <= j)) = c
  BY <1>1, <1>3, BestIsOnly
<1>5. \A k, j \in S :
        (r[j] < r[k] \/ (r[j] = r[k] /\ k <= j))
        <=> (fwd'[j].rank < fwd'[k].rank
             \/ (fwd'[j].rank = fwd'[k].rank /\ k <= j))
  BY <1>2
<1>6. (CHOOSE k \in S : \A j \in S :
           r[j] < r[k] \/ (r[j] = r[k] /\ k <= j))
       = (CHOOSE k \in S : \A j \in S :
            fwd'[j].rank < fwd'[k].rank
            \/ (fwd'[j].rank = fwd'[k].rank /\ k <= j))
  BY <1>5
<1> QED  BY <1>1, <1>4, <1>6 DEF CurrentFwd, S

\* The searches read ranks and validity only.
LEMMA SameSearches ==
    ASSUME Descriptors, Confirmed, SameTable
    PROVE  /\ Golden' = Golden /\ FwdNum' = FwdNum /\ Searched' = Searched
           /\ RankedFwds' = RankedFwds /\ TrialFwds' = TrialFwds
           /\ CurrentFwd' = CurrentFwd /\ TrialIdx' = TrialIdx
<1>1. /\ \A i \in FwdIdx : fwd'[i].rank = fwd[i].rank
      /\ \A i \in FwdIdx : Valid(fwd'[i]) <=> Valid(fwd[i])
  BY DEF SameTable
<1>2. Golden' = Golden
  BY <1>1, Indices DEF Golden
<1>3. FwdNum' = FwdNum /\ Searched' = Searched
  <2>1. Confirmed'
    BY SameTableConfirmed
  <2>2. Golden => fwd'[0].magic /\ fwd[0].magic
    BY <1>2, <2>1, Indices DEF Confirmed, Golden, Valid
  <2>3. FwdNum' = FwdNum
    BY <1>2, <2>2 DEF FwdNum, Golden
  <2> QED  BY <2>3 DEF Searched
<1>4. Searched \subseteq FwdIdx
  BY Indices DEF Searched
<1>5. RankedFwds' = RankedFwds /\ TrialFwds' = TrialFwds
  BY <1>1, <1>3, <1>4 DEF RankedFwds, TrialFwds
<1>6. RankedFwds \subseteq FwdIdx
  BY <1>4 DEF RankedFwds
<1>7. CurrentFwd' = CurrentFwd
  <2>1. CASE RankedFwds = {}
    BY <1>5, <2>1 DEF CurrentFwd
  <2>2. CASE RankedFwds # {}
    <3>1. /\ CurrentFwd \in RankedFwds
          /\ \A j \in RankedFwds :
               \/ fwd[j].rank < fwd[CurrentFwd].rank
               \/ fwd[j].rank = fwd[CurrentFwd].rank /\ CurrentFwd <= j
      BY <2>2, CurrentIsFirst
    <3>2. \A j \in RankedFwds' : fwd'[j].rank = fwd[j].rank /\ fwd[j].rank \in Int
      BY <1>1, <1>5, <1>6 DEF Descriptors
    <3> QED  BY <1>5, <1>6, <3>1, <3>2, CurrentNext
  <2> QED  BY <2>1, <2>2
<1> QED  BY <1>2, <1>3, <1>5, <1>7 DEF TrialIdx

\* Erasing another descriptor than the current firmware's.
LEMMA EraseSearches ==
    ASSUME Descriptors, Confirmed, NEW i \in FwdIdx, EraseFwd(i),
           i # CurrentFwd, Golden => i # 0
    PROVE  /\ Golden' = Golden
           /\ RankedFwds' = RankedFwds \ {i} /\ TrialFwds' = TrialFwds \ {i}
           /\ RankedFwds' = {} <=> RankedFwds = {}
           /\ CurrentFwd' = CurrentFwd /\ TrialIdx' = TrialIdx
           /\ FwdNum' = FwdNum
           /\ ~ Valid(fwd'[i])
           /\ \A j \in FwdIdx \ {i} : fwd'[j] = fwd[j]
<1>1. /\ fwd'[i].status = "unused" /\ fwd'[i].rank = TRIAL
      /\ \A j \in FwdIdx \ {i} : fwd'[j] = fwd[j]
  BY Erasing
<1>2. ~ Valid(fwd'[i])
  BY <1>1 DEF Valid
<1>3. Golden' = Golden
  BY <1>1, Indices DEF Golden, TRIAL, GOLDEN
<1>4. Confirmed'
  BY EraseKeepsConfirmed DEF Golden
<1>5. Searched' = Searched /\ FwdNum' = FwdNum /\ Searched \subseteq FwdIdx
  <2>1. Golden => FwdNum' = 3 /\ FwdNum = 3
    BY <1>1, <1>3, SearchedWhich, Indices DEF FwdNum, Golden
  <2>2. ~ Golden => FwdNum' = 2 /\ FwdNum = 2
    BY <1>3 DEF FwdNum, Golden
  <2> QED  BY <2>1, <2>2, Indices DEF Searched
<1>6. RankedFwds' = RankedFwds \ {i}
  BY <1>1, <1>2, <1>5 DEF RankedFwds
<1>7. TrialFwds' = TrialFwds \ {i}
  BY <1>1, <1>2, <1>5 DEF TrialFwds
<1>8. /\ RankedFwds' = {} <=> RankedFwds = {}
      /\ CurrentFwd' = CurrentFwd
  <2>1. CASE RankedFwds = {}
    BY <1>6, <2>1 DEF CurrentFwd
  <2>2. CASE RankedFwds # {}
    <3>1. /\ CurrentFwd \in RankedFwds
          /\ \A j \in RankedFwds :
               \/ fwd[j].rank < fwd[CurrentFwd].rank
               \/ fwd[j].rank = fwd[CurrentFwd].rank /\ CurrentFwd <= j
      BY <2>2, CurrentIsFirst
    <3>2. /\ CurrentFwd \in RankedFwds' /\ RankedFwds' \subseteq RankedFwds
          /\ RankedFwds' \subseteq FwdIdx /\ i \notin RankedFwds'
      BY <1>5, <1>6, <3>1 DEF RankedFwds
    <3>3. \A j \in RankedFwds' : fwd'[j].rank = fwd[j].rank /\ fwd[j].rank \in Int
      BY <1>1, <3>2 DEF Descriptors
    <3>4. CurrentFwd' = CurrentFwd
      BY <3>1, <3>2, <3>3, CurrentNext
    <3> QED  BY <3>2, <3>4
  <2> QED  BY <2>1, <2>2
<1> QED  BY <1>1, <1>2, <1>3, <1>5, <1>6, <1>7, <1>8 DEF TrialIdx

\* The factory's table is right.
LEMMA TableInvInit == Init => TableInv
<1> SUFFICES ASSUME Init PROVE TableInv
  OBVIOUS
<1>1. PICK r \in {GOLDEN, 1} :
        /\ fwd = [i \in FwdIdx |->
                    IF i = 0
                    THEN [magic |-> TRUE, total |-> TRUE, rank |-> r,
                          status |-> "valid", entries |-> FactoryEntries]
                    ELSE ErasedFwd]
        /\ boot_type = IF r = GOLDEN THEN "golden" ELSE "current"
  BY DEF Init, TableInit
<1>2. /\ fwd[0].rank = r /\ Valid(fwd[0])
      /\ ~ Valid(fwd[1]) /\ ~ Valid(fwd[2])
  BY <1>1, Indices DEF Valid, ErasedFwd
<1>3. Golden \/ 0 \in RankedFwds
  BY <1>2 DEF Golden, RankedFwds, Searched, FwdNum, GOLDEN
<1>4. CurrentFwd = 0
  <2>1. Descriptors /\ Confirmed
    BY InitImpliesInv DEF FallbackInv
  <2>2. CASE Golden
    <3>1. Searched = {1, 2}
      BY <2>1, <2>2, SearchedWhich
    <3>2. RankedFwds = {}
      BY <1>2, <3>1 DEF RankedFwds
    <3> QED  BY <3>2 DEF CurrentFwd
  <2>3. CASE ~ Golden
    <3>1. CurrentFwd \in RankedFwds /\ Searched = {0, 1}
      BY <2>1, <2>3, SearchedWhich, Choices
    <3> QED  BY <1>2, <3>1 DEF RankedFwds
  <2> QED  BY <2>2, <2>3
<1>5. active = 0 /\ session = NoSession
  BY DEF Init, TableInit
<1>6. boot_type # "trial" /\ boot_type \in {"golden", "current", "trial"}
  BY <1>1
<1> QED  BY <1>2, <1>4, <1>5, <1>6 DEF TableInv, Chosen, Late

\* A turn after the erasure, or nothing at all, leaves the choice alone.
LEMMA LateKeepsTable ==
    ASSUME FallbackInv, TableInv, LateTurn
    PROVE  TableInv'
<1>1. /\ Descriptors /\ Confirmed /\ SameTable /\ Chosen /\ Late
      /\ session.trial \in FwdIdx
      /\ UNCHANGED <<active, boot_type>> /\ session'.trial = session.trial
  BY DEF FallbackInv, LateTurn, Late, Chosen, Early, SessionInv
<1>2. /\ Golden' = Golden /\ RankedFwds' = RankedFwds
      /\ CurrentFwd' = CurrentFwd /\ TrialIdx' = TrialIdx
      /\ Valid(fwd'[2]) <=> Valid(fwd[2])
      /\ fwd'[session.trial].rank = fwd[session.trial].rank
  BY <1>1, SameSearches, Indices DEF SameTable
<1> QED  BY <1>1, <1>2 DEF TableInv

\* Steps that leave the table alone and no trial chosen.
LEMMA UnchosenKeepsTable ==
    ASSUME FallbackInv, TableInv, SameTable, UNCHANGED <<active, boot_type>>,
           ~ Chosen'
    PROVE  TableInv'
<1>1. /\ Golden' = Golden /\ RankedFwds' = RankedFwds
      /\ CurrentFwd' = CurrentFwd /\ TrialIdx' = TrialIdx
      /\ Valid(fwd'[2]) <=> Valid(fwd[2])
  BY SameSearches, Indices DEF SameTable, FallbackInv
<1>2. ~ Late'
  BY DEF Late, Chosen, Early
<1> QED  BY <1>1, <1>2 DEF TableInv

\* The choice keeps the table right and is the one the table calls for.
LEMMA GetTrialInfoKeepsTable ==
    ASSUME FallbackInv, TableInv, GetTrialInfo
    PROVE  TableInv'
<1>1. /\ Descriptors /\ session # NoSession /\ UNCHANGED tableVars
      /\ DOMAIN session = DOMAIN NewSession /\ session.state = "get_trial"
  BY Turn DEF GetTrialInfo
<1>2. SameTable
  BY <1>1, UnchangedIsSame DEF tableVars
<1>3. CASE Fail(session)
  <2>1. ~ Chosen'
    BY <1>1, <1>3 DEF Chosen, Fail
  <2> QED  BY <1>1, <1>2, <2>1, UnchosenKeepsTable DEF tableVars
<1>4. CASE Continue([session EXCEPT !.state = "erase_fwd", !.trial = TrialIdx,
                       !.mem_start = TrialRegion.start,
                       !.mem_size = TrialRegion.size])
  <2>1. session'.state = "erase_fwd" /\ session'.trial = TrialIdx
    BY <1>1, <1>4 DEF Continue, NewSession
  <2>2. /\ Golden' = Golden /\ RankedFwds' = RankedFwds
        /\ CurrentFwd' = CurrentFwd /\ TrialIdx' = TrialIdx
        /\ Valid(fwd'[2]) <=> Valid(fwd[2])
        /\ UNCHANGED <<active, boot_type>>
    BY <1>1, <1>2, SameSearches, Indices DEF SameTable, FallbackInv, tableVars
  <2>3. ~ Late'
    BY <2>1 DEF Late, Early
  <2> QED  BY <2>1, <2>2, <2>3 DEF TableInv
<1> QED  BY <1>3, <1>4 DEF GetTrialInfo

\* What the erasure of the trial descriptor starts from.
LEMMA ErasureStarts ==
    ASSUME FallbackInv, TableInv, EraseTrialFwd
    PROVE  /\ Descriptors /\ Confirmed /\ Chosen /\ UNCHANGED <<active, boot_type>>
           /\ DOMAIN session = DOMAIN NewSession /\ session.state = "erase_fwd"
           /\ session.trial = TrialIdx /\ session.trial \in FwdIdx \ {active}
           /\ session.trial # CurrentFwd
           /\ Golden => session.trial # 0
           /\ active = CurrentFwd
<1>1. /\ Descriptors /\ Confirmed /\ session # NoSession /\ packet # NoPacket
      /\ DOMAIN session = DOMAIN NewSession /\ session.state = "erase_fwd"
      /\ UNCHANGED <<active, boot_type>>
      /\ session.trial \in FwdIdx \ {active} /\ session.trial # CurrentFwd
      /\ Golden => session.trial # 0
  BY Turn DEF EraseTrialFwd, Processing, FallbackInv, SessionInv, TrialIsFree,
              Golden
<1>2. Chosen
  BY <1>1 DEF Chosen
<1> QED  BY <1>1, <1>2 DEF TableInv

\* The erasure keeps the table right.
LEMMA EraseTrialFwdKeepsTable ==
    ASSUME FallbackInv, TableInv, EraseTrialFwd
    PROVE  TableInv'
<1>1. /\ Descriptors /\ Confirmed /\ Chosen /\ UNCHANGED <<active, boot_type>>
      /\ DOMAIN session = DOMAIN NewSession /\ session.state = "erase_fwd"
      /\ session.trial = TrialIdx /\ session.trial \in FwdIdx
      /\ session.trial # CurrentFwd
      /\ Golden => session.trial # 0
  BY ErasureStarts
<1>2. CASE EraseFwd(session.trial)
  <2>1. /\ Golden' = Golden /\ (RankedFwds' = {} <=> RankedFwds = {})
        /\ CurrentFwd' = CurrentFwd /\ TrialIdx' = TrialIdx
        /\ ~ Valid(fwd'[session.trial])
        /\ \A j \in FwdIdx \ {session.trial} : fwd'[j] = fwd[j]
    BY <1>1, <1>2, EraseSearches
  <2>2. Valid(fwd'[2]) => Valid(fwd[2])
    BY <1>1, <2>1, Indices
  <2>3. fwd'[session.trial].rank = TRIAL
    BY <1>1, <1>2, Erasing
  <2>4. session'.trial = session.trial
    BY <1>1 DEF EraseTrialFwd, Continue, Fail, NewSession
  <2> QED  BY <1>1, <2>1, <2>2, <2>3, <2>4 DEF TableInv
<1>3. CASE UNCHANGED fwd /\ Fail(session)
  <2>1. ~ Chosen'
    BY <1>1, <1>3 DEF Chosen, Fail, Reply
  <2> QED  BY <1>1, <1>3, <2>1, UnchangedIsSame, UnchosenKeepsTable
<1> QED  BY <1>2, <1>3 DEF EraseTrialFwd

\* The step that makes the trial valid, or leaves it as it is.
LEMMA FinishStarts ==
    ASSUME FallbackInv, Finish
    PROVE  /\ Late /\ Descriptors /\ Confirmed
           /\ session.state = "finish" /\ session.trial \in FwdIdx
           /\ session' = NoSession /\ packet' = NoPacket
           /\ UNCHANGED <<flash, active, boot_type>>
           /\ \A i \in FwdIdx \ {session.trial} : fwd'[i] = fwd[i]
           /\ \/ UNCHANGED fwd
              \/ fwd' = [fwd EXCEPT ![session.trial].status = "valid"]
<1>1. /\ session # NoSession /\ session.state = "finish" /\ Descriptors /\ Confirmed
      /\ session' = NoSession /\ packet' = NoPacket
      /\ UNCHANGED <<flash, active, boot_type>>
      /\ \/ UNCHANGED fwd
         \/ fwd' = [fwd EXCEPT ![session.trial].status = "valid"]
  BY Turn DEF Finish, Reply, WithStatus, FallbackInv
<1>2. Late /\ session.trial \in FwdIdx
  BY <1>1 DEF Late, Early, FallbackInv, SessionInv
<1>3. \A i \in FwdIdx \ {session.trial} : fwd'[i] = fwd[i]
  BY <1>1, <1>2 DEF Descriptors
<1> QED  BY <1>1, <1>2, <1>3

\* The searches after a trial became valid.
LEMMA FinishSearches ==
    ASSUME FallbackInv, TableInv, Finish
    PROVE  /\ Golden' = Golden /\ RankedFwds' = RankedFwds
           /\ CurrentFwd' = CurrentFwd /\ TrialIdx' = TrialIdx
           /\ TrialFwds' = IF Valid(fwd'[session.trial])
                           THEN {session.trial} ELSE {}
           /\ DOMAIN fwd' = FwdIdx
           /\ \A i \in FwdIdx : /\ fwd'[i].rank = fwd[i].rank
                                /\ fwd'[i].entries = fwd[i].entries
<1>1. /\ Late /\ Descriptors /\ Confirmed /\ session.trial \in FwdIdx
      /\ \A i \in FwdIdx \ {session.trial} : fwd'[i] = fwd[i]
      /\ \/ UNCHANGED fwd
         \/ fwd' = [fwd EXCEPT ![session.trial].status = "valid"]
  BY FinishStarts
<1> DEFINE t == session.trial
<1>2. /\ TrialFwds = {} /\ t = TrialIdx /\ fwd[t].rank = TRIAL
      /\ t \in Searched
  BY <1>1, LateTable, Choices
<1>3. /\ DOMAIN fwd' = FwdIdx
      /\ \A i \in FwdIdx : /\ fwd'[i].rank = fwd[i].rank
                           /\ fwd'[i].magic = fwd[i].magic
                           /\ fwd'[i].entries = fwd[i].entries
  BY <1>1 DEF Descriptors
<1> HIDE DEF t
<1>4. Golden' = Golden /\ FwdNum' = FwdNum /\ Searched' = Searched
  BY <1>3, Indices DEF Golden, FwdNum, Searched
<1>5. Searched \subseteq FwdIdx
  BY Indices DEF Searched
<1>6. RankedFwds' = RankedFwds
  <2>1. t \notin RankedFwds /\ t \notin RankedFwds'
    BY <1>2, <1>3, <1>5 DEF RankedFwds, TRIAL
  <2>2. \A i \in FwdIdx : i # t => fwd'[i] = fwd[i]
    BY <1>1 DEF t
  <2>3. \A i \in FwdIdx : i # t => (i \in RankedFwds' <=> i \in RankedFwds)
    BY <1>4, <2>2 DEF RankedFwds
  <2>4. RankedFwds \subseteq FwdIdx /\ RankedFwds' \subseteq FwdIdx
    BY <1>4, <1>5 DEF RankedFwds
  <2> QED  BY <2>1, <2>3, <2>4
<1>7. CurrentFwd' = CurrentFwd
  <2>1. CASE RankedFwds = {}
    BY <1>6, <2>1 DEF CurrentFwd
  <2>2. CASE RankedFwds # {}
    <3>1. /\ CurrentFwd \in RankedFwds
          /\ \A j \in RankedFwds :
               \/ fwd[j].rank < fwd[CurrentFwd].rank
               \/ fwd[j].rank = fwd[CurrentFwd].rank /\ CurrentFwd <= j
      BY <1>1, <2>2, CurrentIsFirst
    <3>2. RankedFwds \subseteq FwdIdx
      BY <1>5 DEF RankedFwds
    <3>3. \A j \in RankedFwds' : fwd'[j].rank = fwd[j].rank /\ fwd[j].rank \in Int
      BY <1>1, <1>3, <1>6, <3>2 DEF Descriptors
    <3> QED  BY <1>6, <3>1, <3>2, <3>3, CurrentNext
  <2> QED  BY <2>1, <2>2
<1>8. TrialIdx' = TrialIdx
  BY <1>4, <1>7 DEF TrialIdx
<1>9. TrialFwds' = IF Valid(fwd'[t]) THEN {t} ELSE {}
  <2>1. \A i \in FwdIdx : i # t => i \notin TrialFwds'
    <3>1. \A i \in FwdIdx : i # t => fwd'[i] = fwd[i]
      BY <1>1 DEF t
    <3> QED  BY <1>2, <1>4, <3>1 DEF TrialFwds
  <2>2. t \in TrialFwds' <=> Valid(fwd'[t])
    BY <1>2, <1>3, <1>4, <1>5 DEF TrialFwds
  <2>3. TrialFwds' \subseteq FwdIdx
    BY <1>4, <1>5 DEF TrialFwds
  <2> QED  BY <2>1, <2>2, <2>3
<1> QED  BY <1>3, <1>4, <1>6, <1>7, <1>8, <1>9 DEF t

\* So does a session's end, which makes the trial valid.
LEMMA FinishKeepsTable ==
    ASSUME FallbackInv, TableInv, Finish
    PROVE  TableInv'
<1>1. /\ Late /\ session' = NoSession /\ UNCHANGED <<active, boot_type>>
      /\ Descriptors /\ Confirmed /\ session.trial = TrialIdx
      /\ \A i \in FwdIdx \ {session.trial} : fwd'[i] = fwd[i]
  BY FinishStarts, LateTable
<1>2. ~ Golden \/ RankedFwds = {} => session.trial # 2
  BY <1>1, Choices
<1>3. ~ Golden \/ RankedFwds = {} => ~ Valid(fwd'[2])
  BY <1>1, <1>2, Indices DEF TableInv
<1> QED  BY <1>1, <1>3, FinishSearches DEF TableInv, Chosen, Late

\* Where the two indices are, as a formula that can be primed.
Places ==
    /\ CurrentFwd \in FwdIdx /\ TrialIdx \in FwdIdx /\ TrialIdx # CurrentFwd
    /\ ~ Golden => {CurrentFwd, TrialIdx} = {0, 1}
    /\ Golden /\ CurrentFwd # 0 => {CurrentFwd, TrialIdx} = {1, 2}

\* The searches of the table find something.
LEMMA PlacesHold == Descriptors /\ Confirmed => Places
BY Choices DEF Places

\* They do after the step too.
LEMMA PlacesNext ==
    ASSUME Descriptors', Confirmed'
    PROVE  Places'
BY PlacesHold, PTL

\* An acceptance or a rejection finds no upload past its erasure.
LEMMA TrialMeansNotLate ==
    ASSUME FallbackInv, TableInv, HasTrial, packet = NoPacket
    PROVE  ~ Late /\ ~ Chosen
<1>1. ~ Late
  BY LateTable
<1> QED  BY <1>1 DEF Chosen, Late, Early

\* An acceptance does nothing, or makes the trial the current firmware and
\* perhaps what was current invalid.
LEMMA AcceptSearches ==
    ASSUME FallbackInv, TableInv, Accept
    PROVE  /\ HasTrial /\ TrialFwds = {TrialIdx} /\ TrialFwd = TrialIdx
           /\ ~ Late /\ ~ Chosen /\ boot_type = "trial"
           /\ UNCHANGED <<flash, active, boot_type, session, packet, upload_off>>
           /\ \/ UNCHANGED fwd
              \/ /\ Golden' = Golden /\ TrialFwds' = {}
                 /\ CurrentFwd' = TrialIdx /\ RankedFwds' # {}
                 /\ DOMAIN fwd' = FwdIdx
                 /\ \A i \in FwdIdx :
                      /\ fwd'[i].entries = fwd[i].entries
                      /\ Valid(fwd'[i]) => Valid(fwd[i])
<1>1. PICK n \in 0 .. 2 : AcceptTrialFwd(n)
  BY DEF Accept
<1>2. /\ packet = NoPacket /\ Descriptors /\ Confirmed /\ HasTrial
      /\ boot_type = "trial"
      /\ UNCHANGED <<flash, active, boot_type, session, packet, upload_off>>
  BY <1>1 DEF Accept, AcceptTrialFwd, FallbackInv
<1> DEFINE t == TrialFwd  c == CurrentFwd  r == BiggestRank + 1
<1>3. /\ TrialFwds = {t} /\ t = TrialIdx /\ t \in Searched
      /\ Valid(fwd[t]) /\ fwd[t].rank = TRIAL /\ t \in FwdIdx
  <2>1. TrialFwds = {TrialIdx} /\ TrialFwd = TrialIdx
    BY <1>2, ValidOnes
  <2> QED  BY <1>2, <2>1, Choices DEF TrialFwds
<1>4. /\ c \in FwdIdx /\ c # t
      /\ c = 0 \/ c \in RankedFwds
      /\ RankedFwds # {} => /\ c \in RankedFwds
                            /\ \A j \in RankedFwds : fwd[j].rank <= fwd[c].rank
  <2>1. RankedFwds # {} =>
          /\ c \in RankedFwds
          /\ \A j \in RankedFwds : \/ fwd[j].rank < fwd[c].rank
                                   \/ fwd[j].rank = fwd[c].rank /\ c <= j
    BY <1>2, CurrentIsFirst
  <2>2. RankedFwds \subseteq FwdIdx
    BY Indices DEF RankedFwds, Searched
  <2>3. RankedFwds # {} =>
          \A j \in RankedFwds : fwd[j].rank <= fwd[c].rank
    BY <1>2, <2>1, <2>2 DEF Descriptors
  <2> QED  BY <1>2, <1>3, <2>1, <2>3, Choices
<1>5. /\ r \in Nat \ {0}
      /\ \A j \in RankedFwds : fwd[j].rank < r
  <2>1. r \in Nat \ {0}
    BY <1>2, NextRank
  <2>2. \A j \in RankedFwds : fwd[j].rank \in Int /\ fwd[c].rank \in Int
    BY <1>2, <1>4, Indices DEF RankedFwds, Searched, Descriptors
  <2>3. \A j \in RankedFwds : fwd[j].rank < r
    <3> SUFFICES ASSUME NEW j \in RankedFwds PROVE fwd[j].rank < r
      OBVIOUS
    <3>1. r = fwd[c].rank + 1
      BY DEF BiggestRank
    <3>2. fwd[j].rank <= fwd[c].rank
      BY <1>4
    <3> HIDE DEF r, c
    <3> QED  BY <2>2, <3>1, <3>2
  <2> QED  BY <2>1, <2>3
<1>6. \/ UNCHANGED fwd
      \/ fwd' = [fwd EXCEPT ![t].rank = r]
      \/ fwd' = [fwd EXCEPT ![t].rank = r, ![c].status = "invalid"]
  <2>1. n \in {0, 1, 2}
    OBVIOUS
  <2> QED  BY <1>1, <2>1 DEF AcceptTrialFwd, AcceptWrites, WithRank, WithStatus
<1>7. CASE UNCHANGED fwd
  BY <1>2, <1>3, <1>7, TrialMeansNotLate
<1>8. CASE ~ UNCHANGED fwd
  <2> HIDE DEF t, c, r
  <2>1. \/ fwd' = [fwd EXCEPT ![t].rank = r]
        \/ fwd' = [fwd EXCEPT ![t].rank = r, ![c].status = "invalid"]
    BY <1>6, <1>8
  <2>2. /\ DOMAIN fwd' = FwdIdx
        /\ fwd'[t].rank = r /\ Valid(fwd'[t])
        /\ \A i \in FwdIdx : /\ fwd'[i].magic = fwd[i].magic
                             /\ fwd'[i].entries = fwd[i].entries
                             /\ i # t => fwd'[i].rank = fwd[i].rank
                             /\ Valid(fwd'[i]) => Valid(fwd[i])
    BY <1>2, <1>3, <1>4, <2>1 DEF Descriptors, Valid
  <2>3. Golden' = Golden
    <3>1. Golden => t # 0
      BY <1>3, <1>2, SearchedWhich
    <3>2. r # GOLDEN /\ fwd[t].rank # GOLDEN
      BY <1>3, <1>5 DEF GOLDEN, TRIAL
    <3> QED  BY <2>2, <3>1, <3>2, Indices DEF Golden
  <2>4. Searched' = Searched /\ Searched \subseteq FwdIdx
    BY <2>2, <2>3, Indices DEF Searched, FwdNum, Golden
  <2>5. TrialFwds' = {}
    <3>1. r # TRIAL
      BY <1>5 DEF TRIAL
    <3>2. \A i \in TrialFwds' : i \in TrialFwds /\ i # t
      BY <2>2, <2>4, <3>1 DEF TrialFwds
    <3> QED  BY <1>3, <3>2
  <2>6. t \in RankedFwds'
    BY <1>3, <1>5, <2>2, <2>4 DEF RankedFwds
  <2>7. \A j \in RankedFwds' :
          \/ j = t
          \/ /\ j \in RankedFwds
             /\ fwd'[j].rank = fwd[j].rank
    BY <2>2, <2>4 DEF RankedFwds
  <2>8. \A j \in RankedFwds' : fwd'[j].rank \in Int /\ (j = t \/ fwd'[j].rank < r)
    <3>1. RankedFwds \subseteq FwdIdx
      BY <2>4 DEF RankedFwds
    <3> QED  BY <1>2, <1>5, <2>2, <2>7, <3>1 DEF Descriptors
  <2>9. RankedFwds' \subseteq FwdIdx /\ t \in Int
    <3>1. RankedFwds' \subseteq FwdIdx
      BY <2>4 DEF RankedFwds
    <3>2. t \in Int
      BY <1>3, Indices
    <3> QED  BY <3>1, <3>2
  <2>10. CurrentFwd' = t
    <3>1. \A j \in RankedFwds' : \/ fwd'[j].rank < fwd'[t].rank
                                 \/ fwd'[j].rank = fwd'[t].rank /\ t <= j
      BY <1>5, <2>2, <2>8, <2>9
    <3> QED  BY <2>6, <2>8, <2>9, <3>1, CurrentNext
  <2> QED  BY <1>2, <1>3, <2>2, <2>3, <2>5, <2>6, <2>10, TrialMeansNotLate DEF t
<1> QED  BY <1>7, <1>8

\* An acceptance, however many of its writes are done, keeps the table right.
LEMMA AcceptKeepsTable ==
    ASSUME FallbackInv, TableInv, Accept
    PROVE  TableInv'
<1>1. FallbackInv'
  BY AcceptKeeps
<1>2. CASE UNCHANGED fwd
  <2>1. SameTable /\ ~ Chosen /\ UNCHANGED <<active, boot_type, session, packet>>
    BY <1>2, AcceptSearches, UnchangedIsSame DEF FallbackInv
  <2>2. ~ Chosen'
    BY <2>1 DEF Chosen
  <2> QED  BY <2>1, <2>2, UnchosenKeepsTable
<1>3. CASE /\ Golden' = Golden /\ TrialFwds' = {}
           /\ CurrentFwd' = TrialIdx /\ RankedFwds' # {}
           /\ DOMAIN fwd' = FwdIdx
           /\ \A i \in FwdIdx : /\ fwd'[i].entries = fwd[i].entries
                                /\ Valid(fwd'[i]) => Valid(fwd[i])
  <2>1. Places /\ Places'
    BY <1>1, PlacesHold, PlacesNext DEF FallbackInv
  <2>2. Golden /\ CurrentFwd = 0 => TrialIdx = 1
    BY Choices DEF FallbackInv
  <2>3. /\ ~ Late /\ ~ Chosen /\ boot_type = "trial"
        /\ UNCHANGED <<active, boot_type, session, packet>>
    BY AcceptSearches
  <2>4. active' \in {CurrentFwd', TrialIdx'}
    <3>1. CASE ~ Golden
      BY <1>3, <2>1, <2>3, <3>1 DEF Places, TableInv
    <3>2. CASE Golden /\ CurrentFwd # 0
      <4>1. TrialIdx # 0
        BY <2>1, <3>2 DEF Places
      <4> QED  BY <1>3, <2>1, <2>3, <3>2, <4>1 DEF Places, TableInv
    <3>3. CASE Golden /\ CurrentFwd = 0
      BY <1>3, <2>2, <2>3, <3>3 DEF TableInv
    <3> QED  BY <3>1, <3>2, <3>3
  <2>5. ~ Golden' => ~ Valid(fwd'[2])
    BY <1>3, Indices DEF TableInv
  <2>6. ~ Chosen' /\ ~ Late'
    BY <2>3 DEF Chosen, Late
  <2> QED  BY <1>3, <2>3, <2>4, <2>5, <2>6 DEF TableInv
<1> QED  BY <1>2, <1>3, AcceptSearches

\* A rejection does nothing or makes the trial invalid.
LEMMA RejectSearches ==
    ASSUME FallbackInv, TableInv, Reject
    PROVE  /\ HasTrial /\ TrialFwds = {TrialIdx} /\ TrialFwd = TrialIdx
           /\ ~ Late /\ ~ Chosen
           /\ UNCHANGED <<flash, active, boot_type, session, packet, upload_off>>
           /\ \/ UNCHANGED fwd
              \/ /\ Golden' = Golden /\ TrialFwds' = {}
                 /\ CurrentFwd' = CurrentFwd /\ TrialIdx' = TrialIdx
                 /\ RankedFwds' = RankedFwds
                 /\ DOMAIN fwd' = FwdIdx
                 /\ \A i \in FwdIdx :
                      /\ fwd'[i].entries = fwd[i].entries
                      /\ Valid(fwd'[i]) => Valid(fwd[i])
<1>1. PICK n \in 0 .. 2 : RejectTrialFwd(n)
  BY DEF Reject
<1>2. /\ packet = NoPacket /\ Descriptors /\ Confirmed /\ HasTrial
      /\ UNCHANGED <<flash, active, boot_type, session, packet, upload_off>>
  BY <1>1 DEF Reject, RejectTrialFwd, FallbackInv
<1> DEFINE t == TrialFwd
<1>3. /\ TrialFwds = {t} /\ t = TrialIdx /\ t \in Searched
      /\ Valid(fwd[t]) /\ fwd[t].rank = TRIAL /\ t \in FwdIdx
  <2>1. TrialFwds = {TrialIdx} /\ TrialFwd = TrialIdx
    BY <1>2, ValidOnes
  <2> QED  BY <1>2, <2>1, Choices DEF TrialFwds
<1>4. \/ UNCHANGED fwd
      \/ fwd' = [fwd EXCEPT ![t].status = "invalid"]
      \/ fwd' = [fwd EXCEPT ![t].status = "invalid", ![t].rank = 1]
  <2>1. n \in {0, 1, 2}
    OBVIOUS
  <2> QED  BY <1>1, <2>1 DEF RejectTrialFwd, RejectWrites, WithStatus, WithRank
<1>5. CASE UNCHANGED fwd
  BY <1>2, <1>3, <1>5, TrialMeansNotLate
<1>6. CASE ~ UNCHANGED fwd
  <2> HIDE DEF t
  <2>1. \/ fwd' = [fwd EXCEPT ![t].status = "invalid"]
        \/ fwd' = [fwd EXCEPT ![t].status = "invalid", ![t].rank = 1]
    BY <1>4, <1>6
  <2>2. /\ DOMAIN fwd' = FwdIdx /\ fwd'[t].rank \in {TRIAL, 1}
        /\ ~ Valid(fwd'[t])
        /\ \A i \in FwdIdx : /\ fwd'[i].magic = fwd[i].magic
                             /\ fwd'[i].entries = fwd[i].entries
                             /\ i # t => fwd'[i] = fwd[i]
    BY <1>2, <1>3, <2>1 DEF Descriptors, Valid
  <2>3. \A i \in FwdIdx : Valid(fwd'[i]) => Valid(fwd[i])
    BY <1>3, <2>2
  <2>4. Golden' = Golden
    <3>1. Golden => t # 0
      BY <1>3, <1>2, SearchedWhich
    <3>2. \A x \in {TRIAL, 1} : x # GOLDEN
      BY DEF GOLDEN, TRIAL
    <3> QED  BY <1>3, <2>2, <3>1, <3>2, Indices DEF Golden
  <2>5. Searched' = Searched /\ Searched \subseteq FwdIdx /\ FwdNum' = FwdNum
    BY <2>2, <2>4, Indices DEF Searched, FwdNum, Golden
  <2>6. TrialFwds' = {}
    <3>1. \A i \in TrialFwds' : i \in TrialFwds /\ i # t
      BY <2>2, <2>5 DEF TrialFwds
    <3> QED  BY <1>3, <3>1
  <2>7. RankedFwds' = RankedFwds
    <3>1. t \notin RankedFwds /\ t \notin RankedFwds'
      BY <1>3, <2>2 DEF RankedFwds, TRIAL
    <3>2. \A i \in FwdIdx : i # t => (i \in RankedFwds' <=> i \in RankedFwds)
      BY <2>2, <2>5 DEF RankedFwds
    <3>3. RankedFwds' \subseteq FwdIdx /\ RankedFwds \subseteq FwdIdx
      BY <2>5 DEF RankedFwds
    <3> QED  BY <3>1, <3>2, <3>3
  <2>8. CurrentFwd' = CurrentFwd
    <3>1. CASE RankedFwds = {}
      BY <2>7, <3>1 DEF CurrentFwd
    <3>2. CASE RankedFwds # {}
      <4>1. /\ CurrentFwd \in RankedFwds
            /\ \A j \in RankedFwds :
                 \/ fwd[j].rank < fwd[CurrentFwd].rank
                 \/ fwd[j].rank = fwd[CurrentFwd].rank /\ CurrentFwd <= j
        BY <1>2, <3>2, CurrentIsFirst
      <4>2. RankedFwds \subseteq FwdIdx /\ t \notin RankedFwds
        BY <1>3, <2>5 DEF RankedFwds, TRIAL
      <4>3. \A j \in RankedFwds' : fwd'[j].rank = fwd[j].rank /\ fwd[j].rank \in Int
        BY <1>2, <2>2, <2>7, <4>2 DEF Descriptors
      <4> QED  BY <2>7, <4>1, <4>2, <4>3, CurrentNext
    <3> QED  BY <3>1, <3>2
  <2>9. TrialIdx' = TrialIdx
    BY <2>5, <2>8 DEF TrialIdx
  <2> QED  BY <1>2, <1>3, <2>2, <2>3, <2>4, <2>6, <2>7, <2>8, <2>9,
              TrialMeansNotLate DEF t
<1> QED  BY <1>5, <1>6

\* A rejection keeps the table right.
LEMMA RejectKeepsTable ==
    ASSUME FallbackInv, TableInv, Reject
    PROVE  TableInv'
<1>1. /\ ~ Late /\ ~ Chosen /\ UNCHANGED <<active, boot_type, session, packet>>
  BY RejectSearches
<1>2. ~ Chosen' /\ ~ Late'
  BY <1>1 DEF Chosen, Late
<1>3. CASE UNCHANGED fwd
  BY <1>1, <1>2, <1>3, UnchangedIsSame, UnchosenKeepsTable DEF FallbackInv
<1>4. CASE /\ Golden' = Golden
           /\ CurrentFwd' = CurrentFwd /\ TrialIdx' = TrialIdx
           /\ RankedFwds' = RankedFwds
           /\ \A i \in FwdIdx : Valid(fwd'[i]) => Valid(fwd[i])
  BY <1>1, <1>2, <1>4, Indices DEF TableInv
<1> QED  BY <1>3, <1>4, RejectSearches

\* The erase command, used with care, erases what is not in use.
LEMMA EraseSlotStarts ==
    ASSUME CarefulErase, FallbackInv, EraseSlot
    PROVE  /\ Descriptors /\ Confirmed /\ EraseFwd(1) /\ 1 \in FwdIdx
           /\ 1 # CurrentFwd /\ 1 # active
           /\ session = NoSession /\ session' = NoSession
           /\ UNCHANGED <<flash, active, boot_type, packet, upload_off>>
BY Indices DEF EraseSlot, FallbackInv

\* It keeps the table right.
LEMMA EraseSlotKeepsTable ==
    ASSUME CarefulErase, FallbackInv, TableInv, EraseSlot
    PROVE  TableInv'
<1>1. /\ Golden' = Golden /\ (RankedFwds' = {} <=> RankedFwds = {})
      /\ CurrentFwd' = CurrentFwd /\ TrialIdx' = TrialIdx
      /\ \A j \in FwdIdx \ {1} : fwd'[j] = fwd[j]
  BY EraseSlotStarts, EraseSearches
<1>2. fwd'[2] = fwd[2]
  BY <1>1, Indices
<1> QED  BY <1>1, <1>2, EraseSlotStarts DEF TableInv, Chosen, Late

\* A reset leaves the flash alone and boots a trial or the current firmware.
LEMMA RestartStarts ==
    ASSUME FallbackInv, Restart
    PROVE  /\ SameTable /\ UNCHANGED <<fwd, flash>>
           /\ session' = NoSession /\ packet' = NoPacket /\ upload_off' = 0
           /\ active' \in TrialFwds \cup {CurrentFwd}
           /\ boot_type' = CASE fwd[active'].rank = TRIAL  -> "trial"
                             [] fwd[active'].rank = GOLDEN -> "golden"
                             [] OTHER                      -> "current"
<1>1. /\ UNCHANGED <<fwd, flash>> /\ session' = NoSession /\ packet' = NoPacket
      /\ upload_off' = 0
      /\ \E i \in BootChoices :
        /\ active' = i
        /\ boot_type' = CASE fwd[i].rank = TRIAL  -> "trial"
                          [] fwd[i].rank = GOLDEN -> "golden"
                          [] OTHER                -> "current"
  BY DEF Restart, Boot
<1>2. SameTable
  BY <1>1, UnchangedIsSame DEF FallbackInv
<1>3. BootChoices \subseteq TrialFwds \cup {CurrentFwd}
  BY DEF BootChoices
<1> QED  BY <1>1, <1>2, <1>3

\* It keeps the table right.
LEMMA RestartKeepsTable ==
    ASSUME FallbackInv, TableInv, Restart
    PROVE  TableInv'
<1>1. /\ SameTable /\ UNCHANGED fwd /\ session' = NoSession
      /\ active' \in TrialFwds \cup {CurrentFwd}
  BY RestartStarts
<1>2. /\ Golden' = Golden /\ RankedFwds' = RankedFwds
      /\ CurrentFwd' = CurrentFwd /\ TrialIdx' = TrialIdx
  BY <1>1, SameSearches DEF FallbackInv
<1>3. active' \in {CurrentFwd, TrialIdx}
  BY <1>1, ValidOnes DEF FallbackInv
<1>4. /\ boot_type' \in {"golden", "current", "trial"}
      /\ Golden /\ active' = 0 => boot_type' # "trial"
  BY RestartStarts DEF Golden, GOLDEN, TRIAL
<1> QED  BY <1>1, <1>2, <1>3, <1>4 DEF TableInv, Chosen, Late

\* A request keeps the table right.
LEMMA UploadKeepsTable ==
    ASSUME FallbackInv, TableInv, NEW v, NEW off \in Nat, NEW n, Upload(v, off, n)
    PROVE  TableInv'
<1>1. CASE off = 0
  <2>1. /\ session' = NewSession /\ UNCHANGED <<fwd, active, boot_type>>
    BY <1>1 DEF Upload, tableVars
  <2>2. ~ Chosen'
    BY <2>1 DEF Chosen, NewSession
  <2> QED  BY <2>1, <2>2, UnchangedIsSame, UnchosenKeepsTable DEF FallbackInv
<1>2. CASE off # 0
  BY <1>2, UploadIsLate, LateKeepsTable
<1> QED  BY <1>1, <1>2

\* And so does a request no session could be made for.
LEMMA UploadInitFailsKeepsTable ==
    ASSUME FallbackInv, TableInv, UploadInitFails
    PROVE  TableInv'
<1>1. UNCHANGED <<fwd, active, boot_type>> /\ session' = NoSession
  BY DEF UploadInitFails, tableVars
<1>2. ~ Chosen'
  BY <1>1 DEF Chosen
<1> QED  BY <1>1, <1>2, UnchangedIsSame, UnchosenKeepsTable DEF FallbackInv

\* Every step keeps the table right.
LEMMA TableInvNext ==
    ASSUME CarefulErase, FallbackInv, TableInv, [Next]_vars
    PROVE  TableInv'
<1>1. ASSUME NEW v \in Version, NEW off \in 0 .. FileLen - 1,
             NEW n \in PacketLen, Upload(v, off, n)
      PROVE  TableInv'
  <2>1. off \in Nat
    OBVIOUS
  <2> QED  BY <1>1, <2>1, UploadKeepsTable
<1>2. CASE UploadInitFails
  BY <1>2, UploadInitFailsKeepsTable
<1>3. CASE Process
  <2>1. Process => GetTrialInfo \/ EraseTrialFwd \/ LateAction \/ Finish
    BY DEF Process, LateAction
  <2> QED  BY <1>3, <2>1, GetTrialInfoKeepsTable, EraseTrialFwdKeepsTable,
              LateActions, LateKeepsTable, FinishKeepsTable
<1>4. CASE Accept
  BY <1>4, AcceptKeepsTable
<1>5. CASE Reject
  BY <1>5, RejectKeepsTable
<1>6. CASE EraseSlot
  BY <1>6, EraseSlotKeepsTable
<1>7. CASE Restart
  BY <1>7, RestartKeepsTable
<1>8. CASE UNCHANGED vars
  <2>1. SameTable /\ UNCHANGED <<fwd, active, boot_type, session, packet>>
    BY <1>8, UnchangedIsSame DEF vars, tableVars, FallbackInv
  <2>2. UNCHANGED <<Golden, RankedFwds, CurrentFwd, TrialIdx>>
    BY <2>1, SameSearches DEF FallbackInv
  <2> QED  BY <2>1, <2>2 DEF TableInv, Chosen, Late, Valid
<1> QED  BY <1>1, <1>2, <1>3, <1>4, <1>5, <1>6, <1>7, <1>8 DEF Next

-----------------------------------------------------------------------------
(* Partitions and regions *)

\* The factory's partitions are in the flash and in order.
LEMMA FactoryFacts ==
    /\ DOMAIN FactoryEntries = ImageIds \cup {FS2}
    /\ \A id \in ImageIds \cup {FS2} :
         /\ Inside(FactoryEntries[id])
         /\ PartEnd(FactoryEntries[id]) <= FactoryEnd
    /\ FirstBlock \in MaxFwd .. MemBlocks /\ FactoryEnd \in FirstBlock .. MemBlocks
    /\ FactoryEnd <= FirstBlock + 2 * Half(MemBlocks, FirstBlock)
    /\ FirstBlock \in {PartEnd(PartA), PartEnd(PartB)}
    /\ PartEnd(PartA) <= FirstBlock /\ PartEnd(PartB) <= FirstBlock
    /\ Inside(PartA) /\ Inside(PartB)
    /\ PartA.size = PartB.size /\ PartA.size # 0
    /\ \A i, j \in ImageIds \cup {FS2} :
         i # j => Beside(FactoryEntries[i], FactoryEntries[j])
    /\ FS1 \in ImageIds /\ FS2 \notin ImageIds /\ FS1 # FS2
<1> DEFINE p == FactoryEntries
           D == ImageIds \cup {FS2}
           a == PartEnd(PartA)
           b == PartEnd(PartB)
<1>1. /\ p \in [D -> [start : Nat, size : Nat \ {0}]]
      /\ \A id \in D : MaxFwd <= p[id].start
      /\ \A id \in D : PartEnd(p[id]) <= FirstBlock + 2 * Half(MemBlocks, FirstBlock)
      /\ \A i, j \in D : i # j => Beside(p[i], p[j])
      /\ PartA.size = PartB.size
      /\ DOMAIN p = D
  BY FactoryAssumption DEF FirstBlock, PartA, PartB, Beside
<1>2. FS1 \in D /\ FS2 \in D /\ FS1 \in ImageIds /\ FS2 \notin ImageIds
  BY UpgradeAssumption
<1>3. \A id \in D : /\ p[id].start \in Nat /\ p[id].size \in Nat \ {0}
                    /\ PartEnd(p[id]) \in Nat
                    /\ p[id].start < PartEnd(p[id])
                    /\ p[id].size <= PartEnd(p[id])
                    /\ p[id] \in [start : Nat, size : Nat \ {0}]
  BY <1>1 DEF PartEnd
<1>4. a \in Nat /\ b \in Nat /\ MaxFwd <= a /\ MaxFwd <= b /\ PartA.size # 0
  BY <1>1, <1>2, <1>3 DEF PartA, PartB, MaxFwd
<1>5. /\ FirstBlock \in {a, b} /\ a <= FirstBlock /\ b <= FirstBlock
  <2>1. {a, b} \subseteq 0 .. a + b /\ {a, b} # {} /\ a + b \in Nat
    BY <1>4
  <2> HIDE DEF a, b
  <2>2. /\ Largest({a, b}) \in {a, b}
        /\ \A y \in {a, b} : y <= Largest({a, b})
    BY <2>1, LargestIsLargest
  <2> QED  BY <2>2 DEF FirstBlock, a, b
<1>6. FirstBlock \in Nat /\ MemBlocks \in Nat
  BY <1>4, <1>5, FlashAssumption
<1>7. 2 * Half(MemBlocks, FirstBlock) <= MemBlocks - FirstBlock
  BY <1>6 DEF Half
<1>8. \A id \in D : PartEnd(p[id]) <= MemBlocks
  <2> SUFFICES ASSUME NEW id \in D PROVE PartEnd(p[id]) <= MemBlocks
    OBVIOUS
  <2>1. Half(MemBlocks, FirstBlock) \in Int
    BY <1>6 DEF Half
  <2>2. PartEnd(p[id]) <= FirstBlock + 2 * Half(MemBlocks, FirstBlock)
    BY <1>1
  <2>3. PartEnd(p[id]) \in Nat
    BY <1>3
  <2> HIDE DEF p
  <2> QED  BY <1>6, <1>7, <2>1, <2>2, <2>3
<1>9. \A id \in D : Inside(p[id])
  <2> SUFFICES ASSUME NEW id \in D PROVE Inside(p[id])
    OBVIOUS
  <2>1. /\ p[id].start \in MaxFwd .. MemBlocks /\ p[id].size \in 0 .. MemBlocks
    BY <1>1, <1>3, <1>6, <1>8 DEF MaxFwd
  <2>2. p[id] = [start |-> p[id].start, size |-> p[id].size]
    BY <1>3
  <2> QED  BY <1>8, <2>1, <2>2 DEF Inside
<1>10. FirstBlock \in MaxFwd .. MemBlocks
  <2>1. a <= MemBlocks /\ b <= MemBlocks
    BY <1>2, <1>8 DEF PartA, PartB
  <2> HIDE DEF a, b
  <2> QED  BY <1>4, <1>5, <1>6, <2>1 DEF MaxFwd
<1> DEFINE S == {PartEnd(p[id]) : id \in D}
<1>11. S \subseteq 0 .. MemBlocks /\ S # {}
  BY <1>2, <1>3, <1>6, <1>8
<1>12. FactoryEnd \in S /\ \A y \in S : y <= FactoryEnd
  <2>1. FactoryEnd = Largest(S)
    BY <1>1 DEF FactoryEnd
  <2> HIDE DEF S
  <2> QED  BY <1>6, <1>11, <2>1, LargestIsLargest
<1>13. \A id \in D : PartEnd(p[id]) <= FactoryEnd
  BY <1>12
<1>14. FactoryEnd \in FirstBlock .. MemBlocks
  <2>1. a <= FactoryEnd /\ b <= FactoryEnd
    BY <1>2, <1>13 DEF PartA, PartB
  <2>2. FactoryEnd \in 0 .. MemBlocks
    BY <1>11, <1>12
  <2> HIDE DEF a, b
  <2> QED  BY <1>4, <1>5, <1>6, <2>1, <2>2
<1>15. FactoryEnd <= FirstBlock + 2 * Half(MemBlocks, FirstBlock)
  BY <1>1, <1>12
<1>16. Inside(PartA) /\ Inside(PartB)
  BY <1>2, <1>9 DEF PartA, PartB
<1>17. FS1 # FS2
  BY DEF FS1, FS2
<1> QED  BY <1>1, <1>2, <1>4, <1>5, <1>9, <1>10, <1>13, <1>14, <1>15, <1>16, <1>17

\* The numbers of a partition that is inside.
LEMMA InsideFacts ==
    ASSUME NEW p, Inside(p)
    PROVE  /\ p.start \in Nat /\ p.size \in Nat /\ PartEnd(p) \in Nat
           /\ PartEnd(p) = p.start + p.size
           /\ MaxFwd <= p.start /\ PartEnd(p) <= MemBlocks
           /\ p.start <= MemBlocks /\ p.size <= MemBlocks
           /\ p = [start |-> p.start, size |-> p.size]
           /\ p \in Entry
BY FlashAssumption DEF Inside, PartEnd, MaxFwd, Entry

\* The lower region begins behind the file systems.
LEMMA LowerFacts ==
    /\ Lower.start = FirstBlock /\ Lower.size \in Nat
    /\ PartEnd(Lower) \in FirstBlock .. MemBlocks
    /\ Lower.size = Half(MemBlocks, FirstBlock)
<1>1. FirstBlock \in MaxFwd .. MemBlocks /\ MemBlocks \in Nat /\ MaxFwd \in Nat
  BY FactoryFacts, FlashAssumption DEF MaxFwd
<1>2. FirstBlock \in Nat /\ FirstBlock <= MemBlocks
  BY <1>1
<1>3. /\ Half(MemBlocks, FirstBlock) \in Nat
      /\ FirstBlock + Half(MemBlocks, FirstBlock) <= MemBlocks
  BY <1>1, <1>2 DEF Half
<1> QED  BY <1>1, <1>2, <1>3 DEF Lower, LowerRegion, PartEnd

\* The block after the file systems of the firmware that runs.
LEMMA FirstImageBlockIsFirst ==
    ASSUME FsPair(fwd[active])
    PROVE  FirstImageBlock = FirstBlock
<1> DEFINE d == fwd[active]
           E == {PartEnd(Find(d, id)) : id \in {i \in {FS1, FS2} : Found(d, i)}}
           a == PartEnd(PartA)
           b == PartEnd(PartB)
<1>1. {i \in {FS1, FS2} : Found(d, i)} = {FS1, FS2}
  BY DEF FsPair
<1>2. E = {PartEnd(Find(d, FS1)), PartEnd(Find(d, FS2))}
  BY <1>1
<1>3. E = {a, b}
  BY <1>2 DEF FsPair
<1>4. /\ a \in Nat /\ b \in Nat /\ MaxFwd \in Nat /\ MaxFwd <= FirstBlock
      /\ a <= FirstBlock /\ b <= FirstBlock /\ FirstBlock \in {a, b}
      /\ FirstBlock \in Nat
  BY FactoryFacts, InsideFacts, FlashAssumption DEF MaxFwd
<1> DEFINE S == {MaxFwd} \cup {a, b}
<1>5. S \subseteq 0 .. FirstBlock /\ S # {} /\ FirstBlock \in S
  BY <1>4
<1>6. FirstImageBlock = Largest(S)
  BY <1>3 DEF FirstImageBlock
<1> HIDE DEF a, b, S
<1>7. Largest(S) \in S /\ \A y \in S : y <= Largest(S)
  BY <1>4, <1>5, LargestIsLargest
<1>8. Largest(S) \in 0 .. FirstBlock /\ FirstBlock <= Largest(S)
  BY <1>5, <1>7
<1> QED  BY <1>4, <1>6, <1>8

\* Where the set of descriptor 0 ends.
LEMMA SetEndFacts ==
    ASSUME ZoneInv, DOMAIN fwd[0].entries # {}
    PROVE  /\ SetEnd(fwd[0]) \in 0 .. MemBlocks
           /\ \A id \in DOMAIN fwd[0].entries :
                PartEnd(fwd[0].entries[id]) <= SetEnd(fwd[0])
           /\ SetEnd(fwd[0]) <= FirstBlock + 2 * Half(MemBlocks, FirstBlock)
           /\ fwd[0].entries = FactoryEntries => SetEnd(fwd[0]) = FactoryEnd
<1> DEFINE e == fwd[0].entries
           S == {PartEnd(e[id]) : id \in DOMAIN e}
<1>1. \A id \in DOMAIN e : PartEnd(e[id]) \in 0 .. MemBlocks
  <2>1. \A id \in DOMAIN e : Inside(e[id])
    BY Indices DEF ZoneInv
  <2> QED  BY <2>1, InsideFacts, FlashAssumption
<1>2. S \subseteq 0 .. MemBlocks /\ S # {}
  BY <1>1
<1>3. SetEnd(fwd[0]) = Largest(S)
  BY DEF SetEnd, Partitions, Find
<1>4. Largest(S) \in S /\ \A y \in S : y <= Largest(S)
  <2> HIDE DEF S
  <2> QED  BY <1>2, FlashAssumption, LargestIsLargest
<1>5. \A id \in DOMAIN e : PartEnd(e[id]) <= FirstBlock + 2 * Half(MemBlocks, FirstBlock)
  <2> SUFFICES ASSUME NEW id \in DOMAIN e
               PROVE  PartEnd(e[id]) <= FirstBlock + 2 * Half(MemBlocks, FirstBlock)
    OBVIOUS
  <2>1. /\ FirstBlock \in Nat /\ Half(MemBlocks, FirstBlock) \in Nat
        /\ PartEnd(Lower) = FirstBlock + Half(MemBlocks, FirstBlock)
    <3>1. FirstBlock \in Nat
      BY FactoryFacts DEF MaxFwd
    <3> QED  BY <3>1, LowerFacts DEF PartEnd
  <2>2. CASE e[id] = FactoryEntries[id]
    <3>1. PartEnd(e[id]) <= FactoryEnd
      BY <2>2, FactoryFacts, Indices DEF ZoneInv
    <3>2. PartEnd(e[id]) \in Int /\ FactoryEnd \in Int
      BY <1>1, FactoryFacts
    <3> QED  BY <2>1, <3>1, <3>2, FactoryFacts
  <2>3. CASE e[id] # FactoryEntries[id] /\ id \in ImagesOf(fwd[0])
    <3>1. PartEnd(e[id]) <= PartEnd(Lower)
      BY <2>3 DEF ZoneInv, Within
    <3> QED  BY <1>1, <2>1, <3>1
  <2>4. CASE id \in {FS1, FS2}
    <3>1. PartEnd(e[id]) <= FirstBlock
      BY <2>4, FactoryFacts, Indices DEF ZoneInv
    <3> QED  BY <1>1, <2>1, <3>1
  <2> QED  BY <2>2, <2>3, <2>4 DEF ImagesOf
<1>6. e = FactoryEntries => SetEnd(fwd[0]) = FactoryEnd
  BY DEF SetEnd, FactoryEnd, Partitions, Find
<1> QED  BY <1>2, <1>3, <1>4, <1>5, <1>6

\* Where the next image set goes.
LEMMA TrialRegionFacts ==
    ASSUME FallbackInv, TableInv, UsedFsInv, ZoneInv, active # TrialIdx
    PROVE  /\ TrialRegion.start \in FirstBlock .. MemBlocks
           /\ TrialRegion.size \in Nat
           /\ PartEnd(TrialRegion) <= MemBlocks
           /\ Golden => TrialRegion
                          = RegionBesideGolden(MemBlocks, FactoryEnd, TrialIdx)
           /\ ~ Golden /\ TrialIdx = 0 => TrialRegion = Lower
           /\ ~ Golden /\ TrialIdx = 1 =>
                /\ PartEnd(Lower) <= TrialRegion.start
                /\ \A id \in DOMAIN fwd[0].entries :
                     PartEnd(fwd[0].entries[id]) <= TrialRegion.start
<1>1. /\ Descriptors /\ Confirmed /\ active = CurrentFwd /\ active \in FwdIdx
      /\ FsPair(fwd[active]) /\ FirstImageBlock = FirstBlock
  <2>1. Descriptors /\ Confirmed /\ active = CurrentFwd /\ active \in FwdIdx
    BY Choices DEF FallbackInv, TableInv
  <2>2. FsPair(fwd[active])
    BY <2>1 DEF UsedFsInv, Used
  <2> QED  BY <2>1, <2>2, FirstImageBlockIsFirst
<1>2. /\ MemBlocks \in Nat /\ FirstBlock \in 0 .. MemBlocks
      /\ FactoryEnd \in FirstBlock .. MemBlocks
      /\ MemBlocks \in 0 .. SizeLimit - 1 /\ SizeLimit \in Nat
  BY FlashAssumption, FactoryFacts, UpgradeAssumption, SizeAssumption DEF MaxFwd
<1>3. CASE Golden
  <2>1. FwdNum = 3 /\ TrialIdx \in {1, 2}
    BY <1>1, <1>3, SearchedWhich, Choices
  <2>2. fwd[0].entries = FactoryEntries /\ DOMAIN fwd[0].entries # {}
    BY <1>3, FactoryFacts DEF ZoneInv
  <2>3. TrialRegion = RegionBesideGolden(MemBlocks, FactoryEnd, TrialIdx)
    BY <2>1, <2>2, SetEndFacts DEF TrialRegion
  <2>4. /\ TrialRegion.start \in FirstBlock .. MemBlocks
        /\ TrialRegion.size \in Nat
        /\ PartEnd(TrialRegion) <= MemBlocks
    <3> DEFINE h == (MemBlocks - FactoryEnd) \div 2
    <3>1. FactoryEnd \in Nat /\ FactoryEnd <= MemBlocks /\ FirstBlock \in Nat
      BY <1>2
    <3>2. h \in Nat /\ FactoryEnd + 2 * h <= MemBlocks
      BY <1>2, <3>1
    <3>3. /\ TrialRegion.start = FactoryEnd + (TrialIdx - 1) * h
          /\ TrialRegion.size = h
      BY <2>3 DEF RegionBesideGolden
    <3> HIDE DEF h
    <3>4. CASE TrialIdx = 1
      <4>1. TrialRegion.start = FactoryEnd
        BY <3>1, <3>2, <3>3, <3>4
      <4> QED  BY <1>2, <3>1, <3>2, <3>3, <4>1 DEF PartEnd
    <3>5. CASE TrialIdx = 2
      <4>1. TrialRegion.start = FactoryEnd + h
        BY <3>1, <3>2, <3>3, <3>5
      <4> QED  BY <1>2, <3>1, <3>2, <3>3, <4>1 DEF PartEnd
    <3> QED  BY <2>1, <3>4, <3>5
  <2> QED  BY <1>3, <2>3, <2>4
<1>4. CASE ~ Golden /\ TrialIdx = 0
  <2>1. FwdNum = 2
    BY <1>1, <1>4, SearchedWhich
  <2>2. TrialRegion = Lower
    BY <1>1, <1>4, <2>1 DEF TrialRegion, Lower
  <2> QED  BY <1>2, <1>4, <2>2, LowerFacts
<1>5. CASE ~ Golden /\ TrialIdx = 1
  <2>1. FwdNum = 2 /\ active = 0
    <3>1. {CurrentFwd, TrialIdx} = {0, 1} /\ CurrentFwd # TrialIdx
      BY <1>1, <1>5, Choices
    <3> QED  BY <1>1, <1>5, <3>1, SearchedWhich
  <2>2. TrialRegion = UpperRegion(MemBlocks, FirstBlock, SetEnd(fwd[0]))
    BY <1>1, <1>5, <2>1 DEF TrialRegion
  <2>3. DOMAIN fwd[0].entries # {}
    BY <1>1, <2>1 DEF FsPair, Found
  <2>4. /\ SetEnd(fwd[0]) \in 0 .. FirstBlock + 2 * Half(MemBlocks, FirstBlock)
        /\ \A id \in DOMAIN fwd[0].entries :
             PartEnd(fwd[0].entries[id]) \in Int
        /\ \A id \in DOMAIN fwd[0].entries :
             PartEnd(fwd[0].entries[id]) <= SetEnd(fwd[0])
    <3>1. \A id \in DOMAIN fwd[0].entries : PartEnd(fwd[0].entries[id]) \in Int
      <4>1. \A id \in DOMAIN fwd[0].entries : Inside(fwd[0].entries[id])
        BY Indices DEF ZoneInv
      <4> QED  BY <4>1, InsideFacts
    <3>2. Half(MemBlocks, FirstBlock) \in Nat /\ FirstBlock \in Nat
      BY <1>2, LowerFacts
    <3>3. /\ SetEnd(fwd[0]) \in 0 .. MemBlocks
          /\ SetEnd(fwd[0]) <= FirstBlock + 2 * Half(MemBlocks, FirstBlock)
      BY <2>3, SetEndFacts
    <3>4. \A id \in DOMAIN fwd[0].entries :
             PartEnd(fwd[0].entries[id]) <= SetEnd(fwd[0])
      BY <2>3, SetEndFacts
    <3>5. SetEnd(fwd[0]) \in 0 .. FirstBlock + 2 * Half(MemBlocks, FirstBlock)
      BY <3>2, <3>3
    <3> QED  BY <3>1, <3>4, <3>5
  <2> DEFINE upper == UpperRegion(MemBlocks, FirstBlock, SetEnd(fwd[0]))
  <2>5. /\ Lower.start + Lower.size <= upper.start
        /\ SetEnd(fwd[0]) <= upper.start
        /\ upper.size \in Nat
        /\ upper.start + upper.size <= MemBlocks
    BY <1>2, <2>4, HalvesAreDisjoint DEF Lower
  <2>6. upper.start \in Int
    <3>1. upper.start \in {SetEnd(fwd[0]), FirstBlock + Half(MemBlocks, FirstBlock)}
      BY DEF UpperRegion
    <3>2. Half(MemBlocks, FirstBlock) \in Nat /\ FirstBlock \in Nat
      BY <1>2, LowerFacts
    <3>3. SetEnd(fwd[0]) \in Int
      BY <2>4
    <3> HIDE DEF upper
    <3> QED  BY <3>1, <3>2, <3>3
  <2> HIDE DEF upper
  <2>7. PartEnd(Lower) = Lower.start + Lower.size
    BY DEF PartEnd
  <2>8. upper.start \in FirstBlock .. MemBlocks
    BY <1>2, <2>5, <2>6, <2>7, LowerFacts
  <2>9. \A id \in DOMAIN fwd[0].entries :
             PartEnd(fwd[0].entries[id]) <= upper.start
    <3> SUFFICES ASSUME NEW id \in DOMAIN fwd[0].entries
                 PROVE  PartEnd(fwd[0].entries[id]) <= upper.start
      OBVIOUS
    <3>1. /\ PartEnd(fwd[0].entries[id]) \in Int /\ SetEnd(fwd[0]) \in Int
          /\ PartEnd(fwd[0].entries[id]) <= SetEnd(fwd[0])
      BY <2>4
    <3> QED  BY <2>5, <2>6, <3>1
  <2>10. TrialRegion = upper
    BY <2>2 DEF upper
  <2> QED  BY <1>5, <2>5, <2>7, <2>8, <2>9, <2>10 DEF PartEnd
<1>6. Golden \/ TrialIdx \in {0, 1}
  BY <1>1, Choices
<1> QED  BY <1>3, <1>4, <1>5, <1>6

\* Only three descriptors, or the first two, are ever in use.
LEMMA UsedWhich ==
    ASSUME FallbackInv, TableInv, NEW i \in Used
    PROVE  /\ i \in FwdIdx
           /\ ~ Golden => i \in {0, 1}
<1>1. i \in FwdIdx /\ (i = active \/ Valid(fwd[i]))
  BY DEF Used
<1>2. ~ Golden => i # 2
  BY <1>1, Choices DEF FallbackInv, TableInv
<1> QED  BY <1>1, <1>2, Indices

\* The images of a firmware in use are beside both file systems.
LEMMA ImagesBesideFs ==
    ASSUME FallbackInv, TableInv, ZoneInv, NEW i \in Used,
           NEW id \in ImagesOf(fwd[i]), NEW fs \in {PartA, PartB}
    PROVE  Beside(fwd[i].entries[id], fs)
<1> DEFINE p == fwd[i].entries[id]
<1>1. i \in FwdIdx /\ (~ Golden => i \in {0, 1})
  BY UsedWhich
<1>2. id \in DOMAIN fwd[i].entries /\ id \in ImageIds \cup {FS2} /\ id \notin {FS1, FS2}
  BY <1>1 DEF ZoneInv, ImagesOf
<1>3. Inside(p)
  BY <1>1, <1>2 DEF ZoneInv
<1>4. p.start \in Nat /\ PartEnd(p) \in Nat
  BY <1>3, InsideFacts
<1>5. /\ fs.start \in Nat /\ PartEnd(fs) \in Nat /\ PartEnd(fs) <= FirstBlock
      /\ FirstBlock \in Nat
  BY FactoryFacts, InsideFacts DEF MaxFwd
<1>6. CASE p = FactoryEntries[id]
  <2>1. \E k \in {FS1, FS2} : k # id /\ fs = FactoryEntries[k]
    BY <1>2 DEF PartA, PartB
  <2> QED  BY <1>2, <1>6, <2>1, FactoryFacts
<1>7. ASSUME FirstBlock <= p.start
      PROVE  Beside(p, fs)
  <2>1. PartEnd(fs) <= p.start
    BY <1>4, <1>5, <1>7
  <2> QED  BY <2>1 DEF Beside
<1>8. CASE i = 0 /\ p # FactoryEntries[id]
  <2>1. Lower.start <= p.start
    BY <1>8 DEF ZoneInv, Within
  <2> QED  BY <2>1, <1>7, LowerFacts
<1>9. CASE ~ Golden /\ i = 1
  <2>1. PartEnd(Lower) <= p.start
    BY <1>9 DEF ZoneInv
  <2>2. PartEnd(Lower) \in Int /\ FirstBlock <= PartEnd(Lower)
    BY <1>5, LowerFacts
  <2>3. FirstBlock <= p.start
    BY <1>4, <1>5, <2>1, <2>2
  <2> QED  BY <1>7, <2>3
<1>10. CASE Golden /\ i \in {1, 2}
  <2>1. RegionBesideGolden(MemBlocks, FactoryEnd, i).start <= p.start
    BY <1>10 DEF ZoneInv, Within
  <2>2. FactoryEnd \in Nat /\ MemBlocks \in Nat /\ FactoryEnd <= MemBlocks
        /\ FirstBlock <= FactoryEnd
    BY <1>5, FactoryFacts, FlashAssumption
  <2>3. FactoryEnd <= RegionBesideGolden(MemBlocks, FactoryEnd, i).start
    <3>1. (MemBlocks - FactoryEnd) \div 2 \in Nat
      BY <2>2
    <3> DEFINE h == (MemBlocks - FactoryEnd) \div 2
    <3>2. RegionBesideGolden(MemBlocks, FactoryEnd, i).start = FactoryEnd + (i - 1) * h
      BY DEF RegionBesideGolden
    <3> HIDE DEF h
    <3>3. (i - 1) * h \in Nat
      BY <1>10, <3>1 DEF h
    <3> QED  BY <2>2, <3>2, <3>3
  <2>4. RegionBesideGolden(MemBlocks, FactoryEnd, i).start \in Int
    <3>1. (MemBlocks - FactoryEnd) \div 2 \in Nat
      BY <2>2
    <3> QED  BY <1>10, <2>2, <3>1 DEF RegionBesideGolden
  <2>5. FirstBlock <= p.start
    BY <1>4, <1>5, <2>1, <2>2, <2>3, <2>4
  <2> QED  BY <1>7, <2>5
<1> QED  BY <1>1, <1>6, <1>8, <1>9, <1>10, Indices

\* A partition in the region of the next image set is beside both file
\* systems and the images of every firmware in use.
LEMMA RegionApart ==
    ASSUME FallbackInv, TableInv, UsedFsInv, ZoneInv, active # TrialIdx,
           NEW p, Inside(p), Within(p, TrialRegion)
    PROVE  /\ \A fs \in {PartA, PartB} : Beside(fs, p)
           /\ \A i \in Used \ {TrialIdx} : \A id \in ImagesOf(fwd[i]) :
                Beside(fwd[i].entries[id], p)
<1>1. /\ p.start \in Nat /\ PartEnd(p) \in Nat
      /\ TrialRegion.start \in Nat /\ PartEnd(TrialRegion) \in Nat
      /\ TrialRegion.start <= p.start /\ PartEnd(p) <= PartEnd(TrialRegion)
      /\ FirstBlock \in Nat /\ FirstBlock <= TrialRegion.start
  BY InsideFacts, TrialRegionFacts, FactoryFacts DEF Within, PartEnd, MaxFwd
<1>2. \A fs \in {PartA, PartB} : Beside(fs, p)
  <2> SUFFICES ASSUME NEW fs \in {PartA, PartB} PROVE Beside(fs, p)
    OBVIOUS
  <2>1. PartEnd(fs) \in Nat /\ PartEnd(fs) <= FirstBlock
    BY FactoryFacts, InsideFacts
  <2> QED  BY <1>1, <2>1 DEF Beside
<1>3. ASSUME NEW i \in Used \ {TrialIdx}, NEW id \in ImagesOf(fwd[i])
      PROVE  Beside(fwd[i].entries[id], p)
  <2> DEFINE q == fwd[i].entries[id]
  <2>1. i \in FwdIdx /\ (~ Golden => i \in {0, 1})
    BY UsedWhich
  <2>2. id \in DOMAIN fwd[i].entries
    BY DEF ImagesOf
  <2>3. Inside(q)
    BY <2>1, <2>2 DEF ZoneInv
  <2>4. q.start \in Nat /\ PartEnd(q) \in Nat
    BY <2>3, InsideFacts
  <2>5. CASE ~ Golden /\ i = 1
    <3>1. TrialIdx = 0
      BY <2>5, Choices DEF FallbackInv
    <3>2. PartEnd(Lower) <= q.start
      BY <2>5 DEF ZoneInv
    <3>3. TrialRegion = Lower
      BY <2>5, <3>1, TrialRegionFacts
    <3> QED  BY <1>1, <2>4, <3>2, <3>3 DEF Beside
  <2>6. CASE ~ Golden /\ i = 0
    <3>1. TrialIdx = 1
      BY <2>6, Choices DEF FallbackInv
    <3>2. PartEnd(q) <= TrialRegion.start
      BY <2>2, <2>6, <3>1, TrialRegionFacts
    <3> QED  BY <1>1, <2>4, <3>2 DEF Beside
  <2>7. CASE Golden
    <3> DEFINE one == RegionBesideGolden(MemBlocks, FactoryEnd, 1)
               two == RegionBesideGolden(MemBlocks, FactoryEnd, 2)
    <3>1. TrialIdx \in {1, 2}
      BY <2>7, Choices, Indices DEF FallbackInv
    <3>2. TrialRegion = RegionBesideGolden(MemBlocks, FactoryEnd, TrialIdx)
      BY <2>7, TrialRegionFacts
    <3>3. MemBlocks \in Nat /\ FactoryEnd \in 0 .. MemBlocks
      <4>1. FirstBlock \in Nat /\ FactoryEnd \in FirstBlock .. MemBlocks
        BY FactoryFacts DEF MaxFwd
      <4> QED  BY <4>1, FlashAssumption
    <3>4. /\ FactoryEnd <= one.start
          /\ one.start + one.size <= two.start
          /\ one.size \in Nat
      BY <3>3, RegionsBesideGoldenAreDisjoint
    <3>5. /\ one.start \in Int /\ two.start \in Int
      <4>1. (MemBlocks - FactoryEnd) \div 2 \in Nat /\ FactoryEnd \in Nat
        BY <3>3
      <4> QED  BY <4>1 DEF RegionBesideGolden
    <3>6. CASE i = 0
      <4>1. PartEnd(q) <= FactoryEnd
        BY <2>2, <2>7, <3>6, FactoryFacts DEF ZoneInv
      <4>2. TrialRegion.start \in {one.start, two.start}
        BY <3>1, <3>2
      <4> HIDE DEF one, two
      <4>3. FactoryEnd <= TrialRegion.start
        BY <3>3, <3>4, <3>5, <4>2
      <4> QED  BY <1>1, <2>4, <3>3, <4>1, <4>3 DEF Beside
    <3>7. CASE i = 1
      <4>1. Within(q, one)
        BY <2>7, <3>7 DEF ZoneInv
      <4>2. TrialRegion.start = two.start
        BY <3>1, <3>2, <3>7, <2>7
      <4> HIDE DEF one, two
      <4> QED  BY <1>1, <2>4, <3>3, <3>4, <3>5, <4>1, <4>2 DEF Beside, Within, PartEnd
    <3>8. CASE i = 2
      <4>1. Within(q, two)
        BY <2>7, <3>8 DEF ZoneInv
      <4>2. TrialRegion = one
        BY <3>1, <3>2, <3>8, <2>7
      <4> HIDE DEF one, two
      <4> QED  BY <1>1, <2>4, <3>3, <3>4, <3>5, <4>1, <4>2 DEF Beside, Within, PartEnd
    <3> QED  BY <2>1, <3>6, <3>7, <3>8, Indices
  <2> QED  BY <2>1, <2>5, <2>6, <2>7
<1> QED  BY <1>2, <1>3

-----------------------------------------------------------------------------
(* LayoutInv: what keeps the zones *)

\* No entry changes.
SameEntries ==
    /\ DOMAIN fwd' = FwdIdx
    /\ \A i \in FwdIdx : fwd'[i].entries = fwd[i].entries

\* Steps that leave all entries alone keep the zones.
LEMMA SameEntriesKeepZone ==
    ASSUME ZoneInv, SameEntries, Golden' = Golden
    PROVE  ZoneInv'
<1>1. /\ 0 \in FwdIdx /\ 1 \in FwdIdx /\ 2 \in FwdIdx
  BY Indices
<1>2. \A i \in FwdIdx : ImagesOf(fwd'[i]) = ImagesOf(fwd[i])
  BY DEF SameEntries, ImagesOf
<1> QED  BY <1>1, <1>2 DEF ZoneInv, SameEntries, ImagesOf

\* So does the erasure of a descriptor.
LEMMA ErasureKeepsZone ==
    ASSUME ZoneInv, NEW i \in FwdIdx, fwd'[i].entries = <<>>,
           \A j \in FwdIdx \ {i} : fwd'[j] = fwd[j],
           Golden' = Golden, Golden => i # 0
    PROVE  ZoneInv'
<1>1. 0 \in FwdIdx /\ 1 \in FwdIdx /\ 2 \in FwdIdx
  BY Indices
<1>2. DOMAIN fwd'[i].entries = {} /\ ImagesOf(fwd'[i]) = {}
  BY DEF ImagesOf
<1>3. /\ \A j \in FwdIdx :
           /\ DOMAIN fwd'[j].entries \subseteq ImageIds \cup {FS2}
           /\ \A id \in DOMAIN fwd'[j].entries : Inside(fwd'[j].entries[id])
           /\ \A id \in DOMAIN fwd'[j].entries \cap {FS1, FS2} :
                fwd'[j].entries[id] \in {PartA, PartB}
  <2> SUFFICES ASSUME NEW j \in FwdIdx
               PROVE  /\ DOMAIN fwd'[j].entries \subseteq ImageIds \cup {FS2}
                      /\ \A id \in DOMAIN fwd'[j].entries : Inside(fwd'[j].entries[id])
                      /\ \A id \in DOMAIN fwd'[j].entries \cap {FS1, FS2} :
                           fwd'[j].entries[id] \in {PartA, PartB}
    OBVIOUS
  <2>1. CASE j = i
    BY <1>2, <2>1
  <2>2. CASE j # i
    <3>1. fwd'[j] = fwd[j]
      BY <2>2
    <3> QED  BY <3>1 DEF ZoneInv
  <2> QED  BY <2>1, <2>2
<1>4. \A id \in ImagesOf(fwd'[0]) :
         \/ fwd'[0].entries[id] = FactoryEntries[id]
         \/ Within(fwd'[0].entries[id], Lower)
  <2>1. fwd'[0] = fwd[0] \/ i = 0
    BY <1>1
  <2> QED  BY <1>2, <2>1 DEF ZoneInv
<1>5. ASSUME Golden
      PROVE  /\ fwd'[0].entries = FactoryEntries
             /\ \A k \in {1, 2} : \A id \in ImagesOf(fwd'[k]) :
                  Within(fwd'[k].entries[id],
                         RegionBesideGolden(MemBlocks, FactoryEnd, k))
  <2>1. fwd'[0] = fwd[0]
    BY <1>1, <1>5
  <2>2. \A k \in {1, 2} : k = i \/ fwd'[k] = fwd[k]
    BY <1>1
  <2> QED  BY <1>2, <1>5, <2>1, <2>2 DEF ZoneInv
<1>6. ASSUME ~ Golden, NEW id \in ImagesOf(fwd'[1])
      PROVE  LET p == fwd'[1].entries[id]
             IN  /\ PartEnd(Lower) <= p.start
                 /\ \A id0 \in DOMAIN fwd'[0].entries :
                     PartEnd(fwd'[0].entries[id0]) <= p.start
  <2>1. i # 1 /\ fwd'[1] = fwd[1]
    BY <1>1, <1>2, <1>6
  <2>2. fwd'[0] = fwd[0] \/ DOMAIN fwd'[0].entries = {}
    BY <1>1, <1>2
  <2> QED  BY <1>6, <2>1, <2>2 DEF ZoneInv
<1> QED  BY <1>3, <1>4, <1>5, <1>6 DEF ZoneInv

\* A new entry of the trial: a file system, or an image in its region.
LEMMA NewEntryKeepsZone ==
    ASSUME FallbackInv, TableInv, UsedFsInv, ZoneInv, Late,
           NEW id \in ImageIds \cup {FS2}, NEW p,
           fwd' = WithEntry(session.trial, id, p), Golden' = Golden,
           \/ id \in {FS1, FS2} /\ p \in {PartA, PartB}
           \/ id \notin {FS1, FS2} /\ Inside(p) /\ Within(p, TrialRegion)
    PROVE  ZoneInv'
<1> DEFINE t == session.trial
<1>1. /\ t \in FwdIdx /\ t = TrialIdx /\ active # TrialIdx /\ Descriptors
      /\ 0 \in FwdIdx /\ 1 \in FwdIdx /\ 2 \in FwdIdx
      /\ Golden => t \in {1, 2}
      /\ ~ Golden => t \in {0, 1}
  BY LateTable, Indices, Choices DEF FallbackInv
<1>2. Inside(p)
  BY FactoryFacts
<1> HIDE DEF t
<1>3. /\ DOMAIN fwd' = FwdIdx
      /\ \A i \in FwdIdx \ {t} : fwd'[i].entries = fwd[i].entries
      /\ DOMAIN fwd'[t].entries = DOMAIN fwd[t].entries \cup {id}
      /\ \A x \in DOMAIN fwd[t].entries : fwd'[t].entries[x] = fwd[t].entries[x]
      /\ id \notin DOMAIN fwd[t].entries => fwd'[t].entries[id] = p
      /\ id \in DOMAIN fwd[t].entries => fwd'[t].entries[id] = fwd[t].entries[id]
  BY <1>1 DEF WithEntry, Descriptors, t
<1>4. \A i \in FwdIdx :
         /\ DOMAIN fwd'[i].entries \subseteq ImageIds \cup {FS2}
         /\ \A x \in DOMAIN fwd'[i].entries : Inside(fwd'[i].entries[x])
         /\ \A x \in DOMAIN fwd'[i].entries \cap {FS1, FS2} :
              fwd'[i].entries[x] \in {PartA, PartB}
  <2> SUFFICES ASSUME NEW i \in FwdIdx
               PROVE  /\ DOMAIN fwd'[i].entries \subseteq ImageIds \cup {FS2}
                      /\ \A x \in DOMAIN fwd'[i].entries : Inside(fwd'[i].entries[x])
                      /\ \A x \in DOMAIN fwd'[i].entries \cap {FS1, FS2} :
                           fwd'[i].entries[x] \in {PartA, PartB}
    OBVIOUS
  <2>1. /\ DOMAIN fwd[i].entries \subseteq ImageIds \cup {FS2}
        /\ \A x \in DOMAIN fwd[i].entries : Inside(fwd[i].entries[x])
        /\ \A x \in DOMAIN fwd[i].entries \cap {FS1, FS2} :
             fwd[i].entries[x] \in {PartA, PartB}
    BY DEF ZoneInv
  <2>2. CASE i # t
    <3>1. fwd'[i].entries = fwd[i].entries
      BY <1>3, <2>2
    <3> QED  BY <2>1, <3>1
  <2>3. CASE i = t
    BY <1>2, <1>3, <2>1, <2>3
  <2> QED  BY <2>2, <2>3
<1>5. \A x \in ImagesOf(fwd'[0]) :
         \/ fwd'[0].entries[x] = FactoryEntries[x]
         \/ Within(fwd'[0].entries[x], Lower)
  <2> SUFFICES ASSUME NEW x \in ImagesOf(fwd'[0])
               PROVE  \/ fwd'[0].entries[x] = FactoryEntries[x]
                      \/ Within(fwd'[0].entries[x], Lower)
    OBVIOUS
  <2>1. CASE x \in ImagesOf(fwd[0]) /\ fwd'[0].entries[x] = fwd[0].entries[x]
    BY <2>1 DEF ZoneInv
  <2>2. CASE ~ (x \in ImagesOf(fwd[0]) /\ fwd'[0].entries[x] = fwd[0].entries[x])
    <3>1. t = 0 /\ x = id /\ fwd'[0].entries[x] = p /\ id \notin {FS1, FS2}
      BY <1>1, <1>3, <2>2 DEF ImagesOf
    <3>2. TrialRegion = Lower
      BY <1>1, <3>1, TrialRegionFacts
    <3> QED  BY <3>1, <3>2
  <2> QED  BY <2>1, <2>2
<1>6. ASSUME Golden
      PROVE  /\ fwd'[0].entries = FactoryEntries
             /\ \A i \in {1, 2} : \A x \in ImagesOf(fwd'[i]) :
                  Within(fwd'[i].entries[x],
                         RegionBesideGolden(MemBlocks, FactoryEnd, i))
  <2>1. fwd'[0].entries = FactoryEntries
    BY <1>1, <1>3, <1>6 DEF ZoneInv
  <2>2. ASSUME NEW i \in {1, 2}, NEW x \in ImagesOf(fwd'[i])
        PROVE  Within(fwd'[i].entries[x],
                      RegionBesideGolden(MemBlocks, FactoryEnd, i))
    <3>1. CASE x \in ImagesOf(fwd[i]) /\ fwd'[i].entries[x] = fwd[i].entries[x]
      BY <1>6, <3>1 DEF ZoneInv
    <3>2. CASE ~ (x \in ImagesOf(fwd[i]) /\ fwd'[i].entries[x] = fwd[i].entries[x])
      <4>1. t = i /\ x = id /\ fwd'[i].entries[x] = p /\ id \notin {FS1, FS2}
        BY <1>1, <1>3, <3>2 DEF ImagesOf
      <4>2. TrialRegion = RegionBesideGolden(MemBlocks, FactoryEnd, i)
        BY <1>1, <1>6, <4>1, TrialRegionFacts
      <4> QED  BY <4>1, <4>2
    <3> QED  BY <3>1, <3>2
  <2> QED  BY <2>1, <2>2
<1>7. ASSUME ~ Golden, NEW x \in ImagesOf(fwd'[1])
      PROVE  /\ PartEnd(Lower) <= fwd'[1].entries[x].start
             /\ \A y \in DOMAIN fwd'[0].entries :
                  PartEnd(fwd'[0].entries[y]) <= fwd'[1].entries[x].start
  <2>1. CASE t = 1
    <3>1. fwd'[0].entries = fwd[0].entries
      BY <1>1, <1>3, <2>1
    <3>2. CASE x \in ImagesOf(fwd[1]) /\ fwd'[1].entries[x] = fwd[1].entries[x]
      BY <1>7, <3>1, <3>2 DEF ZoneInv
    <3>3. CASE ~ (x \in ImagesOf(fwd[1]) /\ fwd'[1].entries[x] = fwd[1].entries[x])
      <4>1. x = id /\ fwd'[1].entries[x] = p /\ id \notin {FS1, FS2}
        BY <1>3, <2>1, <3>3 DEF ImagesOf
      <4>2. /\ TrialRegion.start <= p.start /\ p.start \in Nat
            /\ TrialRegion.start \in FirstBlock .. MemBlocks
            /\ PartEnd(Lower) <= TrialRegion.start
            /\ \A y \in DOMAIN fwd[0].entries :
                  PartEnd(fwd[0].entries[y]) <= TrialRegion.start
        BY <1>1, <1>2, <1>7, <2>1, <4>1, TrialRegionFacts, InsideFacts DEF Within
      <4>3. \A y \in DOMAIN fwd[0].entries : PartEnd(fwd[0].entries[y]) \in Nat
        <5>1. \A y \in DOMAIN fwd[0].entries : Inside(fwd[0].entries[y])
          BY <1>1 DEF ZoneInv
        <5> QED  BY <5>1, InsideFacts
      <4>4. PartEnd(Lower) \in Int /\ FirstBlock \in Int
        BY LowerFacts, FactoryFacts
      <4>5. PartEnd(Lower) <= p.start
        BY <4>2, <4>4
      <4>6. \A y \in DOMAIN fwd[0].entries : PartEnd(fwd[0].entries[y]) <= p.start
        BY <4>2, <4>3, <4>4
      <4> QED  BY <3>1, <4>1, <4>5, <4>6
    <3> QED  BY <3>2, <3>3
  <2>2. CASE t = 0
    <3>1. fwd'[1].entries = fwd[1].entries /\ x \in ImagesOf(fwd[1])
      BY <1>1, <1>3, <2>2 DEF ImagesOf
    <3> DEFINE q == fwd[1].entries[x]
    <3>2. /\ PartEnd(Lower) <= q.start
          /\ \A y \in DOMAIN fwd[0].entries : PartEnd(fwd[0].entries[y]) <= q.start
      BY <1>7, <3>1 DEF ZoneInv
    <3>3. Inside(q)
      BY <1>1, <3>1 DEF ZoneInv, ImagesOf
    <3>4. q.start \in Nat
      BY <3>3, InsideFacts
    <3>5. PartEnd(p) <= q.start
      <4>1. PartEnd(p) <= PartEnd(Lower)
        <5>1. CASE id \in {FS1, FS2} /\ p \in {PartA, PartB}
          <6>1. PartEnd(p) \in Nat /\ PartEnd(p) <= FirstBlock /\ FirstBlock \in Nat
            BY <1>2, <5>1, FactoryFacts, InsideFacts DEF MaxFwd
          <6> QED  BY <6>1, LowerFacts
        <5>2. CASE id \notin {FS1, FS2} /\ Within(p, TrialRegion)
          <6>1. TrialRegion = Lower
            BY <1>1, <1>7, <2>2, TrialRegionFacts
          <6> QED  BY <5>2, <6>1 DEF Within
        <5> QED  BY <5>1, <5>2
      <4>2. PartEnd(p) \in Int /\ PartEnd(Lower) \in Int
        BY <1>2, InsideFacts, LowerFacts, FactoryFacts
      <4> QED  BY <3>2, <3>4, <4>1, <4>2
    <3>6. \A y \in DOMAIN fwd'[0].entries :
             \/ /\ y \in DOMAIN fwd[0].entries
                /\ fwd'[0].entries[y] = fwd[0].entries[y]
             \/ fwd'[0].entries[y] = p
      BY <1>3, <2>2
    <3> QED  BY <3>1, <3>2, <3>5, <3>6
  <2> QED  BY <1>1, <1>7, <2>1, <2>2
<1> QED  BY <1>4, <1>5, <1>6, <1>7 DEF ZoneInv

-----------------------------------------------------------------------------
(* LayoutInv: turns after the erasure *)

OthersSame == \A i \in FwdIdx \ {session.trial} : fwd'[i].entries = fwd[i].entries

\* The region and the places do not move while only the trial's entries do.
LEMMA PlacesStay ==
    ASSUME FallbackInv, TableInv, LateTurn, OthersSame
    PROVE  /\ Late /\ Late' /\ Chosen /\ Chosen'
           /\ session'.trial = session.trial /\ session.trial = TrialIdx
           /\ active' = active /\ active # TrialIdx
           /\ Golden' = Golden /\ TrialIdx' = TrialIdx
           /\ TrialRegion' = TrialRegion
           /\ fwd'[active].entries = fwd[active].entries
           /\ Used' = Used /\ session.trial \notin Used
           /\ \A j \in 1 .. NImages : PlaceOf(j)' = PlaceOf(j)
           /\ UNCHANGED <<CurrentFwd, TrialFwds>>
<1>1. /\ Late /\ Descriptors /\ Confirmed /\ SameTable
      /\ UNCHANGED <<active, boot_type>>
      /\ session'.trial = session.trial
      /\ session'.state \notin Early /\ session' # NoSession
  BY DEF LateTurn, FallbackInv
<1>2. Late' /\ Chosen /\ Chosen'
  BY <1>1 DEF Late, Chosen, Early
<1>3. /\ session.trial = TrialIdx /\ active = CurrentFwd /\ active # TrialIdx
      /\ active \in FwdIdx /\ session.trial \in FwdIdx
      /\ ~ Valid(fwd[session.trial])
  BY <1>1, LateTable
<1>4. /\ Golden' = Golden /\ FwdNum' = FwdNum
      /\ CurrentFwd' = CurrentFwd /\ TrialIdx' = TrialIdx
      /\ TrialFwds' = TrialFwds
  BY <1>1, SameSearches
<1>5. fwd'[active].entries = fwd[active].entries
  BY <1>3 DEF OthersSame
<1>6. Used' = Used /\ session.trial \notin Used
  BY <1>1, <1>3 DEF Used, SameTable
<1>7. TrialIdx # 0 => fwd'[0].entries = fwd[0].entries
  BY <1>3, Indices DEF OthersSame
<1>8. FwdNum = 3 => TrialIdx # 0
  <2>1. FwdNum = 3 => Golden
    BY <1>1, SearchedWhich
  <2> QED  BY <1>1, <2>1, Choices
<1>9. FirstImageBlock' = FirstImageBlock
  BY <1>1, <1>5 DEF FirstImageBlock, Found, Find
<1>10. TrialIdx # 0 => SetEnd(fwd'[0]) = SetEnd(fwd[0])
  BY <1>7 DEF SetEnd, Partitions, Find
<1>11. TrialRegion' = TrialRegion
  BY <1>4, <1>8, <1>9, <1>10 DEF TrialRegion
<1>12. Find(fwd'[active], FS2) = Find(fwd[active], FS2)
  BY <1>5 DEF Find
<1>13. \A j \in 1 .. NImages : PlaceOf(j)' = PlaceOf(j)
  BY <1>1, <1>11, <1>12 DEF PlaceOf, Place
<1> QED  BY <1>1, <1>2, <1>3, <1>4, <1>5, <1>6, <1>11, <1>13

\* A late turn keeps the file systems of what is in use.
LEMMA LateKeepsUsedFs ==
    ASSUME FallbackInv, TableInv, UsedFsInv, LateTurn, OthersSame
    PROVE  UsedFsInv'
<1>1. Used' = Used /\ session.trial \notin Used
  BY PlacesStay
<1>2. \A i \in Used : fwd'[i].entries = fwd[i].entries
  BY <1>1 DEF Used, OthersSame
<1> QED  BY <1>1, <1>2 DEF UsedFsInv, FsPair, Found, Find

\* Where the turn may lead when nothing of the layout changes.
StateMoves ==
    \/ session'.state = session.state
    \/ /\ session.state = "receive"
       /\ session'.state = IF session.is_first THEN "config" ELSE "image"
    \/ session.state \in {"config", "image"} /\ session'.state = "receive"
    \/ session.state = "duplicate_fs" /\ session'.state = "finish"

SameLayout ==
    /\ session.state \notin Unprepared
    /\ StateMoves
    /\ session'.mem_start = session.mem_start /\ session'.mem_size = session.mem_size
    /\ session'.index = session.index /\ session'.is_first = session.is_first
    /\ session'.part = session.part /\ session'.wrt_count = session.wrt_count
    /\ session'.wrt_length = session.wrt_length

\* A late turn that touches neither entries nor layout keeps the map.
LEMMA SameLayoutKeeps ==
    ASSUME FallbackInv, TableInv, LayoutInv, LateTurn, SameEntries, SameLayout
    PROVE  MapInv'
<1>1. OthersSame
  BY DEF SameEntries, OthersSame
<1>2. /\ Late /\ Late' /\ Chosen /\ Chosen'
      /\ session'.trial = session.trial /\ session.trial = TrialIdx
      /\ active' = active
      /\ Golden' = Golden
      /\ TrialRegion' = TrialRegion
      /\ \A j \in 1 .. NImages : PlaceOf(j)' = PlaceOf(j)
  BY <1>1, PlacesStay
<1>3. /\ fwd'[session.trial].entries = fwd[session.trial].entries
      /\ fwd'[active].entries = fwd[active].entries
  BY <1>2, LateTable DEF SameEntries
<1>4. UsedFsInv' /\ ZoneInv'
  BY <1>1, <1>2, LateKeepsUsedFs, SameEntriesKeepZone DEF LayoutInv, MapInv
<1>5. RegionInv'
  BY <1>2 DEF LayoutInv, MapInv, RegionInv, SameLayout, StateMoves, Unprepared
<1>6. session'.state \notin Unprepared /\ session.state \notin Unprepared
  BY DEF SameLayout, StateMoves, Unprepared
<1>7. SwapInv'
  BY <1>2, <1>3, <1>6 DEF LayoutInv, MapInv, SwapInv, Found, Find
<1>8. EntryInv'
  <2>1. \A j \in 1 .. NImages :
          /\ j < session'.index => Found(fwd'[session'.trial], Images[j].id)
          /\ Found(fwd'[session'.trial], Images[j].id)
               => Find(fwd'[session'.trial], Images[j].id) = PlaceOf(j)'
    BY <1>2, <1>3 DEF LayoutInv, MapInv, EntryInv, Found, Find, SameLayout
  <2>2. session'.part # NoPart /\ ~ session'.is_first =>
             \E j \in 1 .. NImages :
               /\ j = session'.index
               /\ session'.part = PlaceOf(j)'
               /\ Found(fwd'[session'.trial], Images[j].id)
    <3> SUFFICES ASSUME session.part # NoPart, ~ session.is_first
                 PROVE  \E j \in 1 .. NImages :
                          /\ j = session.index
                          /\ session.part = PlaceOf(j)'
                          /\ Found(fwd'[session.trial], Images[j].id)
      BY <1>2 DEF SameLayout
    <3>1. PICK j \in 1 .. NImages :
            /\ j = session.index
            /\ session.part = PlaceOf(j)
            /\ Found(fwd[session.trial], Images[j].id)
      BY <1>2 DEF LayoutInv, MapInv, EntryInv
    <3> QED  BY <1>2, <1>3, <3>1 DEF Found
  <2>3. session'.is_first =>
             /\ session'.wrt_length = 0 /\ session'.wrt_count = 0
             /\ \/ session'.state = "erase_fs2" /\ packet' = NoPacket
                \/ session'.part = NoPart
    <3>1. session.state # "erase_fs2"
      BY <1>6 DEF Unprepared
    <3> QED  BY <1>2, <3>1 DEF LayoutInv, MapInv, EntryInv, SameLayout
  <2>4. session'.wrt_length # 0 =>
             /\ session'.index <= NImages
             /\ session'.wrt_length = Images[session'.index].len
             /\ session'.wrt_count \in 0 .. session'.wrt_length
             /\ session'.part # NoPart => session'.wrt_count < session'.wrt_length
    BY <1>2 DEF LayoutInv, MapInv, EntryInv, SameLayout
  <2> QED  BY <2>1, <2>2, <2>3, <2>4 DEF EntryInv
<1> QED  BY <1>4, <1>5, <1>7, <1>8 DEF MapInv

\* No trial is chosen afterwards.
LEMMA UnchosenKeepsLayout ==
    ASSUME ~ Chosen'
    PROVE  RegionInv' /\ SwapInv' /\ EntryInv'
<1>1. ~ Late'
  BY DEF Late, Chosen, Early
<1> QED  BY <1>1 DEF RegionInv, SwapInv, EntryInv

\* The facts every turn of the session starts from, with its types.
LEMMA TypedTurn ==
    ASSUME FallbackInv, LayoutInv, NEW state, Processing(state)
    PROVE  /\ session # NoSession /\ packet # NoPacket
           /\ session \in Session /\ session.state = state
           /\ DOMAIN fwd = FwdIdx
BY Turn DEF LayoutInv, CountInv, Processing, Descriptors

\* A table left alone has the same entries.
LEMMA UnchangedEntries ==
    ASSUME FallbackInv, UNCHANGED fwd
    PROVE  SameEntries
BY DEF SameEntries, FallbackInv, Descriptors

\* A request inside an upload keeps the map.
LEMMA UploadLaterKeepsMap ==
    ASSUME FallbackInv, TableInv, LayoutInv, NEW v, NEW off \in Nat, NEW n,
           Upload(v, off, n), off # 0
    PROVE  MapInv'
<1>1. /\ UNCHANGED fwd /\ upload_off # 0 /\ session # NoSession
      /\ session' = [session EXCEPT !.buf_offset = 0]
      /\ session \in Session
  BY DEF Upload, tableVars, LayoutInv, CountInv
<1>2. LateTurn
  BY UploadIsLate
<1>3. session.state \notin Unprepared
  BY <1>1, <1>2 DEF LateTurn, LayoutInv, MapInv, SwapInv, Unprepared
<1>4. SameLayout
  BY <1>1, <1>3 DEF SameLayout, StateMoves, Session
<1> QED  BY <1>1, <1>2, <1>4, UnchangedEntries, SameLayoutKeeps

\* The turns that only count keep it.
LEMMA ReceiveDataKeepsMap ==
    ASSUME FallbackInv, TableInv, LayoutInv, ReceiveData
    PROVE  MapInv'
<1>1. /\ UNCHANGED fwd /\ session \in Session /\ session.state = "receive"
  BY TypedTurn DEF ReceiveData, tableVars
<1>2. \/ session' = session
      \/ session' = [session EXCEPT
                        !.buf_len = packet.len - session.buf_offset,
                        !.buf_offset = 0,
                        !.state = IF session.is_first THEN "config" ELSE "image"]
  BY DEF ReceiveData
<1>3. SameLayout
  BY <1>1, <1>2 DEF SameLayout, StateMoves, Session, Unprepared
<1> QED  BY <1>1, <1>3, UnchangedEntries, ReceiveDataIsLate, SameLayoutKeeps

LEMMA ConfigWithoutBufferKeepsMap ==
    ASSUME FallbackInv, TableInv, LayoutInv, ConfigWithoutBuffer
    PROVE  MapInv'
<1>1. UNCHANGED <<fwd, session>> /\ session.state = "config"
  BY TypedTurn DEF ConfigWithoutBuffer, tableVars, Fail
<1>2. SameLayout
  BY <1>1 DEF SameLayout, StateMoves, Unprepared
<1> QED  BY <1>1, <1>2, UnchangedEntries, ConfigWithoutBufferIsLate, SameLayoutKeeps

LEMMA PacketConsumedKeepsMap ==
    ASSUME FallbackInv, TableInv, LayoutInv, PacketConsumed
    PROVE  MapInv'
<1>1. /\ UNCHANGED fwd /\ session.state = "image" /\ session \in Session
      /\ session' = [session EXCEPT !.state = "receive"]
  BY TypedTurn DEF PacketConsumed, tableVars, Continue
<1>2. SameLayout
  BY <1>1 DEF SameLayout, StateMoves, Unprepared, Session
<1> QED  BY <1>1, <1>2, UnchangedEntries, PacketConsumedIsLate, SameLayoutKeeps

LEMMA WriteWithoutHandleKeepsMap ==
    ASSUME FallbackInv, TableInv, LayoutInv, WriteWithoutHandle
    PROVE  MapInv'
<1>1. /\ UNCHANGED fwd /\ session.state = "image" /\ session \in Session
      /\ session' = [session EXCEPT !.digest = FALSE]
  BY TypedTurn DEF WriteWithoutHandle, tableVars, Fail
<1>2. SameLayout
  BY <1>1 DEF SameLayout, StateMoves, Unprepared, Session
<1> QED  BY <1>1, <1>2, UnchangedEntries, WriteWithoutHandleIsLate, SameLayoutKeeps

LEMMA DuplicateFsKeepsMap ==
    ASSUME FallbackInv, TableInv, LayoutInv, DuplicateFs
    PROVE  MapInv'
<1>1. /\ UNCHANGED fwd /\ session.state = "duplicate_fs" /\ session \in Session
      /\ session' \in {session, [session EXCEPT !.state = "finish"]}
  BY TypedTurn DEF DuplicateFs, Continue, Fail
<1>2. SameLayout
  BY <1>1 DEF SameLayout, StateMoves, Unprepared, Session
<1> QED  BY <1>1, <1>2, UnchangedEntries, DuplicateFsIsLate, SameLayoutKeeps

\* The second file system is erased, or the handle to it is left behind.
LEMMA EraseSecondFsKeepsMap ==
    ASSUME FallbackInv, TableInv, LayoutInv, EraseSecondFs
    PROVE  MapInv'
<1>1. /\ UNCHANGED fwd /\ session.state = "erase_fs2" /\ session \in Session
      /\ packet # NoPacket
  BY TypedTurn DEF EraseSecondFs
<1>2. \/ /\ session' = [session EXCEPT !.state = "prepare_fs"]
         /\ UNCHANGED <<packet, upload_off>>
      \/ /\ \/ session' = [session EXCEPT !.part = Find(fwd[active], FS2)]
            \/ session' = session
         /\ packet' = NoPacket /\ UNCHANGED upload_off
  BY DEF EraseSecondFs, Continue, Fail, Reply
<1>3. LateTurn /\ SameEntries /\ OthersSame
  BY <1>1, EraseSecondFsIsLate, UnchangedEntries DEF OthersSame, SameEntries
<1>4. /\ session'.mem_start = session.mem_start /\ session'.mem_size = session.mem_size
      /\ session'.index = session.index /\ session'.is_first = session.is_first
      /\ session'.wrt_count = session.wrt_count
      /\ session'.wrt_length = session.wrt_length
      /\ session'.state \in Unprepared /\ session.state \in Unprepared
      /\ UNCHANGED upload_off
  BY <1>1, <1>2 DEF Session, Unprepared
<1>5. \/ session'.part = session.part
      \/ session'.state = "erase_fs2" /\ packet' = NoPacket
  BY <1>1, <1>2 DEF Session
<1>6. /\ Late /\ Late' /\ Chosen /\ Chosen'
      /\ session'.trial = session.trial /\ active' = active
      /\ Golden' = Golden /\ TrialRegion' = TrialRegion
      /\ \A j \in 1 .. NImages : PlaceOf(j)' = PlaceOf(j)
  BY <1>3, PlacesStay
<1>7. session.is_first
  BY <1>1, <1>6 DEF LayoutInv, MapInv, RegionInv, Unprepared
<1>8. UsedFsInv' /\ ZoneInv'
  BY <1>3, <1>6, LateKeepsUsedFs, SameEntriesKeepZone DEF LayoutInv, MapInv
<1>9. RegionInv'
  BY <1>1, <1>4, <1>6 DEF LayoutInv, MapInv, RegionInv, Unprepared
<1>10. SwapInv'
  BY <1>1, <1>4, <1>6 DEF LayoutInv, MapInv, SwapInv
<1>11. EntryInv'
  <2>1. \A j \in 1 .. NImages :
          /\ j < session'.index => Found(fwd'[session'.trial], Images[j].id)
          /\ Found(fwd'[session'.trial], Images[j].id)
               => Find(fwd'[session'.trial], Images[j].id) = PlaceOf(j)'
    BY <1>1, <1>4, <1>6 DEF LayoutInv, MapInv, EntryInv
  <2>2. session'.is_first =>
             /\ session'.wrt_length = 0 /\ session'.wrt_count = 0
             /\ \/ session'.state = "erase_fs2" /\ packet' = NoPacket
                \/ session'.part = NoPart
    BY <1>1, <1>4, <1>5, <1>6 DEF LayoutInv, MapInv, EntryInv
  <2>3. session'.is_first /\ session'.wrt_length = 0
    BY <1>4, <1>7, <2>2
  <2> QED  BY <2>1, <2>2, <2>3 DEF EntryInv
<1> QED  BY <1>8, <1>9, <1>10, <1>11 DEF MapInv

\* The partition of the next image is the place of the image in its region.
LEMMA NextPartIsPlace ==
    ASSUME FallbackInv, TableInv, LayoutInv, Processing("image")
    PROVE  /\ Late /\ Chosen /\ ~ session.is_first
           /\ session.index \in 1 .. NImages
           /\ NextPart = PlaceOf(session.index)
           /\ Image = Images[session.index] /\ Image.id \in ImageIds
           /\ Image.id # FS2
           /\ Image.id = FS1 => NextPart \in {PartA, PartB}
           /\ Image.id # FS1 => Inside(NextPart) /\ Within(NextPart, TrialRegion)
<1> DEFINE j == session.index
<1>1. /\ session # NoSession /\ session \in Session /\ session.state = "image"
  BY TypedTurn
<1>2. Late /\ Chosen
  BY <1>1 DEF Late, Chosen, Early
<1>3. /\ ~ session.is_first /\ ~ (j > NImages)
      /\ session.mem_size = TrialRegion.size
      /\ session.mem_start = TrialRegion.start + DiskBefore[j - 1]
      /\ TotalDisk <= session.mem_size
  BY <1>1, <1>2 DEF LayoutInv, MapInv, RegionInv
<1>4. j \in 1 .. NImages /\ j - 1 \in 0 .. NImages /\ j \in 0 .. NImages
      /\ NImages \in 0 .. NImages /\ NImages \in Nat
  <2>1. j \in 1 .. NImages + 1 /\ NImages \in Nat
    BY <1>1, ImagesTyped DEF Session
  <2> HIDE DEF j
  <2> QED  BY <1>3, <2>1
<1>5. Image = Images[j] /\ Image.id \in ImageIds /\ Image.id # FS2
  BY <1>4, UpgradeAssumption DEF Image, ImageIds
<1>6. NextPart = PlaceOf(j)
  BY <1>3, <1>5 DEF NextPart, PlaceOf, Place
<1>7. active # TrialIdx /\ active \in FwdIdx
  BY <1>2, LateTable
<1>8. FsPair(fwd[active])
  BY <1>7 DEF LayoutInv, MapInv, UsedFsInv, Used
<1>9. Image.id = FS1 => NextPart \in {PartA, PartB}
  BY <1>8 DEF NextPart, FsPair
<1>10. ASSUME Image.id # FS1
       PROVE  Inside(NextPart) /\ Within(NextPart, TrialRegion)
  <2>1. /\ TrialRegion.start \in FirstBlock .. MemBlocks
        /\ TrialRegion.size \in Nat
        /\ PartEnd(TrialRegion) <= MemBlocks
    BY <1>7, TrialRegionFacts DEF LayoutInv, MapInv
  <2>2. FirstBlock \in MaxFwd .. MemBlocks /\ MaxFwd \in Nat /\ MemBlocks \in Nat
    BY FactoryFacts, FlashAssumption DEF MaxFwd
  <2>3. /\ DiskBefore[j - 1] \in Nat /\ DiskBefore[NImages] \in Nat
        /\ DiskBefore[j] = DiskBefore[j - 1] + Image.disk
        /\ DiskBefore[j] <= DiskBefore[NImages]
        /\ Image.disk \in Nat
    BY <1>4, <1>5, <1>10, DiskBeforeEquations, DiskBeforeGrows, ImagesTyped, SMTT(20)
       DEF Reserved
  <2> DEFINE a == TrialRegion.start  s == TrialRegion.size
             b == DiskBefore[j - 1]  d == Image.disk
  <2>4. NextPart = [start |-> a + b, size |-> d]
    BY <1>3, <1>10 DEF NextPart
  <2>5. b + d <= s
    <3>1. DiskBefore[j] = b + d /\ DiskBefore[j] <= DiskBefore[NImages]
      BY <2>3
    <3>2. DiskBefore[NImages] <= s
      BY <1>3 DEF TotalDisk
    <3>3. b \in Nat /\ d \in Nat /\ s \in Nat /\ DiskBefore[NImages] \in Nat
      BY <2>1, <2>3
    <3> HIDE DEF b, d, s
    <3> QED  BY <3>1, <3>2, <3>3
  <2>6. a + s <= MemBlocks
    BY <2>1 DEF PartEnd
  <2>7. /\ a \in Nat /\ s \in Nat /\ b \in Nat /\ d \in Nat /\ MaxFwd <= a
    BY <2>1, <2>2, <2>3
  <2> HIDE DEF a, b, s, d
  <2>8. /\ a + b \in MaxFwd .. MemBlocks /\ d \in 0 .. MemBlocks
        /\ (a + b) + d <= MemBlocks /\ a <= a + b /\ (a + b) + d <= a + s
    BY <2>2, <2>5, <2>6, <2>7
  <2>9. PartEnd(TrialRegion) = a + s /\ TrialRegion.start = a
    BY DEF PartEnd, a, s
  <2> QED  BY <2>4, <2>8, <2>9 DEF Inside, Within, PartEnd
<1> QED  BY <1>2, <1>3, <1>4, <1>5, <1>6, <1>9, <1>10

\* What a turn on an image does to the entries of the trial.
LEMMA ImageEntries ==
    ASSUME FallbackInv, TableInv, LayoutInv, Processing("image"), LateTurn,
           \/ UNCHANGED fwd
           \/ fwd' = WithEntry(session.trial, Image.id, NextPart)
    PROVE  /\ OthersSame /\ UsedFsInv' /\ ZoneInv'
           /\ Found(fwd'[session.trial], FS2)
           /\ Find(fwd'[session.trial], FS2) = Find(fwd[active], FS1)
           /\ Found(fwd'[session.trial], FS1) =>
                Find(fwd'[session.trial], FS1) = Find(fwd[active], FS2)
           /\ \A j \in 1 .. NImages :
                /\ Found(fwd[session.trial], Images[j].id) =>
                     Found(fwd'[session.trial], Images[j].id)
                /\ Found(fwd'[session.trial], Images[j].id) =>
                     Find(fwd'[session.trial], Images[j].id) = PlaceOf(j)
           /\ fwd' = WithEntry(session.trial, Image.id, NextPart) =>
                Found(fwd'[session.trial], Image.id)
<1> DEFINE t == session.trial  d == fwd[t]
<1>1. /\ Late /\ session.index \in 1 .. NImages
      /\ NextPart = PlaceOf(session.index)
      /\ Image = Images[session.index] /\ Image.id \in ImageIds
      /\ Image.id # FS2
      /\ Image.id = FS1 => NextPart \in {PartA, PartB}
      /\ Image.id # FS1 => Inside(NextPart) /\ Within(NextPart, TrialRegion)
  BY NextPartIsPlace
<1>2. t \in FwdIdx /\ Descriptors /\ session.state = "image"
  BY <1>1, LateTable, TypedTurn DEF FallbackInv
<1>3. /\ Found(d, FS2) /\ Find(d, FS2) = Find(fwd[active], FS1)
      /\ Found(d, FS1) => Find(d, FS1) = Find(fwd[active], FS2)
      /\ \A j \in 1 .. NImages :
           Found(d, Images[j].id) => Find(d, Images[j].id) = PlaceOf(j)
  BY <1>1, <1>2 DEF LayoutInv, MapInv, SwapInv, EntryInv, Unprepared
<1>4. CASE UNCHANGED fwd
  <2>1. OthersSame /\ SameEntries
    BY <1>4, UnchangedEntries DEF OthersSame
  <2>2. UsedFsInv' /\ ZoneInv'
    BY <2>1, PlacesStay, LateKeepsUsedFs, SameEntriesKeepZone DEF LayoutInv, MapInv
  <2>3. fwd' # WithEntry(t, Image.id, NextPart) \/ Found(d, Image.id)
    <3>1. ASSUME fwd' = WithEntry(t, Image.id, NextPart)
          PROVE  Found(fwd'[t], Image.id)
      BY <1>2, <3>1 DEF WithEntry, Found, Descriptors
    <3> QED  BY <1>4, <3>1
  <2> QED  BY <1>3, <1>4, <2>1, <2>2, <2>3
<1>5. CASE fwd' = WithEntry(t, Image.id, NextPart)
  <2>1. /\ \A i \in FwdIdx \ {t} : fwd'[i].entries = fwd[i].entries
        /\ DOMAIN fwd'[t].entries = DOMAIN d.entries \cup {Image.id}
        /\ \A x \in DOMAIN d.entries : fwd'[t].entries[x] = d.entries[x]
        /\ Image.id \notin DOMAIN d.entries => fwd'[t].entries[Image.id] = NextPart
    BY <1>2, <1>5 DEF WithEntry, Descriptors
  <2>2. OthersSame
    BY <2>1 DEF OthersSame
  <2>3. Golden' = Golden
    BY <2>2, PlacesStay
  <2>4. UsedFsInv' /\ ZoneInv'
    <3>1. \/ Image.id \in {FS1, FS2} /\ NextPart \in {PartA, PartB}
          \/ /\ Image.id \notin {FS1, FS2}
             /\ Inside(NextPart) /\ Within(NextPart, TrialRegion)
      BY <1>1
    <3> QED  BY <1>1, <1>5, <2>2, <2>3, <3>1, LateKeepsUsedFs, NewEntryKeepsZone
               DEF LayoutInv, MapInv
  <2>5. /\ Found(fwd'[t], FS2) /\ Find(fwd'[t], FS2) = Find(fwd[active], FS1)
    BY <1>3, <2>1 DEF Found, Find
  <2>6. Found(fwd'[t], FS1) => Find(fwd'[t], FS1) = Find(fwd[active], FS2)
    <3>1. Image.id = FS1 => NextPart = Find(fwd[active], FS2)
      BY DEF NextPart
    <3> QED  BY <1>3, <2>1, <3>1 DEF Found, Find
  <2>7. ASSUME NEW j \in 1 .. NImages
        PROVE  /\ Found(d, Images[j].id) => Found(fwd'[t], Images[j].id)
               /\ Found(fwd'[t], Images[j].id) =>
                     Find(fwd'[t], Images[j].id) = PlaceOf(j)
    <3>1. Images[j].id = Image.id => j = session.index
      BY <1>1, ImagesTyped, UpgradeAssumption
    <3> QED  BY <1>1, <1>3, <2>1, <3>1 DEF Found, Find
  <2>8. Found(fwd'[t], Image.id)
    BY <2>1 DEF Found
  <2> QED  BY <2>2, <2>4, <2>5, <2>6, <2>7, <2>8
<1> QED  BY <1>4, <1>5

\* A turn on an image that stays on it.
LEMMA SameImageKeepsMap ==
    ASSUME FallbackInv, TableInv, LayoutInv, Processing("image"), LateTurn,
           \/ UNCHANGED fwd
           \/ fwd' = WithEntry(session.trial, Image.id, NextPart),
           session'.state = "image", session'.is_first = session.is_first,
           session'.index = session.index, session'.mem_start = session.mem_start,
           session'.mem_size = session.mem_size,
           \/ session'.part \in {NoPart, session.part}
           \/ /\ fwd' = WithEntry(session.trial, Image.id, NextPart)
              /\ session'.part = NextPart,
           session'.wrt_length # 0 =>
             /\ session'.wrt_length = Image.len
             /\ session'.wrt_count \in 0 .. session'.wrt_length
             /\ session'.part # NoPart => session'.wrt_count < session'.wrt_length
    PROVE  MapInv'
<1> DEFINE t == session.trial
<1>1. /\ Late /\ session.index \in 1 .. NImages /\ ~ session.is_first
      /\ NextPart = PlaceOf(session.index)
      /\ Image = Images[session.index]
      /\ session.state = "image"
  BY NextPartIsPlace, TypedTurn
<1>2. /\ OthersSame /\ UsedFsInv' /\ ZoneInv'
      /\ Found(fwd'[t], FS2)
      /\ Find(fwd'[t], FS2) = Find(fwd[active], FS1)
      /\ Found(fwd'[t], FS1) => Find(fwd'[t], FS1) = Find(fwd[active], FS2)
      /\ \A j \in 1 .. NImages :
           /\ Found(fwd[t], Images[j].id) => Found(fwd'[t], Images[j].id)
           /\ Found(fwd'[t], Images[j].id) =>
                Find(fwd'[t], Images[j].id) = PlaceOf(j)
      /\ fwd' = WithEntry(t, Image.id, NextPart) => Found(fwd'[t], Image.id)
  BY ImageEntries
<1>3. /\ Late /\ Late' /\ Chosen /\ Chosen'
      /\ session'.trial = t /\ active' = active
      /\ TrialRegion' = TrialRegion
      /\ fwd'[active].entries = fwd[active].entries
      /\ \A j \in 1 .. NImages : PlaceOf(j)' = PlaceOf(j)
  BY <1>2, PlacesStay
<1>4. RegionInv'
  BY <1>1, <1>3 DEF LayoutInv, MapInv, RegionInv, Unprepared
<1>5. SwapInv'
  <2>1. session'.state \notin Unprepared
    BY DEF Unprepared
  <2>2. /\ Find(fwd'[active'], FS1) = Find(fwd[active], FS1)
        /\ Find(fwd'[active'], FS2) = Find(fwd[active], FS2)
    BY <1>3 DEF Find
  <2> QED  BY <1>2, <1>3, <2>1, <2>2 DEF SwapInv
<1>6. EntryInv'
  <2>1. \A j \in 1 .. NImages :
          /\ j < session'.index => Found(fwd'[session'.trial], Images[j].id)
          /\ Found(fwd'[session'.trial], Images[j].id)
               => Find(fwd'[session'.trial], Images[j].id) = PlaceOf(j)'
    BY <1>1, <1>2, <1>3 DEF LayoutInv, MapInv, EntryInv
  <2>2. session'.part # NoPart =>
             \E j \in 1 .. NImages :
               /\ j = session'.index
               /\ session'.part = PlaceOf(j)'
               /\ Found(fwd'[session'.trial], Images[j].id)
    <3>1. CASE session'.part = session.part /\ session.part # NoPart
      BY <1>1, <1>2, <1>3, <3>1 DEF LayoutInv, MapInv, EntryInv
    <3>2. CASE /\ fwd' = WithEntry(session.trial, Image.id, NextPart)
               /\ session'.part = NextPart
      BY <1>1, <1>2, <1>3, <3>2
    <3> QED  BY <3>1, <3>2
  <2>3. session'.index <= NImages
    BY <1>1
  <2> QED  BY <1>1, <2>1, <2>2, <2>3 DEF EntryInv
<1> QED  BY <1>2, <1>4, <1>5, <1>6 DEF MapInv

\* A turn on an image that goes on to the next.
LEMMA NextImageKeepsMap ==
    ASSUME FallbackInv, TableInv, LayoutInv, Processing("image"), LateTurn,
           \/ UNCHANGED fwd
           \/ fwd' = WithEntry(session.trial, Image.id, NextPart),
           session'.state = IF session.index = NImages THEN "duplicate_fs"
                                                       ELSE "image",
           session'.is_first = session.is_first,
           session'.index = session.index + 1,
           session'.mem_start = IF Image.id = FS1 THEN session.mem_start
                                ELSE session.mem_start + Image.disk,
           session'.mem_size = session.mem_size,
           session'.part = NoPart, session'.wrt_length = 0,
           Found(fwd'[session.trial], Image.id)
    PROVE  MapInv'
<1> DEFINE t == session.trial  i == session.index
<1>1. /\ Late /\ Chosen /\ i \in 1 .. NImages /\ ~ session.is_first
      /\ Image = Images[i] /\ Image.id # FS2
      /\ session.state = "image"
  BY NextPartIsPlace, TypedTurn
<1>2. /\ OthersSame /\ UsedFsInv' /\ ZoneInv'
      /\ Found(fwd'[t], FS2)
      /\ Find(fwd'[t], FS2) = Find(fwd[active], FS1)
      /\ Found(fwd'[t], FS1) => Find(fwd'[t], FS1) = Find(fwd[active], FS2)
      /\ \A j \in 1 .. NImages :
           /\ Found(fwd[t], Images[j].id) => Found(fwd'[t], Images[j].id)
           /\ Found(fwd'[t], Images[j].id) =>
                Find(fwd'[t], Images[j].id) = PlaceOf(j)
  BY ImageEntries
<1>3. /\ Late' /\ Chosen'
      /\ session'.trial = t /\ active' = active
      /\ TrialRegion' = TrialRegion
      /\ fwd'[active].entries = fwd[active].entries
      /\ \A j \in 1 .. NImages : PlaceOf(j)' = PlaceOf(j)
      /\ active # TrialIdx
  BY <1>2, PlacesStay
<1>4. RegionInv'
  <2>1. NImages \in Nat /\ i \in Nat /\ i <= NImages /\ (i + 1) - 1 = i
    BY <1>1, ImagesTyped
  <2>2. /\ session.mem_start = TrialRegion.start + DiskBefore[i - 1]
        /\ session.mem_size = TrialRegion.size
        /\ TotalDisk <= session.mem_size
    BY <1>1 DEF LayoutInv, MapInv, RegionInv
  <2>3. /\ DiskBefore[i] = DiskBefore[i - 1] + Reserved(i)
        /\ Reserved(i) = IF Image.id = FS1 THEN 0 ELSE Image.disk
        /\ DiskBefore[i - 1] \in Nat /\ Image.disk \in Nat
    <3>1. i - 1 \in 0 .. NImages
      <4> HIDE DEF i
      <4> QED  BY <1>1, <2>1
    <3> QED  BY <1>1, <3>1, DiskBeforeEquations, ImagesTyped DEF Reserved
  <2>4. TrialRegion.start \in Int
    <3>1. TrialRegion.start \in FirstBlock .. MemBlocks
      BY <1>3, TrialRegionFacts DEF LayoutInv, MapInv
    <3> QED  BY <3>1
  <2>5. session'.mem_start = TrialRegion.start + DiskBefore[i]
    BY <2>2, <2>3, <2>4
  <2>6. /\ session'.mem_start = TrialRegion.start + DiskBefore[session'.index - 1]
        /\ session'.state \in {"duplicate_fs", "finish"} <=> session'.index > NImages
        /\ session'.state \in {"image", "duplicate_fs"}
    BY <2>1, <2>5
  <2> QED  BY <1>1, <1>3, <2>2, <2>6 DEF RegionInv, Unprepared
<1>5. SwapInv'
  <2>1. session'.state \notin Unprepared
    BY DEF Unprepared
  <2>2. /\ Find(fwd'[active'], FS1) = Find(fwd[active], FS1)
        /\ Find(fwd'[active'], FS2) = Find(fwd[active], FS2)
    BY <1>3 DEF Find
  <2> QED  BY <1>2, <1>3, <2>1, <2>2 DEF SwapInv
<1>6. EntryInv'
  <2>1. ASSUME NEW j \in 1 .. NImages
        PROVE  /\ j < session'.index => Found(fwd'[session'.trial], Images[j].id)
               /\ Found(fwd'[session'.trial], Images[j].id)
                   => Find(fwd'[session'.trial], Images[j].id) = PlaceOf(j)'
    <3>1. j < i + 1 => j < i \/ j = i
      BY <1>1
    <3>2. j < i => Found(fwd[t], Images[j].id)
      BY <1>1 DEF LayoutInv, MapInv, EntryInv
    <3> QED  BY <1>1, <1>2, <1>3, <3>1, <3>2
  <2> QED  BY <1>1, <2>1 DEF EntryInv
<1> QED  BY <1>2, <1>4, <1>5, <1>6 DEF MapInv

\* The first entry of the trial is its second file system.
LEMMA PrepareFsKeepsMap ==
    ASSUME FallbackInv, TableInv, LayoutInv, PrepareFs
    PROVE  MapInv'
<1> DEFINE t == session.trial
<1>1. /\ session.state = "prepare_fs" /\ session \in Session
      /\ packet # NoPacket /\ session # NoSession
  BY TypedTurn DEF PrepareFs
<1>2. LateTurn
  BY PrepareFsIsLate
<1>3. /\ Late /\ Chosen
  BY <1>1 DEF Late, Chosen, Early
<1>4. /\ t \in FwdIdx /\ t = TrialIdx /\ active \in FwdIdx /\ Descriptors
  BY <1>3, LateTable DEF FallbackInv
<1>5. /\ session.is_first /\ session.index = 1
      /\ fwd[t].entries = <<>> /\ upload_off = 0
      /\ session.wrt_length = 0 /\ session.wrt_count = 0 /\ session.part = NoPart
  BY <1>1, <1>3 DEF LayoutInv, MapInv, RegionInv, SwapInv, EntryInv, Unprepared
<1>6. CASE UNCHANGED fwd /\ Fail(session)
  <2>1. SameEntries /\ OthersSame
    BY <1>6, UnchangedEntries DEF SameEntries, OthersSame
  <2>2. session' = session /\ UNCHANGED upload_off /\ fwd' = fwd
    BY <1>6 DEF Fail, Reply
  <2>3. /\ Late' /\ Chosen' /\ Golden' = Golden /\ active' = active
        /\ TrialRegion' = TrialRegion
        /\ \A j \in 1 .. NImages : PlaceOf(j)' = PlaceOf(j)
    BY <1>2, <2>1, PlacesStay
  <2>4. UsedFsInv' /\ ZoneInv'
    BY <1>2, <2>1, <2>3, LateKeepsUsedFs, SameEntriesKeepZone DEF LayoutInv, MapInv
  <2>5. RegionInv'
    BY <1>3, <2>2, <2>3 DEF LayoutInv, MapInv, RegionInv
  <2>6. SwapInv'
    BY <1>3, <2>2, <2>3 DEF LayoutInv, MapInv, SwapInv
  <2>7. EntryInv'
    BY <1>1, <1>3, <1>5, <2>2, <2>3 DEF LayoutInv, MapInv, EntryInv
  <2> QED  BY <2>4, <2>5, <2>6, <2>7 DEF MapInv
<1>7. CASE /\ fwd' = WithEntry(t, FS2, Find(fwd[active], FS1))
           /\ Continue([session EXCEPT !.state = "receive"])
  <2>1. /\ \A i \in FwdIdx \ {t} : fwd'[i].entries = fwd[i].entries
        /\ DOMAIN fwd'[t].entries = {FS2}
        /\ fwd'[t].entries[FS2] = Find(fwd[active], FS1)
    <3>1. fwd'[t].entries = [x \in DOMAIN fwd[t].entries \cup {FS2} |->
                               IF x \in DOMAIN fwd[t].entries THEN fwd[t].entries[x]
                               ELSE Find(fwd[active], FS1)]
      BY <1>4, <1>7 DEF WithEntry, Descriptors
    <3>2. DOMAIN fwd[t].entries = {}
      BY <1>5
    <3>3. \A i \in FwdIdx \ {t} : fwd'[i].entries = fwd[i].entries
      BY <1>4, <1>7 DEF WithEntry, Descriptors
    <3> QED  BY <3>1, <3>2, <3>3
  <2>2. OthersSame
    BY <2>1 DEF OthersSame
  <2>3. /\ session'.state = "receive" /\ session'.is_first /\ session'.index = 1
        /\ session'.wrt_length = 0 /\ session'.wrt_count = 0
        /\ session'.part = NoPart /\ session'.mem_start = session.mem_start
        /\ session'.mem_size = session.mem_size
    BY <1>1, <1>5, <1>7 DEF Continue, Session
  <2>4. /\ Late' /\ Chosen' /\ Golden' = Golden /\ active' = active
        /\ session'.trial = t
        /\ TrialRegion' = TrialRegion
        /\ fwd'[active].entries = fwd[active].entries
    BY <1>2, <2>2, PlacesStay
  <2>5. FsPair(fwd[active])
    BY <1>4 DEF LayoutInv, MapInv, UsedFsInv, Used
  <2>6. UsedFsInv' /\ ZoneInv'
    BY <1>2, <1>3, <1>7, <2>2, <2>4, <2>5, LateKeepsUsedFs, NewEntryKeepsZone
       DEF LayoutInv, MapInv, FsPair
  <2>7. NImages \in Nat \ {0}
    BY ImagesTyped
  <2>8. RegionInv'
    BY <1>3, <1>5, <2>3, <2>4, <2>7 DEF LayoutInv, MapInv, RegionInv, Unprepared
  <2>9. SwapInv'
    BY <2>1, <2>3, <2>4, FactoryFacts DEF SwapInv, Found, Find, Unprepared
  <2>10. \A j \in 1 .. NImages : ~ Found(fwd'[t], Images[j].id)
    BY <2>1, FactoryFacts DEF Found, ImageIds
  <2>11. EntryInv'
    BY <2>3, <2>4, <2>10 DEF EntryInv
  <2> QED  BY <2>6, <2>8, <2>9, <2>11 DEF MapInv
<1> QED  BY <1>6, <1>7 DEF PrepareFs

\* The header is complete and the images fit, or nothing of the map changes.
LEMMA ProcessConfigFileKeepsMap ==
    ASSUME FallbackInv, TableInv, LayoutInv, ProcessConfigFile
    PROVE  MapInv'
<1> DEFINE t == session.trial
<1>1. /\ session.state = "config" /\ session \in Session /\ session # NoSession
  BY TypedTurn DEF ProcessConfigFile
<1>2. LateTurn
  BY ProcessConfigFileIsLate
<1>3. /\ Late /\ Chosen
  BY <1>1 DEF Late, Chosen, Early
<1>4. t \in FwdIdx /\ Descriptors
  BY <1>3, LateTable DEF FallbackInv
<1>5. SameEntries /\ OthersSame
  <2>1. \E k \in 0 .. 3 : fwd' = HeaderWrites(t, k)
    BY <1>1 DEF ProcessConfigFile, HeaderWrites, Session
  <2>2. PICK k \in 0 .. 3 : fwd' = HeaderWrites(t, k)
    BY <2>1
  <2>3. k \in {0, 1, 2, 3}
    OBVIOUS
  <2> QED  BY <1>4, <2>2, <2>3 DEF SameEntries, OthersSame, HeaderWrites, Descriptors
<1>6. \/ SameLayout
      \/ /\ session'.is_first = FALSE
         /\ session'.state \in {"receive", "image"}
         /\ TotalDisk <= session.mem_size
         /\ session'.mem_start = session.mem_start
         /\ session'.mem_size = session.mem_size
         /\ session'.index = session.index /\ session'.part = session.part
         /\ session'.wrt_length = session.wrt_length
  <2> DEFINE s == [session EXCEPT !.config_len = @ + ConfigPart,
                                  !.buf_offset = ConfigPart,
                                  !.config_of = ConfigOf(session)]
             dropped == [s EXCEPT !.config_len = 0, !.config_of = NoFile]
  <2>1. \/ session' = [s EXCEPT !.state = "receive"]
        \/ session' = dropped
        \/ /\ ~ (TotalDisk > s.mem_size)
           /\ session' = [s EXCEPT !.is_first = FALSE, !.digest = FALSE,
                            !.state = IF ConfigPart >= s.buf_len THEN "receive"
                                                                 ELSE "image"]
    BY DEF ProcessConfigFile, Continue, Fail
  <2>2. TotalDisk \in Int /\ session.mem_size \in Int /\ s.mem_size = session.mem_size
    <3>1. TotalDisk \in Nat
      BY DiskBeforeEquations, ImagesTyped DEF TotalDisk
    <3> QED  BY <1>1, <3>1 DEF Session
  <2>3. CASE session' = [s EXCEPT !.state = "receive"]
    BY <1>1, <2>3 DEF SameLayout, StateMoves, Session, Unprepared
  <2>4. CASE session' = dropped
    BY <1>1, <2>4 DEF SameLayout, StateMoves, Session, Unprepared
  <2>5. CASE /\ ~ (TotalDisk > s.mem_size)
             /\ session' = [s EXCEPT !.is_first = FALSE, !.digest = FALSE,
                            !.state = IF ConfigPart >= s.buf_len THEN "receive"
                                                                 ELSE "image"]
    BY <1>1, <2>2, <2>5 DEF Session
  <2> QED  BY <2>1, <2>3, <2>4, <2>5
<1>7. CASE SameLayout
  BY <1>2, <1>5, <1>7, SameLayoutKeeps
<1>8. CASE /\ session'.is_first = FALSE
           /\ session'.state \in {"receive", "image"}
           /\ TotalDisk <= session.mem_size
           /\ session'.mem_start = session.mem_start
           /\ session'.mem_size = session.mem_size
           /\ session'.index = session.index /\ session'.part = session.part
           /\ session'.wrt_length = session.wrt_length
  <2>1. /\ Late' /\ Chosen' /\ Golden' = Golden /\ active' = active
        /\ session'.trial = t
        /\ TrialRegion' = TrialRegion
        /\ fwd'[active].entries = fwd[active].entries
        /\ \A j \in 1 .. NImages : PlaceOf(j)' = PlaceOf(j)
    BY <1>2, <1>5, PlacesStay
  <2>2. /\ session.is_first /\ session.index = 1 /\ session.part = NoPart
        /\ session.wrt_length = 0
    BY <1>1, <1>3 DEF LayoutInv, MapInv, RegionInv, EntryInv
  <2>3. fwd'[t].entries = fwd[t].entries
    BY <1>4, <1>5 DEF SameEntries
  <2>4. UsedFsInv' /\ ZoneInv'
    BY <1>2, <1>5, <2>1, LateKeepsUsedFs, SameEntriesKeepZone DEF LayoutInv, MapInv
  <2>5. NImages \in Nat \ {0}
    BY ImagesTyped
  <2>6. RegionInv'
    BY <1>3, <1>8, <2>1, <2>2, <2>5 DEF LayoutInv, MapInv, RegionInv, Unprepared
  <2>7. SwapInv'
    BY <1>1, <1>3, <1>8, <2>1, <2>3 DEF LayoutInv, MapInv, SwapInv, Found, Find, Unprepared
  <2>8. EntryInv'
    BY <1>3, <1>8, <2>1, <2>2, <2>3 DEF LayoutInv, MapInv, EntryInv, Found, Find
  <2> QED  BY <2>4, <2>6, <2>7, <2>8 DEF MapInv
<1> QED  BY <1>6, <1>7, <1>8

\* Opening an image adds its entry, in its place, and keeps the map.
LEMMA OpenImageKeepsMap ==
    ASSUME FallbackInv, TableInv, LayoutInv, OpenImage
    PROVE  MapInv'
<1> DEFINE s == [session EXCEPT !.wrt_count = 0, !.wrt_length = Image.len]
<1>1. /\ session.state = "image" /\ session \in Session /\ Processing("image")
  BY TypedTurn DEF OpenImage
<1>2. LateTurn
  BY OpenImageIsLate
<1>3. /\ session.index \in 1 .. NImages /\ Image = Images[session.index]
      /\ Late /\ Image.len \in Nat
  BY <1>1, NextPartIsPlace, ImagesTyped
<1>4. /\ \/ UNCHANGED fwd
         \/ fwd' = WithEntry(session.trial, Image.id, NextPart)
      /\ \/ session' = s
         \/ /\ fwd' = WithEntry(session.trial, Image.id, NextPart)
            /\ \/ session' = [s EXCEPT !.part = NextPart]
               \/ Image.len # 0 /\ session' = [s EXCEPT !.part = NextPart,
                                                        !.digest = TRUE]
               \/ Image.len = 0 /\ session' = NextImage(s)
  <2>1. s.trial = session.trial
    BY <1>1 DEF Session
  <2> HIDE DEF s
  <2> QED  BY <2>1 DEF OpenImage, Continue, Fail, s
<1>5. CASE Image.len = 0 /\ session' = NextImage(s)
           /\ fwd' = WithEntry(session.trial, Image.id, NextPart)
  <2>1. Found(fwd'[session.trial], Image.id)
    BY <1>1, <1>2, <1>5, ImageEntries
  <2>2. /\ session'.state = IF session.index = NImages THEN "duplicate_fs"
                                                       ELSE "image"
        /\ session'.is_first = session.is_first
        /\ session'.index = session.index + 1
        /\ session'.mem_start = IF Image.id = FS1 THEN session.mem_start
                                ELSE session.mem_start + Image.disk
        /\ session'.mem_size = session.mem_size
        /\ session'.part = NoPart /\ session'.wrt_length = 0
    BY <1>1, <1>5 DEF NextImage, Session
  <2> QED  BY <1>1, <1>2, <1>5, <2>1, <2>2, NextImageKeepsMap
<1>6. CASE session' = s
  <2>1. /\ session'.state = "image" /\ session'.is_first = session.is_first
        /\ session'.index = session.index /\ session'.mem_start = session.mem_start
        /\ session'.mem_size = session.mem_size
        /\ session'.part = session.part
        /\ session'.wrt_length = Image.len /\ session'.wrt_count = 0
    BY <1>1, <1>6 DEF Session
  <2>2. session'.wrt_length # 0 =>
             /\ session'.wrt_length = Image.len
             /\ session'.wrt_count \in 0 .. session'.wrt_length
             /\ session'.part # NoPart => session'.wrt_count < session'.wrt_length
    <3> HIDE DEF s
    <3> QED  BY <1>3, <2>1
  <2> QED  BY <1>1, <1>2, <1>4, <2>1, <2>2, SameImageKeepsMap
<1>7. CASE /\ fwd' = WithEntry(session.trial, Image.id, NextPart)
           /\ session' \in {[s EXCEPT !.part = NextPart],
                            [s EXCEPT !.part = NextPart, !.digest = TRUE]}
  <2>1. /\ session'.state = "image" /\ session'.is_first = session.is_first
        /\ session'.index = session.index /\ session'.mem_start = session.mem_start
        /\ session'.mem_size = session.mem_size
        /\ session'.part = NextPart
        /\ session'.wrt_length = Image.len /\ session'.wrt_count = 0
    BY <1>1, <1>7 DEF Session
  <2>2. session'.wrt_length # 0 =>
             /\ session'.wrt_length = Image.len
             /\ session'.wrt_count \in 0 .. session'.wrt_length
             /\ session'.part # NoPart => session'.wrt_count < session'.wrt_length
    <3> HIDE DEF s
    <3> QED  BY <1>3, <2>1
  <2> QED  BY <1>1, <1>2, <1>7, <2>1, <2>2, SameImageKeepsMap
<1> QED  BY <1>4, <1>5, <1>6, <1>7

\* A chunk is part of the packet and of the image.
LEMMA ChunkFacts ==
    ASSUME FallbackInv, TableInv, LayoutInv, WriteImage
    PROVE  /\ session \in Session /\ session.state = "image" /\ Late
           /\ ~ session.is_first
           /\ session.index \in 1 .. NImages /\ Image = Images[session.index]
           /\ session.part = PlaceOf(session.index)
           /\ Found(fwd[session.trial], Image.id)
           /\ session.wrt_length = Image.len /\ Image.len \in Nat
           /\ session.wrt_count \in Nat /\ session.wrt_count < Image.len
           /\ ChunkLen \in Nat \ {0}
           /\ session.wrt_count + ChunkLen <= Image.len
           /\ session.buf_offset + ChunkLen <= session.buf_len
<1>1. /\ session \in Session /\ Processing("image") /\ session.state = "image"
      /\ session.buf_offset < session.buf_len
      /\ session.wrt_length # 0 /\ session.part # NoPart
  BY TypedTurn DEF WriteImage
<1>2. /\ Late /\ ~ session.is_first
      /\ session.index \in 1 .. NImages /\ Image = Images[session.index]
  BY <1>1, NextPartIsPlace
<1>3. /\ session.part = PlaceOf(session.index)
      /\ Found(fwd[session.trial], Image.id)
      /\ session.wrt_length = Image.len
      /\ session.wrt_count \in 0 .. session.wrt_length
      /\ session.wrt_count < session.wrt_length
  BY <1>1, <1>2 DEF LayoutInv, MapInv, EntryInv
<1>4. /\ session.buf_offset \in Nat /\ session.buf_len \in Nat /\ Image.len \in Nat
  BY <1>1, <1>2, ImagesTyped DEF Session
<1>5. session.wrt_count \in Nat /\ session.wrt_count < Image.len
  BY <1>3, <1>4
<1> DEFINE a == session.buf_len - session.buf_offset
           b == session.wrt_length - session.wrt_count
<1>6. a \in Nat \ {0} /\ b \in Nat \ {0}
  BY <1>1, <1>3, <1>4, <1>5
<1>7. ChunkLen \in {a, b} /\ ChunkLen <= a /\ ChunkLen <= b
  <2>1. ChunkLen = IF a < b THEN a ELSE b
    BY DEF ChunkLen, Smaller
  <2> HIDE DEF a, b
  <2> QED  BY <1>6, <2>1
<1>8. ChunkLen \in Nat \ {0}
  BY <1>6, <1>7
<1>9. /\ session.wrt_count + ChunkLen <= Image.len
      /\ session.buf_offset + ChunkLen <= session.buf_len
  BY <1>3, <1>4, <1>5, <1>7, <1>8
<1> QED  BY <1>1, <1>2, <1>3, <1>4, <1>5, <1>8, <1>9

\* Writing to an image keeps the map; the last chunk moves on to the next.
LEMMA WriteImageKeepsMap ==
    ASSUME FallbackInv, TableInv, LayoutInv, WriteImage
    PROVE  MapInv'
<1> DEFINE s == [session EXCEPT !.digest = Hashed, !.buf_offset = @ + ChunkLen,
                                !.wrt_count = @ + ChunkLen]
<1>1. /\ session \in Session /\ session.state = "image" /\ UNCHANGED fwd
      /\ Processing("image") /\ ~ session.is_first
  BY ChunkFacts DEF WriteImage
<1>2. /\ session.wrt_length = Image.len
      /\ session.wrt_count \in Nat /\ session.wrt_count < Image.len
      /\ ChunkLen \in Nat \ {0} /\ Image.len \in Nat
      /\ session.wrt_count + ChunkLen <= Image.len
      /\ Found(fwd[session.trial], Image.id)
  BY ChunkFacts
<1>3. LateTurn
  BY WriteImageIsLate
<1>4. \/ session' = [NextImage(s) EXCEPT !.digest = FALSE]
      \/ session' = [s EXCEPT !.part = NoPart]
      \/ session' = s /\ s.wrt_count < s.wrt_length
      \/ session' = [session EXCEPT !.digest = FALSE]
  BY DEF WriteImage, Continue, Fail
<1>5. CASE session' = [NextImage(s) EXCEPT !.digest = FALSE]
  <2>1. /\ session'.state = IF session.index = NImages THEN "duplicate_fs"
                                                       ELSE "image"
        /\ session'.is_first = session.is_first
        /\ session'.index = session.index + 1
        /\ session'.mem_start = IF Image.id = FS1 THEN session.mem_start
                                ELSE session.mem_start + Image.disk
        /\ session'.mem_size = session.mem_size
        /\ session'.part = NoPart /\ session'.wrt_length = 0
    BY <1>1, <1>5 DEF NextImage, Session
  <2> QED  BY <1>1, <1>2, <1>3, <2>1, NextImageKeepsMap
<1>6. CASE session' # [NextImage(s) EXCEPT !.digest = FALSE]
  <2>1. /\ session'.state = "image" /\ session'.is_first = session.is_first
        /\ session'.index = session.index /\ session'.mem_start = session.mem_start
        /\ session'.mem_size = session.mem_size
        /\ session'.part \in {NoPart, session.part}
        /\ session'.wrt_length = Image.len
        /\ session'.wrt_count \in {session.wrt_count, session.wrt_count + ChunkLen}
        /\ session'.part # NoPart => session'.wrt_count < Image.len
    <3>1. s.wrt_count = session.wrt_count + ChunkLen /\ s.wrt_length = Image.len
      BY <1>1, <1>2 DEF Session
    <3>2. CASE session' = [s EXCEPT !.part = NoPart]
      BY <1>1, <1>2, <3>2 DEF Session
    <3>3. CASE session' = s /\ s.wrt_count < s.wrt_length
      BY <1>1, <1>2, <3>1, <3>3 DEF Session
    <3>4. CASE session' = [session EXCEPT !.digest = FALSE]
      BY <1>1, <1>2, <3>4 DEF Session
    <3> QED  BY <1>4, <1>6, <3>2, <3>3, <3>4
  <2>2. session'.wrt_count \in 0 .. Image.len
    BY <1>2, <2>1
  <2> QED  BY <1>1, <1>3, <2>1, <2>2, SameImageKeepsMap
<1> QED  BY <1>5, <1>6

-----------------------------------------------------------------------------
(* LayoutInv: beginning and end of an upload, commands and resets *)

\* No entry changes and nothing new is in use.
LEMMA UsedStays ==
    ASSUME UsedFsInv, SameEntries, Used' \subseteq Used
    PROVE  UsedFsInv'
BY DEF UsedFsInv, SameEntries, Used, FsPair, Found, Find

\* What leaves table and choice alone, with no trial chosen afterwards.
LEMMA IdleKeepsMap ==
    ASSUME FallbackInv, LayoutInv, UNCHANGED <<fwd, active>>, ~ Chosen'
    PROVE  MapInv'
<1>1. SameEntries
  BY UnchangedEntries
<1>2. Used' = Used /\ Golden' = Golden
  BY DEF Used, Golden, Valid
<1> QED  BY <1>1, <1>2, UsedStays, SameEntriesKeepZone, UnchosenKeepsLayout
           DEF LayoutInv, MapInv

\* The choice lays out a region that is free.
LEMMA GetTrialInfoKeepsMap ==
    ASSUME FallbackInv, TableInv, LayoutInv, GetTrialInfo
    PROVE  MapInv'
<1>1. /\ session \in Session /\ session # NoSession /\ packet # NoPacket
      /\ session.state = "get_trial" /\ UNCHANGED <<fwd, active>>
  BY TypedTurn DEF GetTrialInfo, tableVars
<1>2. CASE Fail(session)
  <2>1. ~ Chosen'
    BY <1>1, <1>2 DEF Chosen, Fail
  <2> QED  BY <1>1, <2>1, IdleKeepsMap
<1>3. CASE Continue([session EXCEPT !.state = "erase_fwd", !.trial = TrialIdx,
                       !.mem_start = TrialRegion.start,
                       !.mem_size = TrialRegion.size]) /\ TrialIdx # active
  <2>1. /\ session'.state = "erase_fwd"
        /\ session'.mem_start = TrialRegion.start
        /\ session'.mem_size = TrialRegion.size
        /\ session'.index = session.index /\ session'.is_first = session.is_first
    BY <1>1, <1>3 DEF Continue, Session
  <2>2. session.index = 1 /\ session.is_first
    BY <1>1 DEF LayoutInv, FreshInv, Early
  <2>3. SameEntries /\ Used' = Used /\ Golden' = Golden
    BY <1>1, UnchangedEntries DEF Used, Golden, Valid
  <2>4. UsedFsInv' /\ ZoneInv'
    BY <2>3, UsedStays, SameEntriesKeepZone DEF LayoutInv, MapInv
  <2>5. ~ Late'
    BY <2>1 DEF Late, Early
  <2>6. TrialRegion' = TrialRegion
    BY <1>1 DEF TrialRegion, TrialIdx, CurrentFwd, RankedFwds, Searched, FwdNum,
                Valid, SetEnd, FirstImageBlock
  <2>7. /\ TrialRegion.start \in FirstBlock .. MemBlocks
        /\ DiskBefore[0] = 0 /\ FirstBlock \in Nat
    BY <1>3, TrialRegionFacts, DiskBeforeEquations, FactoryFacts
       DEF LayoutInv, MapInv, MaxFwd
  <2>8. RegionInv'
    <3>1. /\ session'.index = 1 /\ session'.is_first
          /\ TrialRegion.start + DiskBefore[session'.index - 1] = TrialRegion.start
      BY <2>1, <2>2, <2>7
    <3>2. NImages \in Nat \ {0}
      BY ImagesTyped
    <3>3. session'.mem_size = TrialRegion.size
      BY <2>1
    <3> QED  BY <2>1, <2>6, <3>1, <3>2, <3>3 DEF RegionInv, Unprepared
  <2> QED  BY <2>4, <2>5, <2>8 DEF MapInv, SwapInv, EntryInv
<1> QED  BY <1>2, <1>3 DEF GetTrialInfo

\* The erasure frees the trial's entries.
LEMMA EraseTrialFwdKeepsMap ==
    ASSUME FallbackInv, TableInv, LayoutInv, EraseTrialFwd
    PROVE  MapInv'
<1> DEFINE t == session.trial
<1>1. /\ Descriptors /\ Confirmed /\ Chosen /\ active' = active
      /\ session.state = "erase_fwd" /\ session \in Session
      /\ t = TrialIdx /\ t \in FwdIdx /\ active # t /\ active \in FwdIdx
      /\ t # CurrentFwd
      /\ Golden => t # 0
      /\ active = CurrentFwd
  BY ErasureStarts, TypedTurn, Choices DEF EraseTrialFwd
<1>2. CASE UNCHANGED fwd /\ Fail(session)
  <2>1. ~ Chosen'
    BY <1>1, <1>2 DEF Chosen, Fail, Reply
  <2> QED  BY <1>1, <1>2, <2>1, IdleKeepsMap
<1>3. CASE EraseFwd(t)
  <2>1. /\ Golden' = Golden /\ CurrentFwd' = CurrentFwd /\ TrialIdx' = TrialIdx
        /\ FwdNum' = FwdNum
        /\ ~ Valid(fwd'[t])
        /\ \A j \in FwdIdx \ {t} : fwd'[j] = fwd[j]
        /\ fwd'[t].entries = <<>>
    <3>1. fwd'[t].entries = <<>>
      BY <1>1, <1>3 DEF EraseFwd, ErasedFwd, Descriptors
    <3> QED  BY <1>1, <1>3, <3>1, EraseSearches
  <2>2. ZoneInv'
    BY <1>1, <2>1, ErasureKeepsZone DEF LayoutInv, MapInv
  <2>3. UsedFsInv'
    <3>1. Used' \subseteq Used /\ t \notin Used'
      BY <1>1, <2>1 DEF Used
    <3>2. \A i \in Used' : i \in Used /\ fwd'[i] = fwd[i]
      BY <2>1, <3>1 DEF Used
    <3> QED  BY <3>2 DEF LayoutInv, MapInv, UsedFsInv, FsPair, Found, Find
  <2>4. CASE Fail(session)
    <3>1. ~ Chosen'
      BY <1>1, <2>4 DEF Chosen, Fail, Reply
    <3> QED  BY <2>2, <2>3, <3>1, UnchosenKeepsLayout DEF MapInv
  <2>5. CASE Continue([session EXCEPT !.state = "erase_fs2"])
    <3>1. /\ session'.state = "erase_fs2" /\ session'.trial = t
          /\ session'.mem_start = session.mem_start
          /\ session'.mem_size = session.mem_size
          /\ session'.index = session.index /\ session'.is_first = session.is_first
          /\ session'.part = session.part
          /\ session'.wrt_length = session.wrt_length
          /\ session'.wrt_count = session.wrt_count
          /\ upload_off' = upload_off
      BY <1>1, <2>5 DEF Continue, Session
    <3>2. /\ session.is_first /\ session.index = 1 /\ session.part = NoPart
          /\ session.wrt_length = 0 /\ session.wrt_count = 0
      BY <1>1 DEF Chosen, LayoutInv, FreshInv, Early
    <3>3. upload_off = 0
      BY <1>1 DEF Chosen, FallbackInv, SessionInv
    <3>4. fwd'[active] = fwd[active]
      BY <1>1, <2>1
    <3>5. TrialRegion' = TrialRegion
      <4>1. t # 0 => fwd'[0] = fwd[0]
        BY <2>1, Indices
      <4>2. FwdNum = 3 => t # 0
        BY <1>1, SearchedWhich
      <4>3. FirstImageBlock' = FirstImageBlock
        BY <1>1, <3>4 DEF FirstImageBlock
      <4> QED  BY <1>1, <2>1, <4>1, <4>2, <4>3 DEF TrialRegion, SetEnd
    <3>6. NImages \in Nat \ {0}
      BY ImagesTyped
    <3>7. RegionInv'
      BY <1>1, <3>1, <3>2, <3>5, <3>6 DEF LayoutInv, MapInv, RegionInv, Unprepared
    <3>8. SwapInv'
      BY <2>1, <3>1, <3>3 DEF SwapInv, Unprepared, Found
    <3>9. EntryInv'
      BY <2>1, <3>1, <3>2 DEF EntryInv, Found
    <3> QED  BY <2>2, <2>3, <3>7, <3>8, <3>9 DEF MapInv
  <2> QED  BY <1>3, <2>4, <2>5 DEF EraseTrialFwd
<1> QED  BY <1>2, <1>3 DEF EraseTrialFwd

\* The trial becomes a firmware in use, and has both file systems.
LEMMA FinishKeepsMap ==
    ASSUME FallbackInv, TableInv, LayoutInv, Finish
    PROVE  MapInv'
<1> DEFINE t == session.trial
<1>1. /\ Late /\ session.state = "finish" /\ t \in FwdIdx
      /\ session' = NoSession /\ active' = active
      /\ \A i \in FwdIdx \ {t} : fwd'[i] = fwd[i]
      /\ active \in FwdIdx
  BY FinishStarts, LateTable
<1>2. Golden' = Golden /\ SameEntries
  BY FinishSearches DEF SameEntries
<1>3. Used' \subseteq Used \cup {t}
  BY <1>1 DEF Used
<1>4. FsPair(fwd[t])
  <2>1. session.index > NImages /\ session \in Session
    BY <1>1 DEF LayoutInv, MapInv, RegionInv, CountInv, Late, Chosen
  <2>2. Found(fwd[t], FS2) /\ Find(fwd[t], FS2) = Find(fwd[active], FS1)
    BY <1>1 DEF LayoutInv, MapInv, SwapInv, Unprepared
  <2>3. PICK j \in 1 .. NImages : Images[j].id = FS1
    BY UpgradeAssumption DEF ImageIds
  <2>4. j < session.index
    BY <2>1, ImagesTyped DEF Session
  <2>5. Found(fwd[t], FS1)
    BY <1>1, <2>3, <2>4 DEF LayoutInv, MapInv, EntryInv
  <2>6. Find(fwd[t], FS1) = Find(fwd[active], FS2)
    BY <1>1, <2>5 DEF LayoutInv, MapInv, SwapInv
  <2>7. FsPair(fwd[active])
    BY <1>1 DEF LayoutInv, MapInv, UsedFsInv, Used
  <2> QED  BY <2>2, <2>5, <2>6, <2>7 DEF FsPair
<1>5. UsedFsInv'
  <2>1. \A i \in Used' : i \in FwdIdx /\ FsPair(fwd[i])
    BY <1>1, <1>3, <1>4 DEF LayoutInv, MapInv, UsedFsInv, Used
  <2> QED  BY <1>2, <2>1 DEF UsedFsInv, SameEntries, FsPair, Found, Find
<1>6. ~ Chosen'
  BY <1>1 DEF Chosen
<1> QED  BY <1>2, <1>5, <1>6, SameEntriesKeepZone, UnchosenKeepsLayout
           DEF LayoutInv, MapInv

\* Commands and resets keep the map.
LEMMA AcceptKeepsMap ==
    ASSUME FallbackInv, TableInv, LayoutInv, Accept
    PROVE  MapInv'
<1>1. /\ ~ Chosen /\ UNCHANGED <<active, session, packet>>
  BY AcceptSearches
<1>2. ~ Chosen'
  BY <1>1 DEF Chosen
<1>3. CASE UNCHANGED fwd
  BY <1>1, <1>2, <1>3, IdleKeepsMap
<1>4. CASE /\ Golden' = Golden /\ DOMAIN fwd' = FwdIdx
           /\ \A i \in FwdIdx : /\ fwd'[i].entries = fwd[i].entries
                                /\ Valid(fwd'[i]) => Valid(fwd[i])
  <2>1. SameEntries /\ Used' \subseteq Used
    BY <1>1, <1>4 DEF SameEntries, Used
  <2> QED  BY <1>2, <1>4, <2>1, UsedStays, SameEntriesKeepZone,
              UnchosenKeepsLayout DEF LayoutInv, MapInv
<1> QED  BY <1>3, <1>4, AcceptSearches

LEMMA RejectKeepsMap ==
    ASSUME FallbackInv, TableInv, LayoutInv, Reject
    PROVE  MapInv'
<1>1. /\ ~ Chosen /\ UNCHANGED <<active, session, packet>>
  BY RejectSearches
<1>2. ~ Chosen'
  BY <1>1 DEF Chosen
<1>3. CASE UNCHANGED fwd
  BY <1>1, <1>2, <1>3, IdleKeepsMap
<1>4. CASE /\ Golden' = Golden /\ DOMAIN fwd' = FwdIdx
           /\ \A i \in FwdIdx : /\ fwd'[i].entries = fwd[i].entries
                                /\ Valid(fwd'[i]) => Valid(fwd[i])
  <2>1. SameEntries /\ Used' \subseteq Used
    BY <1>1, <1>4 DEF SameEntries, Used
  <2> QED  BY <1>2, <1>4, <2>1, UsedStays, SameEntriesKeepZone,
              UnchosenKeepsLayout DEF LayoutInv, MapInv
<1> QED  BY <1>3, <1>4, RejectSearches

LEMMA EraseSlotKeepsMap ==
    ASSUME CarefulErase, FallbackInv, TableInv, LayoutInv, EraseSlot
    PROVE  MapInv'
<1>1. /\ Descriptors /\ Confirmed /\ EraseFwd(1) /\ 1 \in FwdIdx
      /\ 1 # CurrentFwd /\ 1 # active /\ active' = active
      /\ session' = NoSession
  BY EraseSlotStarts
<1>2. /\ Golden' = Golden /\ ~ Valid(fwd'[1])
      /\ \A j \in FwdIdx \ {1} : fwd'[j] = fwd[j]
  BY <1>1, EraseSearches
<1>3. fwd'[1].entries = <<>>
  BY <1>1 DEF EraseFwd, ErasedFwd, Descriptors
<1>4. ZoneInv'
  BY <1>1, <1>2, <1>3, ErasureKeepsZone DEF LayoutInv, MapInv
<1>5. UsedFsInv'
  <2>1. \A i \in Used' : i \in Used /\ fwd'[i] = fwd[i]
    BY <1>1, <1>2 DEF Used
  <2> QED  BY <2>1 DEF LayoutInv, MapInv, UsedFsInv, FsPair, Found, Find
<1>6. ~ Chosen'
  BY <1>1 DEF Chosen
<1> QED  BY <1>4, <1>5, <1>6, UnchosenKeepsLayout DEF MapInv

LEMMA RestartKeepsMap ==
    ASSUME FallbackInv, TableInv, LayoutInv, Restart
    PROVE  MapInv'
<1>1. /\ UNCHANGED fwd /\ session' = NoSession
      /\ active' \in TrialFwds \cup {CurrentFwd}
  BY RestartStarts
<1>2. Valid(fwd[active']) /\ active' \in FwdIdx
  BY <1>1, Choices, ValidOnes DEF FallbackInv, TrialFwds
<1>3. SameEntries /\ Golden' = Golden /\ Used' \subseteq Used
  BY <1>1, <1>2, UnchangedEntries DEF Golden, Used
<1>4. ~ Chosen'
  BY <1>1 DEF Chosen
<1> QED  BY <1>3, <1>4, UsedStays, SameEntriesKeepZone, UnchosenKeepsLayout
           DEF LayoutInv, MapInv

\* Requests keep the map.
LEMMA UploadKeepsMap ==
    ASSUME FallbackInv, TableInv, LayoutInv, NEW v, NEW off \in Nat, NEW n,
           Upload(v, off, n)
    PROVE  MapInv'
<1>1. CASE off = 0
  <2>1. session' = NewSession /\ UNCHANGED <<fwd, active>>
    BY <1>1 DEF Upload, tableVars
  <2>2. ~ Chosen'
    BY <2>1 DEF Chosen, NewSession
  <2> QED  BY <2>1, <2>2, IdleKeepsMap
<1>2. CASE off # 0
  BY <1>2, UploadLaterKeepsMap
<1> QED  BY <1>1, <1>2

\* And so does one no session could be made for.
LEMMA UploadInitFailsKeepsMap ==
    ASSUME FallbackInv, LayoutInv, UploadInitFails
    PROVE  MapInv'
<1>1. UNCHANGED <<fwd, active>> /\ session' = NoSession
  BY DEF UploadInitFails, tableVars
<1>2. ~ Chosen'
  BY <1>1 DEF Chosen
<1> QED  BY <1>1, <1>2, IdleKeepsMap

\* Every turn keeps the map.
LEMMA ProcessKeepsMap ==
    ASSUME FallbackInv, TableInv, LayoutInv, Process
    PROVE  MapInv'
BY GetTrialInfoKeepsMap, EraseTrialFwdKeepsMap, EraseSecondFsKeepsMap,
   PrepareFsKeepsMap, ReceiveDataKeepsMap, ProcessConfigFileKeepsMap,
   ConfigWithoutBufferKeepsMap, OpenImageKeepsMap, WriteImageKeepsMap,
   WriteWithoutHandleKeepsMap, PacketConsumedKeepsMap, DuplicateFsKeepsMap,
   FinishKeepsMap DEF Process

-----------------------------------------------------------------------------
(* LayoutInv: an upload that has erased nothing, and the counters *)

\* Before the header is complete the trial has no entries.
LEMMA FreshNext ==
    ASSUME FallbackInv, TableInv, LayoutInv, Next
    PROVE  FreshInv'
<1>1. ASSUME NEW v \in Version, NEW off \in 0 .. FileLen - 1,
             NEW n \in PacketLen, Upload(v, off, n)
      PROVE  FreshInv'
  <2>1. off \in Nat
    OBVIOUS
  <2>2. CASE off = 0
    BY <1>1, <2>2 DEF Upload, FreshInv, NewSession
  <2>3. CASE off # 0
    BY <1>1, <2>1, <2>3, UploadIsLate DEF LateTurn, FreshInv
  <2> QED  BY <2>2, <2>3
<1>2. CASE LateAction
  BY <1>2, LateActions DEF LateTurn, FreshInv
<1>3. CASE GetTrialInfo
  <2>1. /\ session \in Session /\ session # NoSession /\ session.state = "get_trial"
    BY <1>3, TypedTurn DEF GetTrialInfo
  <2>2. /\ session'.is_first = session.is_first /\ session'.index = session.index
        /\ session'.part = session.part
        /\ session'.wrt_length = session.wrt_length
        /\ session'.wrt_count = session.wrt_count
    BY <1>3, <2>1 DEF GetTrialInfo, Continue, Fail, Session
  <2> QED  BY <2>1, <2>2 DEF LayoutInv, FreshInv, Early
<1>4. CASE EraseTrialFwd
  <2>1. /\ session \in Session /\ session # NoSession /\ session.state = "erase_fwd"
    BY <1>4, TypedTurn DEF EraseTrialFwd
  <2>2. \/ session' = session
        \/ session' = [session EXCEPT !.state = "erase_fs2"]
    BY <1>4 DEF EraseTrialFwd, Continue, Fail
  <2>3. session' = session \/ session'.state = "erase_fs2"
    BY <2>1, <2>2 DEF Session
  <2> QED  BY <2>1, <2>3 DEF LayoutInv, FreshInv, Early
<1>5. CASE Accept \/ Reject
  BY <1>5 DEF LayoutInv, FreshInv, Accept, Reject
<1>6. CASE UploadInitFails \/ Finish \/ Restart
  BY <1>6 DEF UploadInitFails, Finish, Restart, FreshInv
<1>7. CASE EraseSlot
  BY <1>7 DEF LayoutInv, FreshInv, EraseSlot
<1>8. Process => GetTrialInfo \/ EraseTrialFwd \/ LateAction \/ Finish
  BY DEF Process, LateAction
<1> QED  BY <1>1, <1>2, <1>3, <1>4, <1>5, <1>6, <1>7, <1>8 DEF Next

\* The sizes the counters are bounded by.
LEMMA Sizes ==
    /\ FileLen \in Nat \ {0} /\ MemBlocks \in Nat \ {0} /\ NImages \in Nat \ {0}
    /\ HeaderLen \in Nat \ {0}
    /\ \A j \in 1 .. NImages : Images[j].len \in 0 .. FileLen
    /\ NoPart \in Entry
<1>1. \A j \in 1 .. NImages : Images[j].len \in 0 .. FileLen
  <2> TAKE j \in 1 .. NImages
  <2>1. /\ Images[j].len \in Nat /\ Images[j].pos \in Nat /\ FileLen \in Nat
        /\ Images[j].pos + Images[j].len <= FileLen
    BY ImagesTyped, ImagesWithinFile
  <2> QED  BY <2>1
<1>2. NoPart \in Entry
  BY FlashAssumption DEF NoPart, Entry
<1> QED  BY <1>1, <1>2, ImagesWithinFile, FlashAssumption, ImagesTyped,
            UpgradeAssumption

\* A turn ends with a reply or without.
LEMMA TurnKeepsCount ==
    ASSUME CountInv, packet # NoPacket, session' \in Session \cup {NoSession},
           Reply(TRUE) \/ Reply(FALSE) \/ UNCHANGED <<packet, upload_off>>
    PROVE  CountInv'
<1>1. /\ packet \in Packet /\ packet.from + packet.len <= FileLen
      /\ upload_off \in 0 .. FileLen
  BY DEF CountInv
<1>2. packet.from + packet.len \in 0 .. FileLen
  BY <1>1, Sizes DEF Packet
<1> QED  BY <1>1, <1>2 DEF CountInv, Reply

\* A request keeps the counters in their bounds.
LEMMA UploadKeepsCount ==
    ASSUME LayoutInv, NEW v \in Version, NEW off \in Nat, NEW n \in PacketLen,
           Upload(v, off, n)
    PROVE  CountInv'
<1> DEFINE from == IF off = 0 THEN 0 ELSE upload_off
<1>1. /\ upload_off \in 0 .. FileLen
      /\ off <= from /\ from < off + n /\ off + n <= FileLen
      /\ upload_off' = from
      /\ packet' = [of |-> v, from |-> from, len |-> off + n - from,
                    received |-> FALSE]
  BY DEF LayoutInv, CountInv, Upload
<1>2. n \in Nat \ {0} /\ FileLen \in Nat /\ from \in 0 .. FileLen
  BY <1>1, Sizes, UpgradeAssumption
<1>3. off + n - from \in 1 .. FileLen /\ from + (off + n - from) = off + n
  <2> HIDE DEF from
  <2> QED  BY <1>1, <1>2
<1>4. session' \in Session
  <2>1. CASE off = 0
    <3>1. NewSession \in Session
      <4>1. NoFile \in AnyFile
        BY DEF AnyFile
      <4> QED  BY <4>1, Sizes DEF NewSession, Session, FwdIdx, MaxFwd
    <3> QED  BY <2>1, <3>1 DEF Upload
  <2>2. CASE off # 0
    <3>1. session \in Session /\ session' = [session EXCEPT !.buf_offset = 0]
      BY <2>2 DEF Upload, LayoutInv, CountInv
    <3> QED  BY <3>1, Sizes DEF Session
  <2> QED  BY <2>1, <2>2
<1> HIDE DEF from
<1>5. packet' \in Packet /\ packet'.from + packet'.len <= FileLen
  BY <1>1, <1>2, <1>3 DEF Packet
<1> QED  BY <1>1, <1>2, <1>4, <1>5 DEF CountInv

\* The second file system of the firmware that runs has a partition.
LEMMA FsOfActive ==
    ASSUME FallbackInv, TableInv, LayoutInv
    PROVE  /\ active \in FwdIdx /\ FsPair(fwd[active])
           /\ Find(fwd[active], FS1) \in {PartA, PartB}
           /\ Find(fwd[active], FS2) \in {PartA, PartB}
           /\ Find(fwd[active], FS1) \in Entry /\ Find(fwd[active], FS2) \in Entry
<1>1. active \in FwdIdx
  BY Choices DEF FallbackInv, TableInv
<1>2. FsPair(fwd[active])
  BY <1>1 DEF LayoutInv, MapInv, UsedFsInv, Used
<1> QED  BY <1>1, <1>2, FactoryFacts, InsideFacts DEF FsPair

\* The session a turn leaves is one of the sessions.
LEMMA GetTrialInfoTypes ==
    ASSUME FallbackInv, TableInv, LayoutInv, GetTrialInfo
    PROVE  session' \in Session
<1>1. session \in Session
  BY TypedTurn DEF GetTrialInfo
<1>2. CASE Fail(session)
  BY <1>1, <1>2 DEF Fail
<1>3. CASE Continue([session EXCEPT !.state = "erase_fwd", !.trial = TrialIdx,
                       !.mem_start = TrialRegion.start,
                       !.mem_size = TrialRegion.size]) /\ TrialIdx # active
  <2>1. /\ TrialRegion.start \in FirstBlock .. MemBlocks
        /\ TrialRegion.size \in Nat
        /\ TrialRegion.start + TrialRegion.size <= MemBlocks
        /\ FirstBlock \in MaxFwd .. MemBlocks
    BY <1>3, TrialRegionFacts, FactoryFacts DEF LayoutInv, MapInv, PartEnd
  <2>2. /\ TrialRegion.start \in 0 .. MemBlocks
        /\ TrialRegion.size \in 0 .. MemBlocks
    BY <2>1, Sizes DEF MaxFwd
  <2>3. TrialIdx \in FwdIdx
    BY Choices DEF FallbackInv
  <2> QED  BY <1>1, <1>3, <2>2, <2>3 DEF Continue, Session
<1> QED  BY <1>2, <1>3 DEF GetTrialInfo

LEMMA ProcessConfigFileTypes ==
    ASSUME FallbackInv, LayoutInv, ProcessConfigFile
    PROVE  session' \in Session
<1> DEFINE s == [session EXCEPT !.config_len = @ + ConfigPart,
                                !.buf_offset = ConfigPart,
                                !.config_of = ConfigOf(session)]
           dropped == [s EXCEPT !.config_len = 0, !.config_of = NoFile]
<1>1. session \in Session /\ packet \in Packet
  BY TypedTurn DEF ProcessConfigFile, LayoutInv, CountInv
<1>2. /\ session' \in {[s EXCEPT !.state = "receive"], dropped,
                       [s EXCEPT !.is_first = FALSE, !.digest = FALSE,
                            !.state = IF ConfigPart >= s.buf_len THEN "receive"
                                                                 ELSE "image"]}
  BY DEF ProcessConfigFile, Continue, Fail
<1>3. ConfigOf(session) \in AnyFile /\ NoFile \in AnyFile
  BY <1>1 DEF ConfigOf, AnyFile, Files, Packet
<1>4. /\ session.buf_len \in 0 .. FileLen /\ session.config_len \in 0 .. HeaderLen
      /\ FileLen \in Nat /\ HeaderLen \in Nat
  BY <1>1, Sizes DEF Session
<1>5. ConfigPart \in 0 .. FileLen /\ session.config_len + ConfigPart \in 0 .. HeaderLen
  BY <1>4 DEF ConfigPart, Smaller
<1>6. s \in Session
  BY <1>1, <1>3, <1>5 DEF Session
<1>7. 0 \in 0 .. HeaderLen
  BY <1>4
<1> HIDE DEF s
<1>8. [s EXCEPT !.state = "receive"] \in Session
  BY <1>6 DEF Session
<1>9. dropped \in Session
  BY <1>3, <1>6, <1>7 DEF Session
<1>10. \A x \in {"receive", "image"} :
         [s EXCEPT !.is_first = FALSE, !.digest = FALSE, !.state = x] \in Session
  BY <1>6 DEF Session
<1> QED  BY <1>2, <1>8, <1>9, <1>10

\* The session after an image.
LEMMA NextImageTypes ==
    ASSUME FallbackInv, TableInv, LayoutInv, Processing("image"),
           NEW s \in Session,
           s.index = session.index, s.mem_start = session.mem_start
    PROVE  NextImage(s) \in Session
<1>1. /\ session.index \in 1 .. NImages /\ Image = Images[session.index]
      /\ Image.id # FS1 => Inside(NextPart) /\ NextPart = Place(session.index)
      /\ Image.id # FS1 => NextPart.start = session.mem_start
                           /\ NextPart.size = Image.disk
  BY NextPartIsPlace DEF NextPart, PlaceOf
<1>2. /\ session.index + 1 \in 1 .. NImages + 1 /\ NoPart \in Entry
      /\ 0 \in 0 .. FileLen
  BY <1>1, Sizes
<1>3. (IF Image.id = FS1 THEN s.mem_start ELSE s.mem_start + Image.disk)
         \in 0 .. MemBlocks
  <2>1. CASE Image.id = FS1
    BY <2>1 DEF Session
  <2>2. CASE Image.id # FS1
    <3>1. PartEnd(NextPart) = s.mem_start + Image.disk
      BY <1>1, <2>2 DEF PartEnd
    <3>2. PartEnd(NextPart) \in 0 .. MemBlocks
      BY <1>1, <2>2, InsideFacts, Sizes
    <3> QED  BY <2>2, <3>1, <3>2
  <2> QED  BY <2>1, <2>2
<1> QED  BY <1>2, <1>3 DEF NextImage, Session

LEMMA OpenImageTypes ==
    ASSUME FallbackInv, TableInv, LayoutInv, OpenImage
    PROVE  session' \in Session
<1> DEFINE s == [session EXCEPT !.wrt_count = 0, !.wrt_length = Image.len]
<1>1. session \in Session /\ Processing("image")
  BY TypedTurn DEF OpenImage
<1>2. Image.len \in 0 .. FileLen /\ 0 \in 0 .. FileLen
  BY <1>1, NextPartIsPlace, Sizes
<1>3. s \in Session /\ s.index = session.index /\ s.mem_start = session.mem_start
  BY <1>1, <1>2 DEF Session
<1>4. NextPart \in Entry
  BY <1>1, NextPartIsPlace, FactoryFacts, InsideFacts
<1>5. session' \in {NextImage(s), s, [s EXCEPT !.part = NextPart],
                    [s EXCEPT !.part = NextPart, !.digest = TRUE]}
  BY DEF OpenImage, Continue, Fail
<1>6. NextImage(s) \in Session
  <2> HIDE DEF s
  <2> QED  BY <1>1, <1>3, NextImageTypes
<1> HIDE DEF s
<1>7. [s EXCEPT !.part = NextPart] \in Session
  BY <1>3, <1>4 DEF Session
<1>8. [s EXCEPT !.part = NextPart, !.digest = TRUE] \in Session
  BY <1>3, <1>4 DEF Session
<1> QED  BY <1>3, <1>5, <1>6, <1>7, <1>8

LEMMA WriteImageTypes ==
    ASSUME FallbackInv, TableInv, LayoutInv, WriteImage
    PROVE  session' \in Session
<1> DEFINE s == [session EXCEPT !.digest = Hashed, !.buf_offset = @ + ChunkLen,
                                !.wrt_count = @ + ChunkLen]
<1>1. session \in Session /\ Processing("image")
  BY TypedTurn DEF WriteImage
<1>2. /\ session.wrt_count + ChunkLen \in 0 .. FileLen
      /\ session.buf_offset + ChunkLen \in 0 .. FileLen
  <2>1. /\ session.wrt_count \in 0 .. FileLen /\ session.buf_offset \in 0 .. FileLen
        /\ session.buf_len \in 0 .. FileLen /\ FileLen \in Nat
        /\ ChunkLen \in Nat
        /\ session.wrt_count + ChunkLen <= Image.len
        /\ session.buf_offset + ChunkLen <= session.buf_len
        /\ Image.len \in 0 .. FileLen
    BY <1>1, ChunkFacts, Sizes DEF Session
  <2> QED  BY <2>1
<1>3. Hashed \in BOOLEAN
  BY DEF Hashed
<1>4. s \in Session /\ s.index = session.index /\ s.mem_start = session.mem_start
  BY <1>1, <1>2, <1>3 DEF Session
<1>5. session' \in {[NextImage(s) EXCEPT !.digest = FALSE], [s EXCEPT !.part = NoPart],
                    s, [session EXCEPT !.digest = FALSE]}
  BY DEF WriteImage, Continue, Fail
<1>6. NextImage(s) \in Session
  <2> HIDE DEF s
  <2> QED  BY <1>1, <1>4, NextImageTypes
<1> DEFINE next == NextImage(s)
<1> HIDE DEF s, next
<1>7. [next EXCEPT !.digest = FALSE] \in Session
  BY <1>6 DEF Session, next
<1>8. [s EXCEPT !.part = NoPart] \in Session
  BY <1>4, Sizes DEF Session
<1>9. [session EXCEPT !.digest = FALSE] \in Session
  BY <1>1 DEF Session
<1> QED  BY <1>4, <1>5, <1>7, <1>8, <1>9 DEF next

LEMMA OtherTurnTypes ==
    ASSUME FallbackInv, TableInv, LayoutInv,
           \/ EraseTrialFwd \/ EraseSecondFs \/ PrepareFs \/ ReceiveData
           \/ ConfigWithoutBuffer \/ WriteWithoutHandle \/ PacketConsumed
           \/ DuplicateFs \/ Finish
    PROVE  session' \in Session \cup {NoSession}
<1>1. session \in Session /\ packet \in Packet
  BY TypedTurn DEF EraseTrialFwd, EraseSecondFs, PrepareFs, ReceiveData,
       ConfigWithoutBuffer, WriteWithoutHandle, PacketConsumed, DuplicateFs, Finish,
       LayoutInv, CountInv
<1>2. CASE ReceiveData
  <2>1. /\ packet.len - session.buf_offset > 0 =>
             packet.len - session.buf_offset \in 0 .. FileLen
        /\ 0 \in 0 .. FileLen
    BY <1>1, Sizes DEF Packet, Session
  <2>2. \/ session' = session
        \/ /\ packet.len - session.buf_offset > 0
           /\ session' = [session EXCEPT
                        !.buf_len = packet.len - session.buf_offset,
                        !.buf_offset = 0,
                        !.state = IF session.is_first THEN "config" ELSE "image"]
    BY <1>2 DEF ReceiveData
  <2>3. ASSUME NEW k \in 0 .. FileLen, NEW x \in {"config", "image"}
        PROVE  [session EXCEPT !.buf_len = k, !.buf_offset = 0, !.state = x]
                 \in Session
    BY <1>1, <2>1, <2>3 DEF Session
  <2> QED  BY <1>1, <2>1, <2>2, <2>3
<1>3. CASE EraseSecondFs
  <2>1. \/ session' = session
        \/ session' = [session EXCEPT !.state = "prepare_fs"]
        \/ session' = [session EXCEPT !.part = Find(fwd[active], FS2)]
    BY <1>3 DEF EraseSecondFs, Continue, Fail
  <2> QED  BY <1>1, <2>1, FsOfActive DEF Session
<1>4. CASE EraseTrialFwd \/ PrepareFs \/ PacketConsumed \/ DuplicateFs
  <2>1. \E x \in {"erase_fs2", "receive", "finish"} :
           \/ session' = session
           \/ session' = [session EXCEPT !.state = x]
    BY <1>4 DEF EraseTrialFwd, PrepareFs, PacketConsumed, DuplicateFs, Continue, Fail
  <2>2. ASSUME NEW x \in {"erase_fs2", "receive", "finish"}
        PROVE  [session EXCEPT !.state = x] \in Session
    BY <1>1, <2>2 DEF Session
  <2> QED  BY <1>1, <2>1, <2>2
<1>5. CASE ConfigWithoutBuffer \/ WriteWithoutHandle
  <2>1. \/ session' = session
        \/ session' = [session EXCEPT !.digest = FALSE]
    BY <1>5 DEF ConfigWithoutBuffer, WriteWithoutHandle, Fail
  <2>2. [session EXCEPT !.digest = FALSE] \in Session
    BY <1>1 DEF Session
  <2> QED  BY <1>1, <2>1, <2>2
<1>6. CASE Finish
  BY <1>6 DEF Finish
<1> QED  BY <1>2, <1>3, <1>4, <1>5, <1>6

\* So a turn keeps the counters in their bounds.
LEMMA ProcessKeepsCount ==
    ASSUME FallbackInv, TableInv, LayoutInv, Process
    PROVE  CountInv'
<1>1. session' \in Session \cup {NoSession}
  BY GetTrialInfoTypes, ProcessConfigFileTypes, OpenImageTypes, WriteImageTypes,
     OtherTurnTypes DEF Process
<1>2. packet # NoPacket
  BY DEF Process, Processing, GetTrialInfo, EraseTrialFwd, EraseSecondFs, PrepareFs,
       ReceiveData, ProcessConfigFile, ConfigWithoutBuffer, OpenImage, WriteImage,
       WriteWithoutHandle, PacketConsumed, DuplicateFs, Finish
<1>3. CASE ReceiveData
  <2>1. \/ Reply(TRUE)
        \/ packet' = [packet EXCEPT !.received = TRUE] /\ UNCHANGED upload_off
    BY <1>3 DEF ReceiveData
  <2>2. CASE Reply(TRUE)
    BY <1>1, <1>2, <2>2, TurnKeepsCount DEF LayoutInv
  <2>3. CASE packet' = [packet EXCEPT !.received = TRUE] /\ UNCHANGED upload_off
    <3>1. packet \in Packet /\ packet.from + packet.len <= FileLen
      BY <1>2 DEF LayoutInv, CountInv
    <3>2. packet' \in Packet /\ packet'.from = packet.from /\ packet'.len = packet.len
      BY <2>3, <3>1 DEF Packet
    <3> QED  BY <1>1, <2>3, <3>1, <3>2 DEF CountInv, LayoutInv
  <2> QED  BY <2>1, <2>2, <2>3
<1>4. CASE ~ ReceiveData
  <2>1. Reply(TRUE) \/ Reply(FALSE) \/ UNCHANGED <<packet, upload_off>>
    BY <1>4 DEF Process, GetTrialInfo, EraseTrialFwd, EraseSecondFs, PrepareFs,
       ProcessConfigFile, ConfigWithoutBuffer, OpenImage, WriteImage,
       WriteWithoutHandle, PacketConsumed, DuplicateFs, Finish, Continue, Fail
  <2> QED  BY <1>1, <1>2, <2>1, TurnKeepsCount DEF LayoutInv
<1> QED  BY <1>3, <1>4

\* Every step does.
LEMMA CountNext ==
    ASSUME FallbackInv, TableInv, LayoutInv, Next
    PROVE  CountInv'
<1>1. ASSUME NEW v \in Version, NEW off \in 0 .. FileLen - 1,
             NEW n \in PacketLen, Upload(v, off, n)
      PROVE  CountInv'
  <2>1. off \in Nat
    OBVIOUS
  <2> QED  BY <1>1, <2>1, UploadKeepsCount
<1>2. 0 \in 0 .. FileLen
  BY Sizes
<1>3. CASE UploadInitFails \/ Restart
  BY <1>2, <1>3 DEF UploadInitFails, Restart, CountInv
<1>4. CASE Accept \/ Reject \/ EraseSlot
  BY <1>4 DEF Accept, Reject, EraseSlot, LayoutInv, CountInv
<1> QED  BY <1>1, <1>3, <1>4, ProcessKeepsCount DEF Next

\* Every step keeps the layout.
LEMMA LayoutNext ==
    ASSUME CarefulErase, FallbackInv, TableInv, LayoutInv, [Next]_vars
    PROVE  LayoutInv'
<1>1. ASSUME Next
      PROVE  MapInv'
  <2>1. ASSUME NEW v \in Version, NEW off \in 0 .. FileLen - 1,
               NEW n \in PacketLen, Upload(v, off, n)
        PROVE  MapInv'
    <3>1. off \in Nat
      OBVIOUS
    <3> QED  BY <2>1, <3>1, UploadKeepsMap
  <2> QED  BY <1>1, <2>1, UploadInitFailsKeepsMap, ProcessKeepsMap, AcceptKeepsMap,
              RejectKeepsMap, EraseSlotKeepsMap, RestartKeepsMap DEF Next
<1>2. CASE UNCHANGED vars
  <2>1. UNCHANGED <<fwd, flash, active, session, packet, upload_off>>
    BY <1>2 DEF vars, tableVars
  <2>2. UNCHANGED <<Golden, Used, TrialRegion, Late, Chosen>>
    BY <2>1 DEF Golden, Used, TrialRegion, TrialIdx, CurrentFwd, RankedFwds,
                Searched, FwdNum, Valid, SetEnd, FirstImageBlock, Late, Chosen, Early
  <2>3. \A j \in 1 .. NImages : PlaceOf(j)' = PlaceOf(j)
    BY <2>1, <2>2 DEF PlaceOf, Place
  <2>4. UsedFsInv' /\ ZoneInv' /\ RegionInv' /\ SwapInv'
    BY <2>1, <2>2 DEF LayoutInv, MapInv, UsedFsInv, ZoneInv, RegionInv, SwapInv
  <2>5. EntryInv'
    BY <2>1, <2>2, <2>3 DEF LayoutInv, MapInv, EntryInv
  <2> QED  BY <2>1, <2>4, <2>5 DEF LayoutInv, MapInv, FreshInv, CountInv
<1> QED  BY <1>1, <1>2, FreshNext, CountNext DEF LayoutInv

\* The factory's layout is one.
LEMMA LayoutInit == Init => LayoutInv
<1> SUFFICES ASSUME Init PROVE LayoutInv
  OBVIOUS
<1>1. PICK r \in {GOLDEN, 1} :
        fwd = [i \in FwdIdx |->
                    IF i = 0
                    THEN [magic |-> TRUE, total |-> TRUE, rank |-> r,
                          status |-> "valid", entries |-> FactoryEntries]
                    ELSE ErasedFwd]
  BY DEF Init, TableInit
<1>2. /\ fwd[0].entries = FactoryEntries
      /\ \A i \in FwdIdx \ {0} : fwd[i].entries = <<>> /\ ~ Valid(fwd[i])
      /\ active = 0 /\ session = NoSession /\ packet = NoPacket /\ upload_off = 0
      /\ 0 \in FwdIdx /\ 1 \in FwdIdx /\ 2 \in FwdIdx
  BY <1>1, Indices DEF ErasedFwd, Valid, Init, TableInit
<1>3. Used \subseteq {0}
  BY <1>2 DEF Used
<1>4. UsedFsInv
  BY <1>2, <1>3, FactoryFacts DEF UsedFsInv, FsPair, Found, Find, PartA, PartB
<1>5. ZoneInv
  <2>1. \A i \in FwdIdx \ {0} : DOMAIN fwd[i].entries = {}
    BY <1>2
  <2>2. /\ DOMAIN fwd[0].entries = ImageIds \cup {FS2}
        /\ \A id \in DOMAIN fwd[0].entries : Inside(fwd[0].entries[id])
        /\ \A id \in {FS1, FS2} : fwd[0].entries[id] \in {PartA, PartB}
    BY <1>2, FactoryFacts DEF PartA, PartB
  <2> QED  BY <1>2, <2>1, <2>2 DEF ZoneInv, ImagesOf
<1>6. ~ Chosen /\ ~ Late
  BY <1>2 DEF Chosen, Late
<1>7. 0 \in 0 .. FileLen
  BY Sizes
<1> QED  BY <1>2, <1>4, <1>5, <1>6, <1>7
           DEF LayoutInv, MapInv, RegionInv, SwapInv, EntryInv, FreshInv, CountInv

-----------------------------------------------------------------------------
(* FieldInv *)

\* An erased descriptor has well-formed fields.
LEMMA ErasedIsFormed == Formed(ErasedFwd) /\ ErasedFwd.rank # GOLDEN
BY FlashAssumption DEF Formed, ErasedFwd, TRIAL, GOLDEN

\* One descriptor is edited.
LEMMA OneEdited ==
    ASSUME FieldInv, NEW t \in FwdIdx, DOMAIN fwd' = FwdIdx,
           \A i \in FwdIdx \ {t} : fwd'[i] = fwd[i],
           Formed(fwd'[t]), t # 0 => fwd'[t].rank # GOLDEN,
           DOMAIN flash' = DOMAIN flash
    PROVE  FieldInv'
<1>1. \A i \in FwdIdx : Formed(fwd'[i])
  BY DEF FieldInv
<1>2. \A i \in {1, 2} : fwd'[i].rank # GOLDEN
  BY Indices DEF FieldInv
<1> QED  BY <1>1, <1>2 DEF FieldInv

\* A step that edits no descriptor keeps the fields well formed.
LEMMA NoneEdited ==
    ASSUME FieldInv, UNCHANGED fwd, DOMAIN flash' = DOMAIN flash
    PROVE  FieldInv'
BY DEF FieldInv, Formed

\* No flash operation adds a cell.
LEMMA FlashKeepsCells ==
    ASSUME [Next]_vars
    PROVE  DOMAIN flash' = DOMAIN flash
<1>1. CASE UNCHANGED flash
  BY <1>1
<1>2. CASE EraseSecondFs
  BY <1>2 DEF EraseSecondFs, Erased
<1>3. CASE OpenImage
  <2>1. DOMAIN Erased(flash, NextPart.start, 1) = DOMAIN flash
    BY DEF Erased
  <2> QED  BY <1>3, <2>1 DEF OpenImage
<1>4. CASE WriteImage
  <2>1. \A e, n : DOMAIN FlashAfter(e, n) = DOMAIN flash
    BY DEF FlashAfter
  <2> QED  BY <1>4, <2>1 DEF WriteImage, FlashAfterWrite
<1>5. CASE DuplicateFs
  BY <1>5 DEF DuplicateFs, CopiedFs
<1>6. UNCHANGED flash \/ EraseSecondFs \/ OpenImage \/ WriteImage \/ DuplicateFs
  BY DEF Next, vars, tableVars, Upload, UploadInitFails, Process, GetTrialInfo,
         EraseTrialFwd, PrepareFs, ReceiveData, ProcessConfigFile,
         ConfigWithoutBuffer, WriteWithoutHandle, PacketConsumed, Finish, Accept,
         AcceptTrialFwd, Reject, RejectTrialFwd, EraseSlot, Restart, Boot
<1> QED  BY <1>1, <1>2, <1>3, <1>4, <1>5, <1>6

\* A session past the choice has a trial descriptor.
LEMMA SessionTrial ==
    ASSUME FallbackInv, NEW state, Processing(state), state # "get_trial"
    PROVE  session.trial \in FwdIdx
BY Turn DEF Processing, FallbackInv, SessionInv

\* The turns keep the fields well formed.
LEMMA ProcessKeepsFields ==
    ASSUME FallbackInv, FieldInv, Process, DOMAIN flash' = DOMAIN flash
    PROVE  FieldInv'
<1> DEFINE t == session.trial
           d == fwd[t]
<1>1. CASE UNCHANGED fwd
  BY <1>1, NoneEdited
<1>2. ASSUME t \in FwdIdx
      PROVE  Formed(d) /\ (t # 0 => d.rank # GOLDEN) /\ DOMAIN fwd = FwdIdx
  BY <1>2, Indices DEF FieldInv
<1> DEFINE Edited == /\ DOMAIN fwd' = FwdIdx
                     /\ \A i \in FwdIdx \ {t} : fwd'[i] = fwd[i]
<1>3. CASE EraseTrialFwd
  <2>1. t \in FwdIdx /\ Processing("erase_fwd")
    BY <1>3, SessionTrial DEF EraseTrialFwd
  <2>2. UNCHANGED fwd \/ (Edited /\ fwd'[t] = ErasedFwd)
    BY <1>2, <1>3, <2>1 DEF EraseTrialFwd, EraseFwd
  <2> QED  BY <1>1, <2>1, <2>2, ErasedIsFormed, OneEdited
<1>4. ASSUME t \in FwdIdx, NEW id, NEW p, fwd' = WithEntry(t, id, p)
      PROVE  FieldInv'
  <2>1. PICK e : fwd' = [fwd EXCEPT ![t].entries = e]
    BY <1>4 DEF WithEntry
  <2>2. Edited /\ fwd'[t] = [d EXCEPT !.entries = e]
    BY <1>2, <1>4, <2>1
  <2>3. Formed(fwd'[t]) /\ fwd'[t].rank = d.rank
    BY <1>2, <1>4, <2>2 DEF Formed
  <2> QED  BY <1>2, <1>4, <2>2, <2>3, OneEdited
<1>5. CASE PrepareFs
  <2>1. t \in FwdIdx
    BY <1>5, SessionTrial DEF PrepareFs
  <2> QED  BY <1>1, <1>4, <1>5, <2>1 DEF PrepareFs
<1>6. CASE ProcessConfigFile
  <2>1. t \in FwdIdx
    BY <1>6, SessionTrial DEF ProcessConfigFile
  <2>2. UNCHANGED fwd \/ \E k \in 0 .. 3 : fwd' = HeaderWrites(t, k)
    <3> DEFINE s == [session EXCEPT !.config_len = @ + ConfigPart,
                                    !.buf_offset = ConfigPart,
                                    !.config_of = ConfigOf(session)]
    <3>1. s.trial = t
      OBVIOUS
    <3>2. \/ UNCHANGED fwd
          \/ \E k \in 0 .. 3 : fwd' = HeaderWrites(s.trial, k)
      BY <1>6 DEF ProcessConfigFile
    <3> QED  BY <3>1, <3>2
  <2>3. ASSUME NEW k \in 0 .. 3, fwd' = HeaderWrites(t, k)
        PROVE  FieldInv'
    <3>1. k = 0 \/ k \in {1, 2} \/ k = 3
      OBVIOUS
    <3>2. CASE k = 0
      BY <1>1, <2>3, <3>2 DEF HeaderWrites
    <3>3. CASE k \in {1, 2}
      <4>1. fwd' = [fwd EXCEPT ![t].magic = TRUE]
        BY <2>3, <3>3 DEF HeaderWrites
      <4>2. Edited /\ fwd'[t] = [d EXCEPT !.magic = TRUE]
        BY <1>2, <2>1, <4>1
      <4>3. Formed(fwd'[t]) /\ fwd'[t].rank = d.rank
        BY <1>2, <2>1, <4>2 DEF Formed
      <4> QED  BY <1>2, <2>1, <4>2, <4>3, OneEdited
    <3>4. CASE k = 3
      <4>1. fwd' = [fwd EXCEPT ![t].magic = TRUE, ![t].total = TRUE]
        BY <2>3, <3>4 DEF HeaderWrites
      <4>2. Edited /\ fwd'[t] = [d EXCEPT !.magic = TRUE, !.total = TRUE]
        BY <1>2, <2>1, <4>1
      <4>3. Formed(fwd'[t]) /\ fwd'[t].rank = d.rank
        BY <1>2, <2>1, <4>2 DEF Formed
      <4> QED  BY <1>2, <2>1, <4>2, <4>3, OneEdited
    <3> QED  BY <3>1, <3>2, <3>3, <3>4
  <2> QED  BY <1>1, <2>2, <2>3
<1>7. CASE OpenImage
  <2>1. t \in FwdIdx
    BY <1>7, SessionTrial DEF OpenImage
  <2>2. UNCHANGED fwd \/ \E p : fwd' = WithEntry(t, Image.id, p)
    <3> DEFINE s == [session EXCEPT !.wrt_count = 0, !.wrt_length = Image.len]
    <3>1. s.trial = t
      OBVIOUS
    <3>2. UNCHANGED fwd \/ \E p : fwd' = WithEntry(s.trial, Image.id, p)
      BY <1>7 DEF OpenImage
    <3> QED  BY <3>1, <3>2
  <2> QED  BY <1>1, <1>4, <2>1, <2>2
<1>8. CASE Finish
  <2>1. t \in FwdIdx
    BY <1>8, SessionTrial DEF Finish
  <2>2. UNCHANGED fwd \/ (Edited /\ fwd'[t] = [d EXCEPT !.status = "valid"])
    BY <1>2, <1>8, <2>1 DEF Finish, WithStatus
  <2>3. CASE Edited /\ fwd'[t] = [d EXCEPT !.status = "valid"]
    <3>1. Formed(fwd'[t]) /\ fwd'[t].rank = d.rank
      BY <1>2, <2>1, <2>3 DEF Formed
    <3> QED  BY <1>2, <2>1, <2>3, <3>1, OneEdited
  <2> QED  BY <1>1, <2>2, <2>3
<1>9. UNCHANGED fwd \/ EraseTrialFwd \/ PrepareFs \/ ProcessConfigFile
      \/ OpenImage \/ Finish
  BY DEF Process, tableVars, GetTrialInfo, EraseSecondFs, ReceiveData,
         ConfigWithoutBuffer, WriteImage, WriteWithoutHandle, PacketConsumed,
         DuplicateFs
<1> QED  BY <1>1, <1>3, <1>5, <1>6, <1>7, <1>8, <1>9

\* An acceptance gives ranks in their range.
LEMMA AcceptKeepsFields ==
    ASSUME FallbackInv, FieldInv, Accept
    PROVE  FieldInv'
<1>1. PICK n \in 0 .. 2 : AcceptTrialFwd(n)
  BY DEF Accept
<1> DEFINE t == TrialFwd  c == CurrentFwd  r == BiggestRank + 1
<1>2. /\ Descriptors /\ Confirmed /\ HasTrial /\ UNCHANGED flash
      /\ t \in FwdIdx /\ c \in FwdIdx
  BY <1>1, TrialIsTrial, CurrentIsConfirmed, Indices
     DEF AcceptTrialFwd, FallbackInv, TrialFwds, Searched
<1>3. r \in -1 .. MaxRank /\ r # GOLDEN
  <2>1. BiggestRank \in Int
    BY <1>2 DEF BiggestRank, Descriptors
  <2>2. BiggestRank < MaxRank /\ r \in Nat \ {0} /\ MaxRank \in Nat
    BY <1>1, <1>2, NextRank, FlashAssumption DEF AcceptTrialFwd
  <2> QED  BY <2>1, <2>2 DEF GOLDEN
<1> HIDE DEF t, c, r
<1> DEFINE f == [fwd EXCEPT ![t].rank = r]
<1>4. \/ UNCHANGED fwd
      \/ fwd' = f
      \/ fwd' = [f EXCEPT ![c].status = "invalid"]
  <2>1. n = 0 \/ n = 1 \/ n = 2
    OBVIOUS
  <2> QED  BY <1>1, <2>1 DEF AcceptTrialFwd, AcceptWrites, WithRank, WithStatus,
                             t, c, r
<1>5. /\ DOMAIN f = FwdIdx
      /\ \A i \in FwdIdx : Formed(f[i])
      /\ \A i \in {1, 2} : f[i].rank # GOLDEN
  <2>1. /\ f[t] = [fwd[t] EXCEPT !.rank = r]
        /\ DOMAIN f = FwdIdx
        /\ \A i \in FwdIdx \ {t} : f[i] = fwd[i]
    BY <1>2 DEF FieldInv
  <2>2. Formed(f[t]) /\ f[t].rank = r
    BY <1>2, <1>3, <2>1 DEF FieldInv, Formed
  <2> QED  BY <1>3, <2>1, <2>2, Indices DEF FieldInv
<1>6. CASE UNCHANGED fwd
  BY <1>2, <1>6, NoneEdited
<1>7. CASE fwd' = f
  BY <1>2, <1>5, <1>7 DEF FieldInv
<1>8. CASE fwd' = [f EXCEPT ![c].status = "invalid"]
  <2> HIDE DEF f
  <2>1. /\ fwd'[c] = [f[c] EXCEPT !.status = "invalid"]
        /\ DOMAIN fwd' = FwdIdx
        /\ \A i \in FwdIdx \ {c} : fwd'[i] = f[i]
    BY <1>2, <1>5, <1>8
  <2>2. Formed(fwd'[c]) /\ fwd'[c].rank = f[c].rank
    <3>1. Formed(f[c])
      BY <1>2, <1>5
    <3> QED  BY <2>1, <3>1 DEF Formed
  <2>3. \A i \in FwdIdx : Formed(fwd'[i]) /\ fwd'[i].rank = f[i].rank
    BY <1>5, <2>1, <2>2
  <2> QED  BY <1>2, <1>5, <2>1, <2>3, Indices DEF FieldInv
<1> QED  BY <1>4, <1>6, <1>7, <1>8

\* A rejection only writes a status.
LEMMA RejectKeepsFields ==
    ASSUME FieldInv, Reject
    PROVE  FieldInv'
<1>1. PICK n \in 0 .. 2 : RejectTrialFwd(n)
  BY DEF Reject
<1> DEFINE t == TrialFwd
           d == fwd[t]
<1>2. HasTrial /\ UNCHANGED flash /\ t \in FwdIdx
  BY <1>1, TrialIsTrial, Indices DEF RejectTrialFwd, TrialFwds, Searched
<1>3. \/ UNCHANGED fwd
      \/ fwd' = [fwd EXCEPT ![t].status = "invalid"]
      \/ fwd' = [fwd EXCEPT ![t].status = "invalid", ![t].rank = 1]
  <2>1. n = 0 \/ n = 1 \/ n = 2
    OBVIOUS
  <2> QED  BY <1>1, <2>1 DEF RejectTrialFwd, RejectWrites, WithStatus, WithRank
<1> HIDE DEF t
<1>4. Formed(d) /\ DOMAIN fwd = FwdIdx /\ (t # 0 => d.rank # GOLDEN)
  BY <1>2, Indices DEF FieldInv
<1>5. CASE UNCHANGED fwd
  BY <1>2, <1>5, NoneEdited
<1>6. CASE ~ UNCHANGED fwd
  <2>1. /\ DOMAIN fwd' = FwdIdx
        /\ \A i \in FwdIdx \ {t} : fwd'[i] = fwd[i]
        /\ \/ fwd'[t] = [d EXCEPT !.status = "invalid"]
           \/ fwd'[t] = [d EXCEPT !.status = "invalid", !.rank = 1]
    BY <1>2, <1>3, <1>4, <1>6
  <2>2. Formed(fwd'[t]) /\ fwd'[t].rank \in {d.rank, 1}
    <3>1. CASE fwd'[t] = [d EXCEPT !.status = "invalid"]
      BY <1>4, <3>1 DEF Formed
    <3>2. CASE fwd'[t] = [d EXCEPT !.status = "invalid", !.rank = 1]
      <4>1. 1 \in -1 .. MaxRank
        BY FlashAssumption
      <4> HIDE DEF d
      <4> QED  BY <1>4, <3>2, <4>1 DEF Formed
    <3> QED  BY <2>1, <3>1, <3>2
  <2> QED  BY <1>2, <1>4, <2>1, <2>2, OneEdited DEF GOLDEN
<1> QED  BY <1>5, <1>6

\* Every step keeps the fields well formed.
LEMMA FieldNext ==
    ASSUME FallbackInv, FieldInv, [Next]_vars
    PROVE  FieldInv'
<1>1. DOMAIN flash' = DOMAIN flash
  BY FlashKeepsCells
<1>2. CASE UNCHANGED fwd
  BY <1>1, <1>2, NoneEdited
<1>3. CASE EraseSlot
  <2>1. fwd' = [fwd EXCEPT ![1] = ErasedFwd] /\ DOMAIN fwd = FwdIdx /\ 1 \in FwdIdx
    BY <1>3, Indices DEF EraseSlot, EraseFwd, FieldInv
  <2> QED  BY <1>1, <2>1, ErasedIsFormed, OneEdited
<1>4. UNCHANGED fwd \/ Process \/ Accept \/ Reject \/ EraseSlot
  BY DEF Next, vars, tableVars, Upload, UploadInitFails, Restart, Boot
<1> QED  BY <1>1, <1>2, <1>3, <1>4, ProcessKeepsFields, AcceptKeepsFields,
            RejectKeepsFields

\* The factory's are.
LEMMA FieldInit == Init => FieldInv
<1> SUFFICES ASSUME Init PROVE FieldInv
  OBVIOUS
<1>1. PICK r \in {GOLDEN, 1} :
        fwd = [i \in FwdIdx |->
                    IF i = 0
                    THEN [magic |-> TRUE, total |-> TRUE, rank |-> r,
                          status |-> "valid", entries |-> FactoryEntries]
                    ELSE ErasedFwd]
  BY DEF Init, TableInit
<1>2. DOMAIN flash = Cells(MaxFwd, MemBlocks - MaxFwd)
  BY DEF Init, FactoryFlash
<1>3. Formed(fwd[0])
  BY <1>1, Indices, FlashAssumption DEF Formed, GOLDEN
<1>4. \A i \in FwdIdx \ {0} : fwd[i] = ErasedFwd
  BY <1>1
<1> QED  BY <1>1, <1>2, <1>3, <1>4, Indices, ErasedIsFormed DEF FieldInv

-----------------------------------------------------------------------------
(* The type invariant *)

\* The whole invariant holds initially,
LEMMA UpgradeInit == Init => UpgradeInv
BY InitImpliesInv, TableInvInit, LayoutInit, FieldInit DEF UpgradeInv

\* is kept by every step,
LEMMA UpgradeNext ==
    ASSUME CarefulErase, UpgradeInv, [Next]_vars
    PROVE  UpgradeInv'
BY FallbackNext, TableInvNext, LayoutNext, FieldNext DEF UpgradeInv

\* and implies the type invariant.
LEMMA UpgradeImpliesTypeOK == UpgradeInv => TypeOK
<1> SUFFICES ASSUME UpgradeInv PROVE TypeOK
  OBVIOUS
<1>1. \A i \in FwdIdx : IsDescriptor(fwd[i])
  <2> TAKE i \in FwdIdx
  <2>1. Formed(fwd[i])
    BY DEF UpgradeInv, FieldInv
  <2>2. /\ fwd[i] = [magic |-> fwd[i].magic, total |-> fwd[i].total,
                     rank |-> fwd[i].rank, status |-> fwd[i].status,
                     entries |-> fwd[i].entries]
        /\ fwd[i].magic \in BOOLEAN /\ fwd[i].total \in BOOLEAN
        /\ fwd[i].rank \in -1 .. MaxRank
        /\ fwd[i].status \in {"unused", "valid", "invalid"}
    BY <2>1 DEF Formed
  <2>3. /\ DOMAIN fwd[i].entries \subseteq ImageIds \cup {FS2}
        /\ \A id \in DOMAIN fwd[i].entries : Inside(fwd[i].entries[id])
    BY DEF UpgradeInv, LayoutInv, MapInv, ZoneInv
  <2> QED  BY <2>2, <2>3, InsideFacts DEF IsDescriptor
<1>2. active \in FwdIdx
  BY FsOfActive DEF UpgradeInv
<1>3. boot_type \in {"golden", "current", "trial"}
  BY DEF UpgradeInv, TableInv
<1>4. /\ upload_off \in 0 .. FileLen
      /\ session = NoSession \/ session \in Session
      /\ packet # NoPacket =>
           /\ session # NoSession /\ packet.of \in Version
           /\ packet.from + packet.len <= FileLen
  BY DEF UpgradeInv, FallbackInv, LayoutInv, CountInv, Packet
<1> QED  BY <1>1, <1>2, <1>3, <1>4 DEF TypeOK, UpgradeInv, FieldInv

\* Every counter of the session stays within the file and the flash, every
\* descriptor is one the boot loader can parse: whatever packets arrive, no
\* image is written past its place and no entry names blocks outside the flash
\* (fw_upgrade_context_t, fw_upgrade_create_partition).
THEOREM UpgradeTypeOK ==
    ASSUME CarefulErase
    PROVE  Spec => []TypeOK
<1>1. UpgradeInv /\ [Next]_vars => UpgradeInv'
  BY UpgradeNext
<1> QED  BY <1>1, UpgradeInit, UpgradeImpliesTypeOK, PTL DEF Spec

-----------------------------------------------------------------------------
(* What the steps do to table and flash *)

\* A turn of the session edits the trial's descriptor only.
LEMMA TurnEditsTrial ==
    ASSUME FallbackInv, Process
    PROVE  \A i \in FwdIdx \ {session.trial} : fwd'[i] = fwd[i]
<1> DEFINE t == session.trial
           Edited == \A i \in FwdIdx \ {t} : fwd'[i] = fwd[i]
<1>1. DOMAIN fwd = FwdIdx
  BY DEF FallbackInv, Descriptors
<1>2. CASE UNCHANGED fwd
  BY <1>2
<1>3. CASE EraseTrialFwd
  BY <1>1, <1>3 DEF EraseTrialFwd, EraseFwd
<1>4. ASSUME NEW id, NEW p, fwd' = WithEntry(t, id, p)
      PROVE  Edited
  BY <1>1, <1>4 DEF WithEntry
<1>5. CASE PrepareFs
  BY <1>2, <1>4, <1>5 DEF PrepareFs
<1>6. CASE ProcessConfigFile
  <2> DEFINE s == [session EXCEPT !.config_len = @ + ConfigPart,
                                  !.buf_offset = ConfigPart,
                                  !.config_of = ConfigOf(session)]
  <2>1. s.trial = t \/ "trial" \notin DOMAIN session
    OBVIOUS
  <2>2. s.trial = t
    <3>1. session \in Session \/ "trial" \in DOMAIN session
      BY <1>6, Turn DEF ProcessConfigFile, NewSession
    <3> QED  BY <3>1 DEF Session
  <2>3. UNCHANGED fwd \/ \E k \in 0 .. 3 : fwd' = HeaderWrites(s.trial, k)
    BY <1>6 DEF ProcessConfigFile
  <2>4. ASSUME NEW k \in 0 .. 3, fwd' = HeaderWrites(t, k)
        PROVE  Edited
    <3>1. k = 0 \/ k \in {1, 2} \/ k = 3
      OBVIOUS
    <3> QED  BY <1>1, <2>4, <3>1 DEF HeaderWrites
  <2> QED  BY <1>2, <2>2, <2>3, <2>4
<1>7. CASE OpenImage
  <2> DEFINE s == [session EXCEPT !.wrt_count = 0, !.wrt_length = Image.len]
  <2>1. s.trial = t
    <3>1. "trial" \in DOMAIN session
      BY <1>7, Turn DEF OpenImage, NewSession
    <3> QED  BY <3>1
  <2>2. UNCHANGED fwd \/ \E p : fwd' = WithEntry(s.trial, Image.id, p)
    BY <1>7 DEF OpenImage
  <2> QED  BY <1>2, <1>4, <2>1, <2>2
<1>8. CASE Finish
  BY <1>1, <1>2, <1>8 DEF Finish, WithStatus
<1>9. UNCHANGED fwd \/ EraseTrialFwd \/ PrepareFs \/ ProcessConfigFile
      \/ OpenImage \/ Finish
  BY DEF Process, tableVars, GetTrialInfo, EraseSecondFs, ReceiveData,
         ConfigWithoutBuffer, WriteImage, WriteWithoutHandle, PacketConsumed,
         DuplicateFs
<1> QED  BY <1>2, <1>3, <1>5, <1>6, <1>7, <1>8, <1>9

\* A step that writes to no flash, and after which no more firmwares are in
\* use and nothing has been prepared.
Calm ==
    /\ UNCHANGED flash
    /\ Kept' \subseteq Kept
    /\ Used' \subseteq Used
    /\ \A i \in Used' : fwd'[i].entries = fwd[i].entries
    /\ Late' => session'.state = "erase_fs2"

\* A packet that goes on with the upload.
OffsetReset ==
    /\ UNCHANGED <<fwd, flash, active>>
    /\ session' = [session EXCEPT !.buf_offset = 0]
    /\ packet = NoPacket
    /\ \E v \in Version, off \in Nat \ {0}, n \in Nat : Upload(v, off, n)

\* What must not lose its data is in use.
LEMMA KeptIsUsed ==
    ASSUME FallbackInv, TableInv
    PROVE  Kept \subseteq Used /\ Used \subseteq FwdIdx
BY Choices, Indices DEF Kept, Used, FallbackInv, TableInv, TrialFwds, Searched

\* Every step is a turn after the erasure, a session's end or a calm step.
LEMMA Steps ==
    ASSUME CarefulErase, UpgradeInv, Next
    PROVE  \/ LateTurn /\ OthersSame /\ (LateAction \/ OffsetReset)
           \/ Finish
           \/ Calm
<1> USE DEF UpgradeInv
<1>1. /\ Descriptors /\ Confirmed /\ CurrentFwd \in FwdIdx /\ Valid(fwd[CurrentFwd])
      /\ active \in FwdIdx /\ Used \subseteq FwdIdx
  BY Choices, KeptIsUsed DEF FallbackInv, TableInv, Kept
<1>2. ASSUME UNCHANGED <<fwd, flash, active>>, Late' => session'.state = "erase_fs2"
      PROVE  Calm
  <2>1. UNCHANGED <<CurrentFwd, TrialFwds, Used>>
    BY <1>2 DEF CurrentFwd, RankedFwds, TrialFwds, Searched, FwdNum, Valid, Used
  <2> QED  BY <1>2, <2>1 DEF Calm, Kept
<1>3. ASSUME NEW v \in Version, NEW off \in 0 .. FileLen - 1,
             NEW n \in PacketLen, Upload(v, off, n)
      PROVE  \/ LateTurn /\ OthersSame /\ (LateAction \/ OffsetReset)
             \/ Calm
  <2>1. off \in Nat
    OBVIOUS
  <2>2. CASE off = 0
    <3>1. UNCHANGED <<fwd, flash, active>> /\ ~ Late'
      BY <1>3, <2>2 DEF Upload, tableVars, Late, Early, NewSession
    <3> QED  BY <1>2, <3>1
  <2>3. CASE off # 0
    <3>1. LateTurn
      BY <1>3, <2>1, <2>3, UploadIsLate
    <3>2. n \in Nat
      BY UpgradeAssumption
    <3>3. OffsetReset
      BY <1>3, <2>1, <2>3, <3>2 DEF Upload, tableVars, OffsetReset
    <3> QED  BY <3>1, <3>3 DEF OthersSame, OffsetReset
  <2> QED  BY <2>2, <2>3
<1>4. CASE UploadInitFails
  BY <1>2, <1>4 DEF UploadInitFails, tableVars, Late
<1>5. CASE GetTrialInfo
  <2>1. UNCHANGED <<fwd, flash, active>>
    BY <1>5 DEF GetTrialInfo, tableVars
  <2>2. ~ Late'
    <3>1. /\ session.state = "get_trial" /\ DOMAIN session = DOMAIN NewSession
      BY <1>5, Turn DEF GetTrialInfo
    <3>2. session'.state \in {"get_trial", "erase_fwd"}
      BY <1>5, <3>1 DEF GetTrialInfo, Continue, Fail, NewSession
    <3> QED  BY <3>2 DEF Late, Early
  <2> QED  BY <1>2, <2>1, <2>2
<1>6. CASE EraseTrialFwd
  <2> DEFINE t == session.trial
  <2>1. /\ t \in FwdIdx \ {active} /\ t # CurrentFwd
        /\ Golden => t # 0
        /\ UNCHANGED <<active, flash>>
        /\ DOMAIN session = DOMAIN NewSession /\ session.state = "erase_fwd"
    BY <1>6, ErasureStarts DEF EraseTrialFwd
  <2>2. session'.state \in {"erase_fwd", "erase_fs2"}
    BY <1>6, <2>1 DEF EraseTrialFwd, Continue, Fail, NewSession
  <2>3. Late' => session'.state = "erase_fs2"
    BY <2>2 DEF Late, Early
  <2>4. CASE UNCHANGED fwd
    BY <1>2, <2>1, <2>3, <2>4
  <2>5. CASE EraseFwd(t)
    <3>1. /\ TrialFwds' = TrialFwds \ {t} /\ CurrentFwd' = CurrentFwd
          /\ ~ Valid(fwd'[t])
          /\ \A j \in FwdIdx \ {t} : fwd'[j] = fwd[j]
      <4> HIDE DEF t
      <4> QED  BY <1>1, <2>1, <2>5, EraseSearches
    <3>2. Used' \subseteq Used \ {t}
      BY <2>1, <3>1 DEF Used
    <3> QED  BY <1>1, <2>1, <2>3, <3>1, <3>2 DEF Calm, Kept
  <2> QED  BY <1>6, <2>4, <2>5 DEF EraseTrialFwd
<1>7. CASE LateAction
  <2>1. Process
    BY <1>7 DEF LateAction, Process
  <2>2. OthersSame
    BY <2>1, TurnEditsTrial DEF OthersSame
  <2> QED  BY <1>7, <2>2, LateActions
<1>8. CASE Accept
  <2>1. UNCHANGED <<flash, active, session>> /\ ~ Late
    BY <1>8, AcceptSearches
  <2>2. ~ Late'
    BY <2>1 DEF Late
  <2>3. CASE UNCHANGED fwd
    BY <1>2, <2>1, <2>2, <2>3
  <2>4. CASE ~ UNCHANGED fwd
    <3>1. /\ TrialFwds = {TrialIdx} /\ TrialFwds' = {} /\ CurrentFwd' = TrialIdx
          /\ \A i \in FwdIdx : /\ fwd'[i].entries = fwd[i].entries
                               /\ Valid(fwd'[i]) => Valid(fwd[i])
      BY <1>8, <2>4, AcceptSearches
    <3>2. Used' \subseteq Used
      BY <2>1, <3>1 DEF Used
    <3> QED  BY <1>1, <2>1, <2>2, <3>1, <3>2 DEF Calm, Kept
  <2> QED  BY <2>3, <2>4
<1>9. CASE Reject
  <2>1. UNCHANGED <<flash, active, session>> /\ ~ Late
    BY <1>9, RejectSearches
  <2>2. ~ Late'
    BY <2>1 DEF Late
  <2>3. CASE UNCHANGED fwd
    BY <1>2, <2>1, <2>2, <2>3
  <2>4. CASE ~ UNCHANGED fwd
    <3>1. /\ TrialFwds' = {} /\ CurrentFwd' = CurrentFwd
          /\ \A i \in FwdIdx : /\ fwd'[i].entries = fwd[i].entries
                               /\ Valid(fwd'[i]) => Valid(fwd[i])
      BY <1>9, <2>4, RejectSearches
    <3>2. Used' \subseteq Used
      BY <2>1, <3>1 DEF Used
    <3> QED  BY <1>1, <2>1, <2>2, <3>1, <3>2 DEF Calm, Kept
  <2> QED  BY <2>3, <2>4
<1>10. CASE EraseSlot
  <2>1. /\ EraseFwd(1) /\ 1 \in FwdIdx /\ 1 # CurrentFwd /\ 1 # active
        /\ session' = NoSession /\ UNCHANGED <<flash, active>>
    BY <1>10, EraseSlotStarts
  <2>2. /\ TrialFwds' = TrialFwds \ {1} /\ CurrentFwd' = CurrentFwd
        /\ ~ Valid(fwd'[1])
        /\ \A j \in FwdIdx \ {1} : fwd'[j] = fwd[j]
    BY <1>1, <2>1, EraseSearches
  <2>3. Used' \subseteq Used \ {1} /\ ~ Late'
    BY <2>1, <2>2 DEF Used, Late
  <2> QED  BY <1>1, <2>1, <2>2, <2>3 DEF Calm, Kept
<1>11. CASE Restart
  <2>1. /\ UNCHANGED <<fwd, flash>> /\ session' = NoSession
        /\ active' \in TrialFwds \cup {CurrentFwd}
    BY <1>11, RestartStarts
  <2>2. UNCHANGED <<CurrentFwd, TrialFwds>>
    BY <2>1 DEF CurrentFwd, RankedFwds, TrialFwds, Searched, FwdNum, Valid
  <2>3. Used' \subseteq Used
    <3>1. Valid(fwd[active'])
      BY <1>1, <2>1 DEF TrialFwds
    <3> QED  BY <2>1, <3>1 DEF Used, Valid
  <2>4. ~ Late'
    BY <2>1 DEF Late
  <2> QED  BY <2>1, <2>2, <2>3, <2>4 DEF Calm, Kept
<1>12. Process => GetTrialInfo \/ EraseTrialFwd \/ LateAction \/ Finish
  BY DEF Process, LateAction
<1> QED  BY <1>3, <1>4, <1>5, <1>6, <1>7, <1>8, <1>9, <1>10, <1>11, <1>12 DEF Next

-----------------------------------------------------------------------------
(* Blocks and cells *)

\* The block a cell of a partition is in.
LEMMA BlockOf ==
    ASSUME NEW x \in Nat
    PROVE  /\ x \div BlockUnits \in Nat
           /\ (x \div BlockUnits) * BlockUnits <= x
           /\ x < (x \div BlockUnits) * BlockUnits + BlockUnits
<1>1. BlockUnits \in Nat /\ BlockUnits > 0
  BY FlashAssumption
<1> QED  BY <1>1

\* The block of a unit of a partition is in the partition.
LEMMA BlockWithin ==
    ASSUME NEW x \in Nat, NEW s \in Nat, x < s * BlockUnits
    PROVE  x \div BlockUnits < s
<1> DEFINE b == x \div BlockUnits
<1>1. b \in Nat /\ b * BlockUnits <= x
  BY BlockOf
<1> HIDE DEF b
<1>2. BlockUnits \in Nat /\ s * BlockUnits \in Nat /\ b * BlockUnits \in Nat
  BY <1>1, FlashAssumption
<1>3. s <= b => s * BlockUnits <= b * BlockUnits
  BY <1>1, BlocksInOrder
<1>4. b < s
  BY <1>1, <1>2, <1>3
<1> QED  BY <1>4 DEF b

\* The cells of a partition are cells of the flash.
LEMMA CellFacts ==
    ASSUME NEW p, Inside(p)
    PROVE  /\ Cells(p.start, p.size) \subseteq Cells(MaxFwd, MemBlocks - MaxFwd)
           /\ \A k \in 0 .. p.size * BlockUnits - 1 :
                p.start * BlockUnits + k \in Cells(p.start, p.size)
           /\ p.size # 0 => 0 \in 0 .. p.size * BlockUnits - 1
<1>1. /\ p.start \in Nat /\ p.size \in Nat /\ MaxFwd <= p.start
      /\ p.start + p.size <= MemBlocks
      /\ BlockUnits \in Nat \ {0} /\ MaxFwd \in Nat /\ MemBlocks \in Nat
  BY InsideFacts, FlashAssumption DEF MaxFwd
<1>2. MaxFwd * BlockUnits <= p.start * BlockUnits
  BY <1>1, BlocksInOrder
<1>3. (p.start + p.size) * BlockUnits <= (MaxFwd + (MemBlocks - MaxFwd)) * BlockUnits
  BY <1>1, BlocksInOrder
<1>4. /\ (p.start + p.size) * BlockUnits = p.start * BlockUnits + p.size * BlockUnits
      /\ p.start * BlockUnits \in Nat /\ p.size * BlockUnits \in Nat
  BY <1>1
<1>5. Cells(p.start, p.size) \subseteq Cells(MaxFwd, MemBlocks - MaxFwd)
  <2>1. /\ MaxFwd * BlockUnits \in Int
        /\ (p.start + p.size) * BlockUnits \in Int
        /\ (MaxFwd + (MemBlocks - MaxFwd)) * BlockUnits \in Int
    BY <1>1
  <2> QED  BY <1>2, <1>3, <1>4, <2>1 DEF Cells
<1>6. \A k \in 0 .. p.size * BlockUnits - 1 :
        p.start * BlockUnits + k \in Cells(p.start, p.size)
  BY <1>4 DEF Cells
<1>7. p.size # 0 => 1 * BlockUnits <= p.size * BlockUnits
  BY <1>1, BlocksInOrder
<1>8. p.size # 0 => 0 \in 0 .. p.size * BlockUnits - 1
  BY <1>1, <1>4, <1>7
<1> QED  BY <1>5, <1>6, <1>8

\* Partitions side by side share no cell.
LEMMA BesideCells ==
    ASSUME NEW p, NEW q, Inside(p), Inside(q), Beside(p, q)
    PROVE  /\ Cells(p.start, p.size) \cap Cells(q.start, q.size) = {}
<1>1. /\ p.start \in Nat /\ PartEnd(p) \in Nat /\ PartEnd(p) = p.start + p.size
      /\ q.start \in Nat /\ PartEnd(q) \in Nat /\ PartEnd(q) = q.start + q.size
      /\ BlockUnits \in Nat
  BY InsideFacts, FlashAssumption
<1>2. /\ p.start * BlockUnits \in Int /\ PartEnd(p) * BlockUnits \in Int
      /\ q.start * BlockUnits \in Int /\ PartEnd(q) * BlockUnits \in Int
  BY <1>1
<1>3. \/ PartEnd(p) * BlockUnits <= q.start * BlockUnits
      \/ PartEnd(q) * BlockUnits <= p.start * BlockUnits
  BY <1>1, BlocksInOrder DEF Beside
<1>4. /\ Cells(p.start, p.size) = p.start * BlockUnits .. PartEnd(p) * BlockUnits - 1
      /\ Cells(q.start, q.size) = q.start * BlockUnits .. PartEnd(q) * BlockUnits - 1
  BY <1>1 DEF Cells
<1> DEFINE a == p.start * BlockUnits  b == PartEnd(p) * BlockUnits
           c == q.start * BlockUnits  d == PartEnd(q) * BlockUnits
<1> HIDE DEF a, b, c, d
<1>5. (b <= c \/ d <= a) /\ a \in Int /\ b \in Int /\ c \in Int /\ d \in Int
  BY <1>2, <1>3 DEF a, b, c, d
<1>6. (a .. b - 1) \cap (c .. d - 1) = {}
  BY <1>5
<1> QED  BY <1>4, <1>6 DEF a, b, c, d

-----------------------------------------------------------------------------
(* What a turn writes to *)

\* The second file system of the firmware that runs, or part of the region
\* of the next image set.
Target(p) ==
    \/ p = Find(fwd[active], FS2)
    \/ Inside(p) /\ Within(p, TrialRegion)

\* No cell but those of partition p changes.
Spares(p) ==
    \A a \in DOMAIN flash \ Cells(p.start, p.size) : flash'[a] = flash[a]

\* What a turn writes to is in the flash.
LEMMA TargetIsInside ==
    ASSUME UpgradeInv, NEW p, Target(p)
    PROVE  Inside(p)
BY FsOfActive, FactoryFacts DEF Target, UpgradeInv

\* A chunk is written to its image's partition, and so are the erasures.
LEMMA ChunkCells ==
    ASSUME UpgradeInv, WriteImage
    PROVE  LET p == session.part
           IN  /\ Inside(p) /\ Target(p)
               /\ Image.len <= p.size * BlockUnits
               /\ EnteredCells \subseteq Cells(p.start, p.size)
               /\ session.wrt_count + ChunkLen < Image.len
                    => NextCells \subseteq Cells(p.start, p.size)
               /\ \A k \in 0 .. ChunkLen - 1 :
                    p.start * BlockUnits + session.wrt_count + k
                      \in Cells(p.start, p.size)
<1> USE DEF UpgradeInv
<1> DEFINE p == session.part
           w == session.wrt_count
           n == ChunkLen
<1>1. /\ Processing("image") /\ session.index \in 1 .. NImages
      /\ Image = Images[session.index] /\ p = PlaceOf(session.index)
      /\ w \in Nat /\ n \in Nat \ {0} /\ w + n <= Image.len /\ Image.len \in Nat
  BY ChunkFacts DEF WriteImage
<1>2. Inside(p) /\ Target(p) /\ Image.len <= p.size * BlockUnits
  <2>1. CASE Image.id = FS1
    <3>1. p = Find(fwd[active], FS2) /\ Target(p)
      BY <1>1, <2>1 DEF PlaceOf, Target
    <3>2. Inside(p) /\ p.size = FactoryEntries[FS1].size
      BY <3>1, TargetIsInside, FsOfActive, FactoryFacts DEF PartA, PartB
    <3>3. Image.len <= FactoryEntries[FS1].size * BlockUnits
      BY <1>1, <2>1, ImagesTyped, FactoryAssumption
    <3> QED  BY <3>1, <3>2, <3>3
  <2>2. CASE Image.id # FS1
    <3>1. Inside(p) /\ Target(p)
      BY <1>1, <2>2, NextPartIsPlace DEF Target
    <3>2. p.size = Image.disk
      BY <1>1, <2>2 DEF PlaceOf, Place
    <3>3. Image.len <= Image.disk * BlockUnits
      BY <1>1, ImagesTyped, UpgradeAssumption
    <3> QED  BY <3>1, <3>2, <3>3
  <2> QED  BY <2>1, <2>2
<1>3. /\ p.start \in Nat /\ p.size \in Nat /\ BlockUnits \in Nat
      /\ p.size * BlockUnits \in Nat
  <2>1. p.start \in Nat /\ p.size \in Nat
    BY <1>2, InsideFacts
  <2> QED  BY <2>1, FlashAssumption
<1> HIDE DEF p, w, n
<1>4. ASSUME NEW b \in Nat, NEW m \in Int, b + m <= p.size
      PROVE  Cells(p.start + b, m) \subseteq Cells(p.start, p.size)
  <2>1. /\ (p.start + b) * BlockUnits \in Int
        /\ (p.start + b + m) * BlockUnits \in Int
        /\ p.start * BlockUnits \in Int
        /\ (p.start + p.size) * BlockUnits \in Int
    BY <1>3, <1>4
  <2>2. p.start * BlockUnits <= (p.start + b) * BlockUnits
    BY <1>3, <1>4, BlocksInOrder
  <2>3. (p.start + b + m) * BlockUnits <= (p.start + p.size) * BlockUnits
    BY <1>3, <1>4, BlocksInOrder
  <2> QED  BY <2>1, <2>2, <2>3 DEF Cells
<1>5. EnteredCells \subseteq Cells(p.start, p.size)
  <2> DEFINE f == w \div BlockUnits
             l == (w + n - 1) \div BlockUnits
  <2>1. EnteredCells = Cells(p.start + (f + 1), l + 1 - (f + 1))
    BY DEF EnteredCells, p, w, n
  <2>2. f \in Nat
    BY <1>1, BlockOf
  <2>3. l \in Nat /\ l < p.size
    <3>1. w + n - 1 \in Nat /\ w + n - 1 < p.size * BlockUnits
      BY <1>1, <1>2, <1>3 DEF p
    <3> QED  BY <1>3, <3>1, BlockOf, BlockWithin
  <2> HIDE DEF f, l
  <2>4. f + 1 \in Nat /\ l + 1 - (f + 1) \in Int /\ f + 1 + (l + 1 - (f + 1)) <= p.size
    BY <1>3, <2>2, <2>3
  <2> QED  BY <1>4, <2>1, <2>4
<1>6. ASSUME w + n < Image.len
      PROVE  NextCells \subseteq Cells(p.start, p.size)
  <2> DEFINE b == (w + n) \div BlockUnits
  <2>1. NextCells = Cells(p.start + b, 1)
    BY DEF NextCells, p, w, n
  <2>2. w + n \in Nat /\ w + n < p.size * BlockUnits
    BY <1>1, <1>2, <1>3, <1>6 DEF p
  <2>3. b \in Nat /\ b < p.size
    BY <1>3, <2>2, BlockOf, BlockWithin
  <2> HIDE DEF b
  <2>4. b + 1 <= p.size
    BY <1>3, <2>3
  <2> QED  BY <1>4, <2>1, <2>3, <2>4
<1>7. ASSUME NEW k \in 0 .. n - 1
      PROVE  p.start * BlockUnits + w + k \in Cells(p.start, p.size)
  <2>1. w + k \in 0 .. p.size * BlockUnits - 1
    BY <1>1, <1>2, <1>3 DEF p
  <2>2. p.start * BlockUnits + (w + k) \in Cells(p.start, p.size)
    BY <1>2, <2>1, CellFacts DEF p
  <2>3. p.start * BlockUnits \in Nat
    BY <1>3
  <2> QED  BY <1>1, <2>2, <2>3
<1> QED  BY <1>2, <1>5, <1>6, <1>7 DEF p, w, n

\* A write to an image changes its partition only.
LEMMA WriteSpares ==
    ASSUME UpgradeInv, WriteImage
    PROVE  Spares(session.part)
<1> DEFINE p == session.part
           C == Cells(p.start, p.size)
<1>1. /\ EnteredCells \subseteq C
      /\ session.wrt_count + ChunkLen < Image.len => NextCells \subseteq C
      /\ \A k \in 0 .. ChunkLen - 1 :
           p.start * BlockUnits + session.wrt_count + k \in C
  BY ChunkCells
<1>2. /\ session.wrt_length = Image.len /\ session.wrt_count \in Nat
      /\ ChunkLen \in Nat \ {0} /\ session \in Session
      /\ p.start * BlockUnits \in Nat
  <2>1. p.start \in Nat
    BY ChunkCells, InsideFacts
  <2> QED  BY <2>1, ChunkFacts, FlashAssumption DEF UpgradeInv
<1>3. DOMAIN flash \subseteq Int
  BY DEF UpgradeInv, FieldInv, Cells
<1> DEFINE z == p.start * BlockUnits + session.wrt_count
<1>4. ASSUME NEW E, E \subseteq C, NEW n \in {0, ChunkLen},
             flash' = FlashAfter(E, n)
      PROVE  Spares(p)
  <2> SUFFICES ASSUME NEW a \in DOMAIN flash \ C
               PROVE  flash'[a] = flash[a]
    BY DEF Spares
  <2>1. a \notin E
    BY <1>4
  <2>2. a - z \notin 0 .. n - 1
    <3> SUFFICES ASSUME a - z \in 0 .. n - 1 PROVE FALSE
      OBVIOUS
    <3>1. a - z \in 0 .. ChunkLen - 1
      BY <1>2, <1>4
    <3>2. z + (a - z) \in C
      BY <1>1, <3>1
    <3>3. z + (a - z) = a
      BY <1>2, <1>3
    <3> QED  BY <3>2, <3>3
  <2> HIDE DEF C
  <2> QED  BY <1>4, <2>1, <2>2 DEF FlashAfter
<1>5. \/ flash' = flash
      \/ \E n \in {0, ChunkLen} : flash' = FlashAfter(EnteredCells, n)
      \/ /\ session.wrt_count + ChunkLen < session.wrt_length
         /\ flash' = FlashAfter(EnteredCells \cup NextCells, ChunkLen)
  BY <1>2 DEF WriteImage, FlashAfterWrite, Session
<1> HIDE DEF C
<1>6. CASE flash' = flash
  BY <1>6 DEF Spares
<1>7. CASE \E n \in {0, ChunkLen} : flash' = FlashAfter(EnteredCells, n)
  BY <1>1, <1>4, <1>7
<1>8. CASE /\ session.wrt_count + ChunkLen < session.wrt_length
           /\ flash' = FlashAfter(EnteredCells \cup NextCells, ChunkLen)
  <2>1. EnteredCells \cup NextCells \subseteq C
    BY <1>1, <1>2, <1>8
  <2> QED  BY <1>4, <1>8, <2>1
<1> QED  BY <1>5, <1>6, <1>7, <1>8

\* Where the copy goes.
LEMMA CopySpares ==
    ASSUME UpgradeInv, DuplicateFs
    PROVE  LET a == Find(fwd[active], FS1)
               b == Find(fwd[active], FS2)
           IN  /\ a \in {PartA, PartB} /\ b \in {PartA, PartB}
               /\ Spares(b)
               /\ session'.state = "finish" =>
                    UnitAt(flash', b, 0) = UnitAt(flash, a, 0)
<1> DEFINE a == Find(fwd[active], FS1)
           b == Find(fwd[active], FS2)
           n == a.size * BlockUnits
<1>1. a \in {PartA, PartB} /\ b \in {PartA, PartB} /\ FsPair(fwd[active])
  BY FsOfActive DEF UpgradeInv
<1>2. Inside(b) /\ b.size = a.size /\ a.size # 0
  BY <1>1, FactoryFacts
<1>3. \/ flash' = flash /\ session'.state # "finish"
      \/ flash' = CopiedFs(flash, n)
  <2>1. session.state = "duplicate_fs"
    BY DEF DuplicateFs, Processing
  <2> QED  BY <1>1, <2>1 DEF DuplicateFs, FsPair, Fail
<1>4. b.start * BlockUnits \in Nat /\ n \in Nat /\ 0 \in 0 .. n - 1
  <2>1. b.start \in Nat /\ b.size \in Nat
    BY <1>2, InsideFacts
  <2>2. 0 \in 0 .. b.size * BlockUnits - 1
    BY <1>2, CellFacts
  <2> QED  BY <1>2, <2>1, <2>2, FlashAssumption
<1>5. Cells(b.start, b.size) = b.start * BlockUnits .. b.start * BlockUnits + n - 1
  <2>1. b.start \in Nat /\ b.size \in Nat
    BY <1>2, InsideFacts
  <2>2. (b.start + b.size) * BlockUnits = b.start * BlockUnits + n
    BY <1>2, <2>1, FlashAssumption
  <2>3. Cells(b.start, b.size)
          = b.start * BlockUnits .. (b.start + b.size) * BlockUnits - 1
    BY DEF Cells
  <2>4. b.start * BlockUnits \in Int /\ n \in Int
    BY <1>4
  <2> HIDE DEF n
  <2> QED  BY <2>2, <2>3, <2>4
<1>6. b.start * BlockUnits + 0 \in DOMAIN flash
  <2>1. 0 \in 0 .. b.size * BlockUnits - 1
    BY <1>2, CellFacts
  <2>2. b.start * BlockUnits + 0 \in Cells(MaxFwd, MemBlocks - MaxFwd)
    BY <1>2, <2>1, CellFacts
  <2> QED  BY <2>2 DEF UpgradeInv, FieldInv
<1>7. CASE flash' = CopiedFs(flash, n)
  <2>1. flash' = [x \in DOMAIN flash |->
                   IF x \in b.start * BlockUnits .. b.start * BlockUnits + n - 1
                   THEN UnitAt(flash, a, x - b.start * BlockUnits) ELSE flash[x]]
    BY <1>7 DEF CopiedFs
  <2>2. Spares(b)
    BY <1>5, <2>1 DEF Spares
  <2> DEFINE y == b.start * BlockUnits
  <2>3. y \in y .. y + n - 1 /\ y - y = 0 /\ y + 0 = y
    BY <1>4
  <2>4. flash'[y] = UnitAt(flash, a, 0)
    BY <1>6, <2>1, <2>3
  <2> QED  BY <1>1, <2>2, <2>3, <2>4 DEF UnitAt
<1>8. CASE flash' = flash /\ session'.state # "finish"
  BY <1>1, <1>8 DEF Spares
<1> QED  BY <1>3, <1>7, <1>8

\* So does an erasure.
LEMMA EraseSpares ==
    ASSUME NEW p, flash' \in {flash, Erased(flash, p.start, p.size)}
    PROVE  Spares(p)
BY DEF Spares, Erased

\* Opening an image erases its place or nothing.
LEMMA OpenSpares ==
    ASSUME UpgradeInv, OpenImage
    PROVE  \/ UNCHANGED flash
           \/ Target(NextPart) /\ Spares(NextPart)
<1> USE DEF UpgradeInv
<1> DEFINE p == NextPart
<1>1. \/ UNCHANGED flash
      \/ Image.id # FS1 /\ flash' = Erased(flash, p.start, 1)
  BY DEF OpenImage
<1>2. CASE Image.id # FS1 /\ flash' = Erased(flash, p.start, 1)
  <2>1. /\ Inside(p) /\ Within(p, TrialRegion)
        /\ session.index \in 1 .. NImages /\ Image = Images[session.index]
    BY <1>2, NextPartIsPlace DEF OpenImage
  <2>2. p.size \in Nat \ {0}
    BY <1>2, <2>1, ImagesTyped DEF NextPart
  <2>3. Cells(p.start, 1) \subseteq Cells(p.start, p.size)
    <3>1. p.start \in Nat /\ BlockUnits \in Nat
      BY <2>1, InsideFacts, FlashAssumption
    <3>2. (p.start + 1) * BlockUnits <= (p.start + p.size) * BlockUnits
      BY <2>2, <3>1, BlocksInOrder
    <3>3. /\ p.start * BlockUnits \in Int /\ (p.start + 1) * BlockUnits \in Int
          /\ (p.start + p.size) * BlockUnits \in Int
      BY <2>2, <3>1
    <3> QED  BY <3>2, <3>3 DEF Cells
  <2>4. Spares(p)
    BY <1>2, <2>3 DEF Spares, Erased
  <2> QED  BY <2>1, <2>4 DEF Target
<1> QED  BY <1>1, <1>2

\* Every turn writes to one partition at most.
LEMMA Footprint ==
    ASSUME UpgradeInv, LateAction
    PROVE  UNCHANGED flash \/ \E p : Target(p) /\ Spares(p)
<1>1. CASE EraseSecondFs
  <2>1. UNCHANGED flash \/ Spares(Find(fwd[active], FS2))
    BY <1>1, EraseSpares DEF EraseSecondFs
  <2> QED  BY <2>1 DEF Target
<1>2. CASE OpenImage
  BY <1>2, OpenSpares
<1>3. CASE WriteImage
  BY <1>3, ChunkCells, WriteSpares
<1>4. CASE DuplicateFs
  BY <1>4, CopySpares DEF Target
<1>5. UNCHANGED flash \/ EraseSecondFs \/ OpenImage \/ WriteImage \/ DuplicateFs
  BY DEF LateAction, tableVars, PrepareFs, ReceiveData, ProcessConfigFile,
         ConfigWithoutBuffer, WriteWithoutHandle, PacketConsumed
<1> QED  BY <1>1, <1>2, <1>3, <1>4, <1>5

-----------------------------------------------------------------------------
(* FsKept *)

\* No turn touches the first file system of the firmware that runs.
LEMMA FsCellStays ==
    ASSUME UpgradeInv, Late, NEW p, Target(p), Spares(p)
    PROVE  UnitAt(flash', Find(fwd[active], FS1), 0)
             = UnitAt(flash, Find(fwd[active], FS1), 0)
<1> DEFINE fs == Find(fwd[active], FS1)
<1>1. /\ fs \in {PartA, PartB} /\ FsPair(fwd[active]) /\ active # TrialIdx
  BY FsOfActive, LateTable DEF UpgradeInv
<1>2. Inside(fs) /\ fs.size # 0 /\ Inside(p)
  BY <1>1, FactoryFacts, TargetIsInside
<1>3. Beside(fs, p)
  <2>1. CASE p = Find(fwd[active], FS2)
    BY <1>1, <2>1, FactoryFacts DEF FsPair, PartA, PartB
  <2>2. CASE Within(p, TrialRegion)
    BY <1>1, <1>2, <2>2, RegionApart DEF UpgradeInv, LayoutInv, MapInv
  <2> QED  BY <2>1, <2>2 DEF Target
<1>4. 0 \in 0 .. fs.size * BlockUnits - 1
  BY <1>2, CellFacts
<1>5. /\ fs.start * BlockUnits + 0 \in Cells(fs.start, fs.size)
      /\ fs.start * BlockUnits + 0 \in Cells(MaxFwd, MemBlocks - MaxFwd)
  BY <1>2, <1>4, CellFacts
<1>6. fs.start * BlockUnits + 0 \in DOMAIN flash \ Cells(p.start, p.size)
  BY <1>2, <1>3, <1>5, BesideCells DEF UpgradeInv, FieldInv
<1> HIDE DEF fs
<1>7. flash'[fs.start * BlockUnits + 0] = flash[fs.start * BlockUnits + 0]
  BY <1>6 DEF Spares
<1> QED  BY <1>7 DEF UnitAt, fs

\* Only the copy leads to the end.
LEMMA FinishAfterCopy ==
    ASSUME UpgradeInv, LateAction, session'.state = "finish"
    PROVE  DuplicateFs
<1> USE DEF UpgradeInv
<1>1. CASE EraseSecondFs
  <2>1. session \in Session /\ session.state = "erase_fs2"
    BY <1>1, TypedTurn DEF EraseSecondFs
  <2> QED  BY <1>1, <2>1 DEF EraseSecondFs, Continue, Fail, Session
<1>2. CASE PrepareFs
  <2>1. session \in Session /\ session.state = "prepare_fs"
    BY <1>2, TypedTurn DEF PrepareFs
  <2> QED  BY <1>2, <2>1 DEF PrepareFs, Continue, Fail, Session
<1>3. CASE ReceiveData
  <2>1. session \in Session /\ session.state = "receive"
    BY <1>3, TypedTurn DEF ReceiveData
  <2> QED  BY <1>3, <2>1 DEF ReceiveData, Session
<1>4. CASE ProcessConfigFile
  <2> DEFINE s == [session EXCEPT !.config_len = @ + ConfigPart,
                                  !.buf_offset = ConfigPart,
                                  !.config_of = ConfigOf(session)]
  <2>1. session \in Session /\ session.state = "config"
    BY <1>4, TypedTurn DEF ProcessConfigFile
  <2>2. "state" \in DOMAIN s /\ s.state = "config"
    BY <2>1 DEF Session
  <2> DEFINE dropped == [s EXCEPT !.config_len = 0, !.config_of = NoFile]
             more == [s EXCEPT !.state = "receive"]
             next == [s EXCEPT !.is_first = FALSE, !.digest = FALSE,
                               !.state = IF ConfigPart >= s.buf_len THEN "receive"
                                                                    ELSE "image"]
  <2>3. session' \in {dropped, more, next}
    BY <1>4 DEF ProcessConfigFile, Continue, Fail
  <2> HIDE DEF s
  <2>4. dropped.state = "config" /\ more.state = "receive"
        /\ next.state \in {"receive", "image"}
    BY <2>1, <2>2 DEF Session, s
  <2> QED  BY <2>3, <2>4
<1>5. CASE ConfigWithoutBuffer
  BY <1>5, TypedTurn DEF ConfigWithoutBuffer, Fail
<1>6. CASE OpenImage
  <2>1. session \in Session /\ session.state = "image"
    BY <1>6, TypedTurn DEF OpenImage
  <2> DEFINE s == [session EXCEPT !.wrt_count = 0, !.wrt_length = Image.len]
  <2>2. s \in [DOMAIN session -> UNION {{s[x]} : x \in DOMAIN s}] /\ s.state = "image"
        /\ DOMAIN s = DOMAIN session /\ "state" \in DOMAIN s
    BY <2>1 DEF Session
  <2>3. \/ session' \in {s, NextImage(s)}
        \/ \E p : session' = [s EXCEPT !.part = p]
        \/ \E p : session' = [s EXCEPT !.part = p, !.digest = TRUE]
    BY <1>6 DEF OpenImage, Continue, Fail
  <2> HIDE DEF s
  <2>4. NextImage(s).state \in {"duplicate_fs", "image"}
    BY <2>2 DEF NextImage
  <2> QED  BY <2>2, <2>3, <2>4
<1>7. CASE WriteImage
  <2>1. session \in Session /\ session.state = "image"
    BY <1>7, TypedTurn DEF WriteImage
  <2> DEFINE s == [session EXCEPT !.digest = Hashed, !.buf_offset = @ + ChunkLen,
                                  !.wrt_count = @ + ChunkLen]
  <2>2. s.state = "image" /\ "state" \in DOMAIN s
    BY <2>1 DEF Session
  <2>3. \/ session' \in {s, [NextImage(s) EXCEPT !.digest = FALSE],
                         [s EXCEPT !.part = NoPart]}
        \/ session' = [session EXCEPT !.digest = FALSE]
    BY <1>7 DEF WriteImage, Continue, Fail
  <2>4. [session EXCEPT !.digest = FALSE].state = "image"
    BY <2>1 DEF Session
  <2> HIDE DEF s
  <2>5. /\ NextImage(s).state \in {"duplicate_fs", "image"}
        /\ "state" \in DOMAIN NextImage(s)
    BY <2>2 DEF NextImage
  <2> QED  BY <2>2, <2>3, <2>4, <2>5
<1>8. CASE WriteWithoutHandle
  BY <1>8, TypedTurn DEF WriteWithoutHandle, Fail, Session
<1>9. CASE PacketConsumed
  BY <1>9, TypedTurn DEF PacketConsumed, Continue, Session
<1> QED  BY <1>1, <1>2, <1>3, <1>4, <1>5, <1>6, <1>7, <1>8, <1>9 DEF LateAction

\* A trial has both file systems when it becomes valid.
LEMMA FinishedEntries ==
    ASSUME UpgradeInv, Finish
    PROVE  /\ FsPair(fwd[session.trial])
           /\ Find(fwd[session.trial], FS1) = Find(fwd[active], FS2)
<1> USE DEF UpgradeInv, LayoutInv, MapInv
<1>1. Late /\ session.state = "finish" /\ Chosen
  BY FinishStarts DEF Late, Chosen, Early
<1>2. session.index > NImages
  BY <1>1 DEF RegionInv
<1>3. PICK j \in 1 .. NImages : Images[j].id = FS1
  BY ImagesTyped, UpgradeAssumption DEF ImageIds
<1>4. session \in Session
  BY <1>1 DEF CountInv, Late
<1>5. j < session.index
  <2>1. session.index \in Int /\ NImages \in Int
    BY <1>4, ImagesTyped DEF Session
  <2> QED  BY <1>2, <2>1
<1>6. Found(fwd[session.trial], FS1)
  BY <1>1, <1>3, <1>5 DEF EntryInv
<1>7. /\ Found(fwd[session.trial], FS2)
      /\ Find(fwd[session.trial], FS2) = Find(fwd[active], FS1)
      /\ Find(fwd[session.trial], FS1) = Find(fwd[active], FS2)
  BY <1>1, <1>6 DEF SwapInv, Unprepared
<1>8. FsPair(fwd[active])
  BY FsOfActive
<1> QED  BY <1>6, <1>7, <1>8 DEF FsPair

\* What must not lose its data is in use, before a step
LEMMA KeptUsed == UpgradeInv => Kept \subseteq Used
BY KeptIsUsed DEF UpgradeInv

\* and after it.
LEMMA KeptIsUsedNext ==
    ASSUME UpgradeInv'
    PROVE  (Kept \subseteq Used)'
BY KeptUsed, PTL

\* Every step keeps the data.
LEMMA FsKeptNext ==
    ASSUME CarefulErase, UpgradeInv, FsKeptInv, [Next]_vars
    PROVE  FsKeptInv'
<1>1. CASE LateTurn /\ OthersSame /\ (LateAction \/ OffsetReset)
  <2>1. /\ Late /\ UNCHANGED <<active, CurrentFwd, TrialFwds>>
        /\ TrialFwds = {} /\ active = CurrentFwd
        /\ fwd'[active].entries = fwd[active].entries
    BY <1>1, PlacesStay, LateTable DEF UpgradeInv
  <2>2. Kept = {active} /\ Kept' = {active}
    BY <2>1 DEF Kept
  <2>3. /\ Find(fwd'[active], FS1) = Find(fwd[active], FS1)
        /\ Find(fwd'[active], FS2) = Find(fwd[active], FS2)
    BY <2>1 DEF Find
  <2>4. CASE LateAction
    <3>1. UnitAt(flash', Find(fwd[active], FS1), 0)
             = UnitAt(flash, Find(fwd[active], FS1), 0)
      BY <2>1, <2>4, Footprint, FsCellStays DEF UnitAt
    <3>2. session'.state = "finish" =>
             UnitAt(flash', Find(fwd[active], FS2), 0)
               = UnitAt(flash, Find(fwd[active], FS1), 0)
      BY <2>4, FinishAfterCopy, CopySpares
    <3>3. HasData(Find(fwd[active], FS1))
      BY <2>2 DEF FsKeptInv
    <3> QED  BY <2>1, <2>2, <2>3, <3>1, <3>2, <3>3 DEF FsKeptInv, HasData
  <2>5. CASE OffsetReset
    <3>1. session'.state = session.state
      <4>1. session \in Session
        BY <2>1 DEF UpgradeInv, LayoutInv, CountInv, Late
      <4> QED  BY <2>5, <4>1 DEF OffsetReset, Session
    <3> QED  BY <2>1, <2>2, <2>3, <2>5, <3>1 DEF FsKeptInv, HasData, OffsetReset
  <2> QED  BY <1>1, <2>4, <2>5
<1>2. CASE Finish
  <2>1. /\ Late /\ session.state = "finish" /\ session' = NoSession
        /\ UNCHANGED <<flash, active>>
        /\ CurrentFwd' = CurrentFwd /\ TrialFwds' \subseteq {session.trial}
        /\ \A i \in FwdIdx : fwd'[i].entries = fwd[i].entries
    BY <1>2, FinishStarts, FinishSearches DEF UpgradeInv
  <2>2. /\ active = CurrentFwd /\ active \in FwdIdx /\ session.trial \in FwdIdx
    BY <2>1, LateTable DEF UpgradeInv
  <2>3. Kept' \subseteq {active, session.trial}
    BY <2>1, <2>2 DEF Kept
  <2>4. HasData(Find(fwd[active], FS1)) /\ HasData(Find(fwd[session.trial], FS1))
    BY <1>2, <2>1, FinishedEntries DEF FsKeptInv, Kept
  <2>5. ~ Late'
    BY <2>1 DEF Late
  <2> QED  BY <2>1, <2>2, <2>3, <2>4, <2>5 DEF FsKeptInv, HasData, Find
<1>3. CASE Calm
  <2>1. Kept' \subseteq Used'
    BY UpgradeNext, KeptIsUsedNext
  <2> QED  BY <1>3, <2>1 DEF Calm, FsKeptInv, HasData, Find
<1>4. CASE UNCHANGED vars
  <2>1. UNCHANGED <<fwd, flash, active, session>>
    BY <1>4 DEF vars, tableVars
  <2>2. UNCHANGED <<Kept, Late>>
    BY <2>1 DEF Kept, CurrentFwd, RankedFwds, TrialFwds, Searched, FwdNum, Valid,
                Late, Early
  <2> QED  BY <2>1, <2>2 DEF FsKeptInv, HasData
<1> QED  BY <1>1, <1>2, <1>3, <1>4, Steps

\* The factory's file system has data.
LEMMA FsKeptInit == Init => FsKeptInv
<1> SUFFICES ASSUME Init PROVE FsKeptInv
  OBVIOUS
<1>1. /\ active = 0 /\ session = NoSession
      /\ \E r \in {GOLDEN, 1} : fwd = [i \in FwdIdx |->
                    IF i = 0
                    THEN [magic |-> TRUE, total |-> TRUE, rank |-> r,
                          status |-> "valid", entries |-> FactoryEntries]
                    ELSE ErasedFwd]
  BY DEF Init, TableInit
<1>2. fwd[0].entries = FactoryEntries /\ \A i \in FwdIdx \ {0} : ~ Valid(fwd[i])
  BY <1>1, Indices DEF ErasedFwd, Valid
<1>3. UpgradeInv
  BY UpgradeInit
<1>4. Kept \subseteq {0}
  BY <1>1, <1>2, <1>3, KeptIsUsed, Indices DEF Used, UpgradeInv
<1> DEFINE a == PartA.start * BlockUnits
<1>5. Find(fwd[0], FS1) = PartA /\ Inside(PartA) /\ PartA.size # 0
  BY <1>2, FactoryFacts DEF Find, PartA
<1>6. a \in Nat /\ a + 0 \in DOMAIN flash
  <2>1. PartA.start \in Nat /\ 0 \in 0 .. PartA.size * BlockUnits - 1
    BY <1>5, InsideFacts, CellFacts
  <2>2. PartA.start * BlockUnits + 0 \in Cells(MaxFwd, MemBlocks - MaxFwd)
    BY <1>5, <2>1, CellFacts
  <2> QED  BY <1>3, <2>1, <2>2, FlashAssumption DEF UpgradeInv, FieldInv
<1>7. flash[a + 0] = FsData
  <2>1. a + 0 = a /\ a - BlockUnits * PartA.start = 0
    <3>1. PartA.start \in Nat /\ BlockUnits \in Nat
      BY <1>5, InsideFacts, FlashAssumption
    <3> QED  BY <1>6, <3>1
  <2>2. flash = FactoryFlash
    BY DEF Init
  <2> QED  BY <1>5, <1>6, <2>1, <2>2 DEF FactoryFlash
<1> QED  BY <1>1, <1>4, <1>5, <1>7 DEF FsKeptInv, HasData, UnitAt, Late

\* The invariant implies the property.
LEMMA FsKeptInvImplies == UpgradeInv /\ FsKeptInv => FsKept
<1> SUFFICES ASSUME UpgradeInv, FsKeptInv PROVE FsKept
  OBVIOUS
<1>1. ASSUME NEW i \in FwdIdx, Valid(fwd[i]), fwd[i].rank = TRIAL
      PROVE  i \in Kept
  <2>1. i \in {CurrentFwd, TrialIdx} \/ (Golden /\ i = 0)
    BY <1>1, ValidOnes DEF UpgradeInv, FallbackInv
  <2>2. ~ (Golden /\ i = 0)
    BY <1>1 DEF Golden, GOLDEN, TRIAL
  <2>3. i = TrialIdx => i \in TrialFwds
    BY <1>1, Choices DEF TrialFwds, UpgradeInv, FallbackInv
  <2> QED  BY <2>1, <2>2, <2>3 DEF Kept
<1> QED  BY <1>1 DEF FsKept, FsKeptInv, HasData, Kept

\* The file systems change places at every upgrade, and still the running
\* firmware never loses its data and a firmware that waits for its trial has
\* got it (ERASE_SECOND_FS, PREPARE_FS, fw_upgrade_process_duplicate_fs): no
\* erasure, image write or copy reaches its first file system.
THEOREM FsKeptHolds ==
    ASSUME CarefulErase
    PROVE  Spec => []FsKept
<1>1. UpgradeInv /\ FsKeptInv /\ [Next]_vars => (UpgradeInv /\ FsKeptInv)'
  BY UpgradeNext, FsKeptNext
<1> QED  BY <1>1, UpgradeInit, FsKeptInit, FsKeptInvImplies, PTL DEF Spec

-----------------------------------------------------------------------------
(* BootableIsWhole: what is in use *)

\* A descriptor holds a file if its images are stored in its partitions.
LEMMA HoldsIsStored ==
    ASSUME NEW d, NEW v
    PROVE  Holds(d, v) <=> \A j \in Parts :
                             /\ Found(d, Images[j].id)
                             /\ Stored(flash, Find(d, Images[j].id), v, j, Images[j].len)
BY DEF Holds, Parts, Stored

\* What a partition holds stays when only a partition beside it is written to.
LEMMA StoredStays ==
    ASSUME UpgradeInv, NEW p, NEW q, Inside(p), Inside(q), Beside(p, q), Spares(q),
           NEW n \in Nat, n <= p.size * BlockUnits, NEW v, NEW j
    PROVE  Stored(flash', p, v, j, n) <=> Stored(flash, p, v, j, n)
<1>1. p.size * BlockUnits \in Nat
  BY InsideFacts, FlashAssumption
<1>2. ASSUME NEW k \in 0 .. n - 1
      PROVE  UnitAt(flash', p, k) = UnitAt(flash, p, k)
  <2>1. k \in 0 .. p.size * BlockUnits - 1
    BY <1>1
  <2> DEFINE a == p.start * BlockUnits + k
  <2>2. a \in Cells(p.start, p.size) /\ a \in Cells(MaxFwd, MemBlocks - MaxFwd)
    BY <2>1, CellFacts
  <2>3. a \in DOMAIN flash \ Cells(q.start, q.size)
    BY <2>2, BesideCells DEF UpgradeInv, FieldInv
  <2> HIDE DEF a
  <2>4. flash'[a] = flash[a]
    BY <2>3 DEF Spares
  <2> QED  BY <2>4 DEF UnitAt, a
<1> QED  BY <1>2 DEF Stored

\* A turn writes beside the images of every firmware in use.
LEMMA TargetBesideUsed ==
    ASSUME UpgradeInv, Late, NEW q, Target(q), NEW i \in Used, NEW j \in Parts,
           Found(fwd[i], Images[j].id)
    PROVE  /\ Inside(Find(fwd[i], Images[j].id)) /\ Inside(q)
           /\ Beside(Find(fwd[i], Images[j].id), q)
<1> USE DEF UpgradeInv, LayoutInv, MapInv
<1> DEFINE id == Images[j].id
<1>1. /\ i \in FwdIdx /\ i # TrialIdx /\ active # TrialIdx /\ active \in FwdIdx
  <2>1. /\ session.trial = TrialIdx /\ ~ Valid(fwd[session.trial])
        /\ session.trial # active
    BY LateTable
  <2> QED  BY <2>1, FsOfActive DEF Used
<1>2. id \in ImagesOf(fwd[i]) /\ id \in DOMAIN fwd[i].entries
  <2>1. j \in 1 .. NImages /\ id # FS1 /\ id \in ImageIds
    BY DEF Parts, ImageIds
  <2> QED  BY <2>1, UpgradeAssumption DEF ImagesOf, Found
<1>3. Inside(fwd[i].entries[id]) /\ Inside(q)
  BY <1>1, <1>2, TargetIsInside DEF ZoneInv
<1>4. Beside(fwd[i].entries[id], q)
  <2>1. CASE q = Find(fwd[active], FS2)
    <3>1. q \in {PartA, PartB}
      BY <2>1, FsOfActive
    <3> QED  BY <1>2, <3>1, ImagesBesideFs
  <2>2. CASE Within(q, TrialRegion)
    BY <1>1, <1>2, <1>3, <2>2, RegionApart
  <2> QED  BY <2>1, <2>2 DEF Target
<1> QED  BY <1>3, <1>4 DEF Find

\* A firmware in use holds after a turn what it held before.
LEMMA TurnKeepsFiles ==
    ASSUME WholeInv, LateTurn, OthersSame, LateAction \/ UNCHANGED flash,
           NEW i \in Used, NEW v
    PROVE  Holds(fwd[i], v)' <=> Holds(fwd[i], v)
<1> USE DEF WholeInv, UpgradeInv
<1>1. Late /\ i # session.trial /\ i \in FwdIdx /\ fwd'[i].entries = fwd[i].entries
  <2>1. Late /\ session.trial \notin Used /\ i \in FwdIdx
    BY PlacesStay DEF Used
  <2> QED  BY <2>1 DEF OthersSame
<1>2. ASSUME NEW j \in Parts, Found(fwd[i], Images[j].id)
      PROVE  Stored(flash', Find(fwd[i], Images[j].id), v, j, Images[j].len)
               <=> Stored(flash, Find(fwd[i], Images[j].id), v, j, Images[j].len)
  <2>1. CASE UNCHANGED flash
    BY <2>1
  <2>2. CASE \E q : Target(q) /\ Spares(q)
    <3>1. PICK q : Target(q) /\ Spares(q)
      BY <2>2
    <3>2. /\ Inside(Find(fwd[i], Images[j].id)) /\ Inside(q)
          /\ Beside(Find(fwd[i], Images[j].id), q)
      BY <1>1, <1>2, <3>1, TargetBesideUsed
    <3>3. /\ Images[j].len \in Nat
          /\ Images[j].len <= Find(fwd[i], Images[j].id).size * BlockUnits
      BY <1>2, ImagesTyped DEF Parts, ContentInv, UsedWhole, Fits
    <3> QED  BY <3>1, <3>2, <3>3, StoredStays
  <2> QED  BY <2>1, <2>2, Footprint
<1>3. Holds(fwd[i], v) <=> \A j \in Parts :
         /\ Found(fwd[i], Images[j].id)
         /\ Stored(flash, Find(fwd[i], Images[j].id), v, j, Images[j].len)
  BY HoldsIsStored
<1>4. Holds(fwd[i], v)' <=> \A j \in Parts :
         /\ Found(fwd'[i], Images[j].id)
         /\ Stored(flash', Find(fwd'[i], Images[j].id), v, j, Images[j].len)
  BY DEF Holds, Parts, Stored
<1>5. \A j \in Parts :
        /\ Found(fwd'[i], Images[j].id) <=> Found(fwd[i], Images[j].id)
        /\ Find(fwd'[i], Images[j].id) = Find(fwd[i], Images[j].id)
  BY <1>1 DEF Found, Find
<1> QED  BY <1>2, <1>3, <1>4, <1>5

\* A turn keeps the images of what is in use.
LEMMA TurnKeepsUsedWhole ==
    ASSUME WholeInv, LateTurn, OthersSame, LateAction \/ UNCHANGED flash
    PROVE  UsedWhole'
<1>1. Used' = Used /\ session.trial \notin Used
  BY PlacesStay DEF WholeInv, UpgradeInv
<1>2. ASSUME NEW i \in Used
      PROVE  (Fits(fwd[i]) /\ FilesIn(fwd[i]) # {})'
  <2>1. fwd'[i].entries = fwd[i].entries
    BY <1>1 DEF Used, OthersSame
  <2>2. PICK v \in Files : Holds(fwd[i], v)
    BY DEF WholeInv, ContentInv, UsedWhole, FilesIn
  <2>3. Holds(fwd[i], v)'
    BY <2>2, TurnKeepsFiles
  <2>4. Fits(fwd'[i])
    BY <2>1 DEF WholeInv, ContentInv, UsedWhole, Fits, Found, Find
  <2> QED  BY <2>3, <2>4 DEF FilesIn
<1> QED  BY <1>1, <1>2 DEF UsedWhole

-----------------------------------------------------------------------------
(* BootableIsWhole: where the upload is in the file *)

\* The place of every image is in the region.
LEMMA PlaceFacts ==
    ASSUME UpgradeInv, Late, ~ session.is_first, NEW j \in Parts
    PROVE  /\ PlaceOf(j) = Place(j) /\ Inside(Place(j)) /\ Within(Place(j), TrialRegion)
           /\ Place(j).start = TrialRegion.start + DiskBefore[j - 1]
           /\ PartEnd(Place(j)) = TrialRegion.start + DiskBefore[j]
           /\ TrialRegion.start \in Nat
           /\ Images[j].len \in Nat /\ Images[j].len <= Place(j).size * BlockUnits
<1> USE DEF UpgradeInv, LayoutInv, MapInv
<1>1. /\ Chosen /\ active # TrialIdx
      /\ session.mem_size = TrialRegion.size /\ TotalDisk <= session.mem_size
  <2>1. Chosen
    BY DEF Late, Chosen, Early
  <2> QED  BY <2>1, LateTable DEF RegionInv
<1>2. /\ j \in 1 .. NImages /\ j - 1 \in 0 .. NImages /\ j \in 0 .. NImages
      /\ NImages \in 0 .. NImages /\ Images[j].id \notin {FS1, FS2}
  <2>1. j \in 1 .. NImages /\ Images[j].id # FS1 /\ Images[j].id \in ImageIds
    BY DEF Parts, ImageIds
  <2> QED  BY <2>1, ImagesTyped, UpgradeAssumption, SMTT(20)
<1>3. /\ TrialRegion.start \in FirstBlock .. MemBlocks
      /\ TrialRegion.size \in Nat
      /\ PartEnd(TrialRegion) <= MemBlocks
  BY <1>1, TrialRegionFacts
<1>4. FirstBlock \in MaxFwd .. MemBlocks /\ MaxFwd \in Nat /\ MemBlocks \in Nat
  BY FactoryFacts, FlashAssumption DEF MaxFwd
<1>5. /\ DiskBefore[j - 1] \in Nat /\ DiskBefore[NImages] \in Nat
      /\ DiskBefore[j] = DiskBefore[j - 1] + Images[j].disk
      /\ DiskBefore[j] <= DiskBefore[NImages]
      /\ Images[j].disk \in Nat
  BY <1>2, DiskBeforeEquations, DiskBeforeGrows, ImagesTyped DEF Reserved
<1> DEFINE a == TrialRegion.start  s == TrialRegion.size
           b == DiskBefore[j - 1]  d == Images[j].disk
<1>6. Place(j) = [start |-> a + b, size |-> d] /\ PlaceOf(j) = Place(j)
  BY <1>2 DEF Place, PlaceOf
<1>7. b + d <= s
  <2>1. DiskBefore[j] = b + d /\ DiskBefore[j] <= DiskBefore[NImages]
    BY <1>5
  <2>2. DiskBefore[NImages] <= s
    BY <1>1 DEF TotalDisk
  <2>3. b \in Nat /\ d \in Nat /\ s \in Nat /\ DiskBefore[NImages] \in Nat
    BY <1>3, <1>5
  <2> HIDE DEF b, d, s
  <2> QED  BY <2>1, <2>2, <2>3
<1>8. Images[j].len \in Nat /\ Images[j].len <= d * BlockUnits
  BY <1>2, ImagesTyped, UpgradeAssumption
<1>9. a + s <= MemBlocks
  BY <1>3 DEF PartEnd
<1>10. /\ a \in Nat /\ s \in Nat /\ b \in Nat /\ d \in Nat /\ MaxFwd <= a
       /\ DiskBefore[j] = b + d
  BY <1>3, <1>4, <1>5
<1>11. PartEnd(TrialRegion) = a + s /\ TrialRegion.start = a
  BY DEF PartEnd
<1>12. TrialRegion.start + DiskBefore[j - 1] = a + b
  OBVIOUS
<1> HIDE DEF a, b, s, d
<1>13. /\ a + b \in MaxFwd .. MemBlocks /\ d \in 0 .. MemBlocks
       /\ (a + b) + d <= MemBlocks /\ a <= a + b /\ (a + b) + d <= a + s
       /\ (a + b) + d = a + (b + d)
  BY <1>4, <1>7, <1>9, <1>10
<1>14. Inside(Place(j)) /\ Within(Place(j), TrialRegion)
  BY <1>6, <1>11, <1>13 DEF Inside, Within, PartEnd
<1>15. PartEnd(Place(j)) = TrialRegion.start + DiskBefore[j]
  BY <1>6, <1>10, <1>11, <1>13 DEF PartEnd
<1> QED  BY <1>6, <1>8, <1>10, <1>11, <1>12, <1>14, <1>15

\* The images that are done are beside the next one and the file systems.
LEMMA DoneBeside ==
    ASSUME UpgradeInv, Late, ~ session.is_first, NEW j \in Parts, j < session.index,
           NEW q, \/ q = Find(fwd[active], FS2)
                  \/ session.index \in 1 .. NImages /\ q = PlaceOf(session.index)
    PROVE  /\ Beside(Place(j), q) /\ Inside(q) /\ Target(q)
<1> USE DEF UpgradeInv, LayoutInv, MapInv
<1>1. CASE q = Find(fwd[active], FS2)
  <2>1. Target(q)
    BY <1>1 DEF Target
  <2>2. q \in {PartA, PartB} /\ active # TrialIdx
    BY <1>1, FsOfActive, LateTable
  <2>3. Beside(q, Place(j))
    BY <2>2, PlaceFacts, RegionApart
  <2> QED  BY <2>1, <2>3, TargetIsInside DEF Beside
<1>2. CASE /\ session.index \in Parts /\ q = PlaceOf(session.index)
  <2> DEFINE i == session.index
  <2>1. /\ q = Place(i) /\ Inside(q) /\ Target(q)
        /\ q.start = TrialRegion.start + DiskBefore[i - 1]
        /\ PartEnd(Place(j)) = TrialRegion.start + DiskBefore[j]
        /\ TrialRegion.start \in Nat
    BY <1>2, PlaceFacts DEF Target
  <2>2. j \in 0 .. NImages /\ i - 1 \in 0 .. NImages /\ j <= i - 1
    BY <1>2, ImagesTyped DEF Parts
  <2>3. DiskBefore[j] <= DiskBefore[i - 1]
    BY <2>2, DiskBeforeGrows
  <2>4. DiskBefore[j] \in Nat /\ DiskBefore[i - 1] \in Nat
    BY <2>2, DiskBeforeEquations
  <2> HIDE DEF i
  <2>5. PartEnd(Place(j)) <= q.start
    BY <2>1, <2>3, <2>4
  <2> QED  BY <2>1, <2>5 DEF Beside
<1>3. CASE /\ session.index \in (1 .. NImages) \ Parts
           /\ q = PlaceOf(session.index)
  <2>1. q = Find(fwd[active], FS2)
    BY <1>3 DEF Parts, PlaceOf
  <2> QED  BY <1>1, <2>1
<1> QED  BY <1>1, <1>2, <1>3

\* Images that are done stay as they are.
LEMMA DoneStays ==
    ASSUME UpgradeInv, Late, ~ session.is_first, DoneContent,
           \/ UNCHANGED flash
           \/ \E q : /\ Spares(q)
                     /\ \/ q = Find(fwd[active], FS2)
                        \/ session.index \in 1 .. NImages /\ q = PlaceOf(session.index)
    PROVE  \A j \in Parts :
             j < session.index =>
               Stored(flash', PlaceOf(j), session.config_of, j, Images[j].len)
<1> SUFFICES ASSUME NEW j \in Parts, j < session.index
             PROVE  Stored(flash', PlaceOf(j), session.config_of, j, Images[j].len)
  OBVIOUS
<1>1. Stored(flash, PlaceOf(j), session.config_of, j, Images[j].len)
  BY DEF DoneContent
<1>2. ASSUME NEW q, Spares(q),
             \/ q = Find(fwd[active], FS2)
             \/ session.index \in 1 .. NImages /\ q = PlaceOf(session.index)
      PROVE  Stored(flash', PlaceOf(j), session.config_of, j, Images[j].len)
  <2>1. Beside(Place(j), q) /\ Inside(q)
    BY <1>2, DoneBeside
  <2>2. /\ PlaceOf(j) = Place(j) /\ Inside(Place(j))
        /\ Images[j].len \in Nat /\ Images[j].len <= Place(j).size * BlockUnits
    BY PlaceFacts
  <2> QED  BY <1>1, <1>2, <2>1, <2>2, StoredStays
<1> QED  BY <1>1, <1>2

\* Turns that write nothing and leave the session's place in the file alone.
SamePlace ==
    /\ UNCHANGED flash
    /\ session'.is_first = session.is_first /\ session'.config_of = session.config_of
    /\ session'.index = session.index /\ session'.part = session.part
    /\ session'.wrt_count = session.wrt_count
    /\ session'.wrt_length = session.wrt_length
    /\ session'.digest => session.digest
    /\ session'.digest => NextPos' <= NextPos

\* A turn that stays where it is in the file keeps the trial's content.
LEMMA SamePlaceKeeps ==
    ASSUME WholeInv, LateTurn, OthersSame, SamePlace, NextPos \in Int, NextPos' \in Int
    PROVE  TrialContent'
<1> USE DEF WholeInv, UpgradeInv, LayoutInv, MapInv
<1> SUFFICES ASSUME ~ session.is_first
             PROVE  /\ session'.config_of \in Version
                    /\ session'.digest => session'.index <= NImages
                    /\ DoneContent' /\ OpenContent'
  BY DEF TrialContent, SamePlace
<1>1. /\ Late /\ \A j \in 1 .. NImages : PlaceOf(j)' = PlaceOf(j)
  BY PlacesStay
<1>2. /\ session.config_of \in Version
      /\ session.digest => session.index <= NImages
      /\ DoneContent /\ OpenContent
  BY <1>1 DEF ContentInv, TrialContent
<1>3. DoneContent'
  <2> SUFFICES ASSUME NEW j \in Parts, j < session'.index
               PROVE  Stored(flash', PlaceOf(j)', session'.config_of, j, Images[j].len)
    BY DEF DoneContent, Stored, Parts
  <2>1. PlaceOf(j)' = PlaceOf(j)
    BY <1>1 DEF Parts
  <2> QED  BY <1>2, <2>1 DEF SamePlace, DoneContent
<1>4. OpenContent'
  <2> SUFFICES ASSUME NEW j \in 1 .. NImages, j = session'.index, session'.digest
               PROVE  /\ session'.wrt_length # 0 /\ session'.part # NoPart
                      /\ Images[j].id # FS1 =>
                           /\ Stored(flash', session'.part, session'.config_of, j,
                                     session'.wrt_count)
                           /\ \/ RestErased'
                              \/ NextPos' < Images[j].pos + session'.wrt_count
    BY DEF OpenContent, Stored
  <2>1. j = session.index /\ session.digest
    BY DEF SamePlace
  <2>2. /\ session.wrt_length # 0 /\ session.part # NoPart
        /\ Images[j].id # FS1 =>
             /\ Stored(flash, session.part, session.config_of, j, session.wrt_count)
             /\ RestErased \/ NextPos < Images[j].pos + session.wrt_count
    BY <1>2, <2>1 DEF OpenContent
  <2>3. RestErased => RestErased'
    BY DEF RestErased, SamePlace
  <2>4. Images[j].pos + session.wrt_count \in Int
    <3>1. session.wrt_count \in Nat
      BY <1>1 DEF CountInv, Session, Late
    <3> QED  BY <3>1, ImagesTyped
  <2>5. /\ NextPos < Images[j].pos + session.wrt_count
        => NextPos' < Images[j].pos + session.wrt_count
    BY <2>4 DEF SamePlace
  <2> QED  BY <2>2, <2>3, <2>5 DEF SamePlace
<1> QED  BY <1>2, <1>3, <1>4 DEF SamePlace

\* The position in the file is a number.
LEMMA PositionTyped == WholeInv => NextPos \in Int
<1> SUFFICES ASSUME WholeInv PROVE NextPos \in Int
  OBVIOUS
<1>1. CASE packet = NoPacket
  BY <1>1 DEF WholeInv, UpgradeInv, LayoutInv, CountInv, NextPos
<1>2. CASE packet # NoPacket
  <2>1. packet.from \in Nat /\ session \in Session
    BY <1>2 DEF WholeInv, UpgradeInv, LayoutInv, CountInv, Packet, FallbackInv
  <2> QED  BY <1>2, <2>1 DEF NextPos, Session
<1> QED  BY <1>1, <1>2

\* Where the packet and the session stand during a turn.
LEMMA TurnPosition ==
    ASSUME WholeInv, NEW state, Processing(state)
    PROVE  /\ NextPos = packet.from + session.buf_offset
           /\ packet.from = upload_off /\ upload_off \in Nat
           /\ session.buf_offset \in Nat /\ packet.len \in Nat \ {0}
           /\ session \in Session /\ session # NoSession /\ session.state = state
           /\ packet \in Packet /\ packet # NoPacket
<1>1. packet # NoPacket /\ session \in Session /\ session # NoSession
      /\ session.state = state
  BY TypedTurn DEF WholeInv, UpgradeInv
<1>2. packet \in Packet /\ packet.from = upload_off /\ upload_off \in Nat
  BY <1>1 DEF WholeInv, UpgradeInv, LayoutInv, CountInv, ContentInv
<1> QED  BY <1>1, <1>2, Sizes DEF NextPos, Session, Packet

\* An error goes back to the beginning of the packet.
LEMMA FailPosition ==
    ASSUME WholeInv, NEW state, Processing(state), Reply(FALSE)
    PROVE  NextPos' \in Int /\ NextPos' <= NextPos /\ NextPos' = packet.from
<1>1. NextPos' = upload_off
  BY DEF Reply, NextPos, NoPacket
<1> QED  BY <1>1, TurnPosition

\* The next turn goes on where this one ends.
LEMMA ContinuePosition ==
    ASSUME WholeInv, NEW state, Processing(state), UNCHANGED <<packet, upload_off>>,
           session'.buf_offset \in Nat
    PROVE  /\ NextPos' \in Int /\ NextPos' = packet.from + session'.buf_offset
<1>1. packet' = packet /\ packet # NoPacket
  BY TurnPosition
<1> QED  BY <1>1, TurnPosition DEF NextPos

\* The turns that write nothing keep the trial's content.
LEMMA ReceiveDataKeepsTrial ==
    ASSUME WholeInv, ReceiveData
    PROVE  TrialContent'
<1> USE DEF WholeInv, UpgradeInv
<1>1. /\ Processing("receive") /\ session \in Session
      /\ NextPos = packet.from + session.buf_offset
      /\ packet.from \in Nat /\ session.buf_offset \in Nat /\ packet.len \in Nat
      /\ UNCHANGED <<fwd, flash>>
      /\ packet \in Packet /\ packet # NoPacket
  BY TurnPosition DEF ReceiveData, tableVars
<1>2. LateTurn
  BY ReceiveDataIsLate
<1>3. OthersSame
  BY <1>1 DEF OthersSame
<1> DEFINE n == packet.len - session.buf_offset
           s == [session EXCEPT !.buf_len = n, !.buf_offset = 0,
                   !.state = IF session.is_first THEN "config" ELSE "image"]
<1>4. CASE n > 0
  <2>1. session' = s /\ packet' = [packet EXCEPT !.received = TRUE]
    BY <1>4 DEF ReceiveData
  <2>2. packet' # NoPacket /\ packet'.from = packet.from
    <3>1. packet'.len = packet.len /\ packet'.from = packet.from
      BY <1>1, <2>1 DEF Packet
    <3>2. packet.len # 0
      BY <1>1 DEF Packet
    <3> QED  BY <3>1, <3>2 DEF NoPacket
  <2>3. /\ session'.is_first = session.is_first
        /\ session'.config_of = session.config_of
        /\ session'.index = session.index /\ session'.part = session.part
        /\ session'.wrt_count = session.wrt_count
        /\ session'.wrt_length = session.wrt_length
        /\ session'.digest = session.digest
        /\ session'.buf_offset = 0
    BY <1>1, <2>1 DEF Session
  <2>4. NextPos' = packet.from
    BY <1>1, <2>2, <2>3 DEF NextPos
  <2>5. NextPos' <= NextPos /\ NextPos \in Int /\ NextPos' \in Int
    BY <1>1, <2>4
  <2>6. SamePlace
    BY <1>1, <2>3, <2>5 DEF SamePlace
  <2> QED  BY <1>2, <1>3, <2>5, <2>6, SamePlaceKeeps
<1>5. CASE ~ (n > 0)
  <2>1. session' = session /\ packet' = NoPacket
        /\ upload_off' = packet.from + packet.len
    BY <1>5 DEF ReceiveData, Reply
  <2>2. NextPos' = packet.from + packet.len
    BY <2>1 DEF NextPos
  <2>3. NextPos' <= NextPos /\ NextPos \in Int /\ NextPos' \in Int
    BY <1>1, <1>5, <2>2
  <2>4. SamePlace
    BY <1>1, <2>1, <2>3 DEF SamePlace
  <2> QED  BY <1>2, <1>3, <2>3, <2>4, SamePlaceKeeps
<1> QED  BY <1>4, <1>5

LEMMA ConfigWithoutBufferKeepsTrial ==
    ASSUME WholeInv, ConfigWithoutBuffer
    PROVE  TrialContent'
<1> USE DEF WholeInv, UpgradeInv
<1>1. /\ Processing("config") /\ session' = session /\ Reply(FALSE)
      /\ UNCHANGED <<fwd, flash>>
  BY DEF ConfigWithoutBuffer, tableVars, Fail
<1>2. NextPos' \in Int /\ NextPos' <= NextPos /\ NextPos \in Int
  BY <1>1, FailPosition, PositionTyped
<1>3. LateTurn /\ OthersSame /\ SamePlace
  BY <1>1, <1>2, ConfigWithoutBufferIsLate DEF OthersSame, SamePlace
<1> QED  BY <1>2, <1>3, SamePlaceKeeps

LEMMA PacketConsumedKeepsTrial ==
    ASSUME WholeInv, PacketConsumed
    PROVE  TrialContent'
<1> USE DEF WholeInv, UpgradeInv
<1>1. /\ Processing("image") /\ session' = [session EXCEPT !.state = "receive"]
      /\ UNCHANGED <<packet, upload_off>> /\ UNCHANGED <<fwd, flash>>
  BY DEF PacketConsumed, tableVars, Continue
<1>2. session \in Session /\ session.buf_offset \in Nat
      /\ NextPos = packet.from + session.buf_offset
  BY <1>1, TurnPosition
<1>3. /\ session'.is_first = session.is_first
      /\ session'.config_of = session.config_of
      /\ session'.index = session.index /\ session'.part = session.part
      /\ session'.wrt_count = session.wrt_count
      /\ session'.wrt_length = session.wrt_length
      /\ session'.digest = session.digest
      /\ session'.buf_offset = session.buf_offset
  BY <1>1, <1>2 DEF Session
<1>4. NextPos' = NextPos /\ NextPos' \in Int
  BY <1>1, <1>2, <1>3, ContinuePosition
<1>5. LateTurn /\ OthersSame /\ SamePlace
  BY <1>1, <1>3, <1>4, PacketConsumedIsLate DEF OthersSame, SamePlace
<1> QED  BY <1>4, <1>5, SamePlaceKeeps

LEMMA WriteWithoutHandleKeepsTrial ==
    ASSUME WholeInv, WriteWithoutHandle
    PROVE  TrialContent'
<1> USE DEF WholeInv, UpgradeInv
<1>1. /\ Processing("image") /\ session' = [session EXCEPT !.digest = FALSE]
      /\ Reply(FALSE) /\ UNCHANGED <<fwd, flash>>
  BY DEF WriteWithoutHandle, tableVars, Fail
<1>2. NextPos' \in Int /\ NextPos' <= NextPos /\ NextPos \in Int
  BY <1>1, FailPosition, PositionTyped
<1>3. session \in Session
  BY <1>1, TurnPosition
<1>4. /\ session'.is_first = session.is_first
      /\ session'.config_of = session.config_of
      /\ session'.index = session.index /\ session'.part = session.part
      /\ session'.wrt_count = session.wrt_count
      /\ session'.wrt_length = session.wrt_length
      /\ session'.digest = FALSE
  BY <1>1, <1>3 DEF Session
<1>5. LateTurn /\ OthersSame /\ SamePlace
  BY <1>1, <1>2, <1>4, WriteWithoutHandleIsLate DEF OthersSame, SamePlace
<1> QED  BY <1>2, <1>5, SamePlaceKeeps

\* An upload that begins again at offset 0 keeps it: its session is made anew.
LEMMA OffsetResetKeepsTrial ==
    ASSUME WholeInv, LateTurn, OthersSame, OffsetReset
    PROVE  TrialContent'
<1> USE DEF WholeInv, UpgradeInv
<1>1. /\ session' = [session EXCEPT !.buf_offset = 0] /\ UNCHANGED <<fwd, flash>>
      /\ packet = NoPacket
  BY DEF OffsetReset
<1>2. PICK v \in Version, off \in Nat \ {0}, n \in Nat : Upload(v, off, n)
  BY DEF OffsetReset
<1>3. /\ off <= upload_off /\ upload_off < off + n
      /\ packet' = [of |-> v, from |-> upload_off, len |-> off + n - upload_off,
                    received |-> FALSE]
      /\ upload_off \in Nat
  BY <1>2, Sizes DEF Upload, LayoutInv, CountInv
<1>4. session \in Session
  BY DEF LateTurn, Late, LayoutInv, CountInv
<1>5. /\ session'.is_first = session.is_first
      /\ session'.config_of = session.config_of
      /\ session'.index = session.index /\ session'.part = session.part
      /\ session'.wrt_count = session.wrt_count
      /\ session'.wrt_length = session.wrt_length
      /\ session'.digest = session.digest
      /\ session'.buf_offset = 0
  BY <1>1, <1>4 DEF Session
<1>6. NextPos = upload_off
  BY <1>1 DEF NextPos
<1>7. NextPos' = upload_off + 0
  <2>1. packet'.from = upload_off /\ packet' # NoPacket
    <3>1. packet'.len = off + n - upload_off /\ packet'.from = upload_off
      BY <1>3
    <3>2. off + n - upload_off # 0
      BY <1>3
    <3> QED  BY <3>1, <3>2 DEF NoPacket
  <2> QED  BY <1>5, <2>1 DEF NextPos
<1>8. NextPos' <= NextPos /\ NextPos \in Int /\ NextPos' \in Int
  BY <1>3, <1>6, <1>7
<1>9. SamePlace
  BY <1>1, <1>5, <1>8 DEF SamePlace
<1> QED  BY <1>8, <1>9, SamePlaceKeeps

\* Before the header is complete no image is open.
LEMMA EarlyTurnsKeepTrial ==
    ASSUME WholeInv, EraseSecondFs \/ PrepareFs
    PROVE  TrialContent'
<1>1. session.state \in Unprepared /\ session \in Session /\ Chosen
  BY TurnPosition DEF EraseSecondFs, PrepareFs, Unprepared, Chosen
<1>2. session.is_first
  BY <1>1 DEF WholeInv, UpgradeInv, LayoutInv, MapInv, RegionInv
<1>3. session'.is_first
  <2>1. session' = session \/ (\E x : session' = [session EXCEPT !.state = x])
        \/ (\E x : session' = [session EXCEPT !.part = x])
    BY DEF EraseSecondFs, PrepareFs, Continue, Fail
  <2> QED  BY <1>1, <1>2, <2>1 DEF Session
<1> QED  BY <1>3 DEF TrialContent

\* The header names the file, and the first image is still to be opened.
LEMMA ProcessConfigFileKeepsTrial ==
    ASSUME WholeInv, ProcessConfigFile
    PROVE  TrialContent'
<1> USE DEF WholeInv, UpgradeInv
<1> DEFINE s == [session EXCEPT !.config_len = @ + ConfigPart,
                                !.buf_offset = ConfigPart,
                                !.config_of = ConfigOf(session)]
           dropped == [s EXCEPT !.config_len = 0, !.config_of = NoFile]
           more == [s EXCEPT !.state = "receive"]
           next == [s EXCEPT !.is_first = FALSE, !.digest = FALSE,
                             !.state = IF ConfigPart >= s.buf_len THEN "receive"
                                                                  ELSE "image"]
<1>1. /\ session \in Session /\ session.state = "config" /\ Chosen
      /\ packet \in Packet
  BY TurnPosition DEF ProcessConfigFile, Chosen
<1>2. session.is_first /\ session.index = 1
  BY <1>1 DEF LayoutInv, MapInv, RegionInv
<1>3. /\ s.is_first /\ s.index = 1 /\ s.config_of = ConfigOf(session)
      /\ DOMAIN s = DOMAIN session /\ "is_first" \in DOMAIN s
      /\ "digest" \in DOMAIN s /\ "config_of" \in DOMAIN s
  BY <1>1, <1>2 DEF Session
<1>4. \/ session' \in {dropped, more}
      \/ session' = next /\ s.config_of # NoFile
  BY DEF ProcessConfigFile, Continue, Fail
<1>5. s.config_of # NoFile => s.config_of \in Version
  BY <1>1, <1>3 DEF ConfigOf, Packet
<1> HIDE DEF s
<1>6. dropped.is_first /\ more.is_first
  BY <1>3
<1>7. /\ next.index = 1 /\ ~ next.digest /\ next.config_of = s.config_of
  BY <1>3
<1>8. CASE session' \in {dropped, more}
  BY <1>6, <1>8 DEF TrialContent
<1>9. CASE session' = next /\ s.config_of # NoFile
  <2>1. session'.index = 1 /\ ~ session'.digest /\ session'.config_of \in Version
    BY <1>5, <1>7, <1>9
  <2>2. DoneContent'
    BY <2>1 DEF DoneContent, Parts
  <2>3. OpenContent'
    BY <2>1 DEF OpenContent
  <2> QED  BY <2>1, <2>2, <2>3 DEF TrialContent
<1> QED  BY <1>4, <1>8, <1>9

\* A turn once the header is complete: it writes to the next image's place or
\* to the second file system, and ends an image only when that is stored.
LEMMA TrialNext ==
    ASSUME WholeInv, LateTurn, OthersSame, ~ session.is_first,
           \/ UNCHANGED flash
           \/ \E q : /\ Spares(q)
                     /\ \/ q = Find(fwd[active], FS2)
                        \/ session.index \in 1 .. NImages /\ q = PlaceOf(session.index),
           session'.config_of = session.config_of,
           \/ session'.index = session.index
           \/ /\ session'.index = session.index + 1
              /\ session.index \in Parts =>
                   Stored(flash', PlaceOf(session.index), session.config_of,
                          session.index, Images[session.index].len),
           session'.digest => session'.index <= NImages /\ OpenContent'
    PROVE  TrialContent'
<1> USE DEF WholeInv, UpgradeInv, LayoutInv, MapInv
<1>1. /\ Late /\ \A j \in 1 .. NImages : PlaceOf(j)' = PlaceOf(j)
  BY PlacesStay
<1>2. session \in Session /\ session.index \in Nat
  <2>1. session \in Session
    BY <1>1 DEF Late, CountInv
  <2> QED  BY <2>1, ImagesTyped DEF Session
<1>3. session.config_of \in Version /\ DoneContent
  BY <1>1 DEF ContentInv, TrialContent
<1>4. \A j \in Parts :
        j < session.index =>
          Stored(flash', PlaceOf(j), session.config_of, j, Images[j].len)
  BY <1>1, <1>3, DoneStays
<1>5. DoneContent'
  <2> SUFFICES ASSUME NEW j \in Parts, j < session'.index
               PROVE  Stored(flash', PlaceOf(j)', session'.config_of, j, Images[j].len)
    BY DEF DoneContent, Stored, Parts
  <2>1. PlaceOf(j)' = PlaceOf(j) /\ j \in Nat
    BY <1>1, ImagesTyped DEF Parts
  <2>2. CASE j < session.index
    BY <1>4, <2>1, <2>2
  <2>3. CASE ~ (j < session.index)
    <3>1. j = session.index /\ session'.index = session.index + 1
      BY <1>2, <2>1, <2>3
    <3> QED  BY <2>1, <3>1
  <2> QED  BY <2>2, <2>3
<1>6. OpenContent'
  BY DEF OpenContent
<1> QED  BY <1>3, <1>5, <1>6 DEF TrialContent

\* The copy of the file system does not touch the images.
LEMMA DuplicateFsKeepsTrial ==
    ASSUME WholeInv, DuplicateFs
    PROVE  TrialContent'
<1> USE DEF WholeInv, UpgradeInv
<1>1. /\ session \in Session /\ session.state = "duplicate_fs" /\ Late
      /\ session.index \in Nat
  <2>1. session \in Session /\ session.state = "duplicate_fs" /\ session # NoSession
    BY TurnPosition DEF DuplicateFs
  <2> QED  BY <2>1, ImagesTyped DEF Late, Early, Session
<1>2. ~ session.is_first /\ session.index > NImages
  <2>1. Chosen
    BY <1>1 DEF Late, Early, Chosen
  <2> QED  BY <1>1, <2>1 DEF LayoutInv, MapInv, RegionInv
<1>3. ~ session.digest
  BY <1>1, <1>2, ImagesTyped DEF ContentInv, TrialContent
<1>4. LateTurn /\ OthersSame
  BY DuplicateFsIsLate DEF DuplicateFs, OthersSame
<1>5. session' \in {session, [session EXCEPT !.state = "finish"]}
  BY DEF DuplicateFs, Continue, Fail
<1>6. /\ session'.config_of = session.config_of
      /\ session'.index = session.index
      /\ session'.digest = session.digest
  BY <1>1, <1>5 DEF Session
<1> QED  BY <1>2, <1>3, <1>4, <1>6, CopySpares, TrialNext

\* The first block of an image's place is erased when the image is opened.
LEMMA OpenedIsErased ==
    ASSUME NEW p, Inside(p), p.size # 0, FieldInv,
           flash' = Erased(flash, p.start, 1)
    PROVE  \A k \in 0 .. BlockUnits - 1 : UnitAt(flash', p, k) = ErasedCell
<1> SUFFICES ASSUME NEW k \in 0 .. BlockUnits - 1
             PROVE  UnitAt(flash', p, k) = ErasedCell
  OBVIOUS
<1>1. /\ BlockUnits \in Nat /\ p.start \in Nat /\ p.size \in Nat
      /\ p.start * BlockUnits \in Nat
      /\ (p.start + 1) * BlockUnits = p.start * BlockUnits + BlockUnits
  <2>1. BlockUnits \in Nat /\ p.start \in Nat /\ p.size \in Nat
    BY InsideFacts, FlashAssumption
  <2> QED  BY <2>1
<1> DEFINE a == p.start * BlockUnits + k
<1>2. a \in Cells(p.start, 1)
  BY <1>1 DEF Cells
<1>3. a \in DOMAIN flash
  <2>1. 1 * BlockUnits <= p.size * BlockUnits
    BY <1>1, BlocksInOrder
  <2>2. p.size * BlockUnits \in Nat
    BY <1>1
  <2>3. k \in 0 .. p.size * BlockUnits - 1
    BY <1>1, <2>1, <2>2
  <2> QED  BY <2>3, CellFacts DEF FieldInv
<1> HIDE DEF a
<1>4. flash'[a] = ErasedCell
  BY <1>2, <1>3 DEF Erased
<1> QED  BY <1>4 DEF UnitAt, a

\* Opening an image erases its partition, unless it is open already.
LEMMA OpenImageKeepsTrial ==
    ASSUME WholeInv, OpenImage
    PROVE  TrialContent'
<1> USE DEF WholeInv, UpgradeInv
<1>1. /\ session \in Session /\ session.wrt_length = 0 /\ Processing("image")
  BY TurnPosition DEF OpenImage
<1>2. /\ Late /\ ~ session.is_first /\ session.index \in 1 .. NImages
      /\ NextPart = PlaceOf(session.index) /\ Image = Images[session.index]
      /\ Image.id # FS1 => Inside(NextPart)
      /\ Image.id = FS1 => NextPart \in {PartA, PartB}
  BY <1>1, NextPartIsPlace
<1>3. ~ session.digest
  BY <1>1, <1>2 DEF ContentInv, TrialContent, OpenContent
<1>4. LateTurn /\ OthersSame
  <2>1. LateTurn
    BY OpenImageIsLate
  <2>2. \A i \in FwdIdx \ {session.trial} : fwd'[i] = fwd[i]
    BY TurnEditsTrial DEF Process
  <2> QED  BY <2>1, <2>2 DEF OthersSame
<1> DEFINE s == [session EXCEPT !.wrt_count = 0, !.wrt_length = Image.len]
           opened == [s EXCEPT !.part = NextPart, !.digest = TRUE]
<1>5. \/ session' = NextImage(s) /\ Image.len = 0
      \/ /\ session' = opened /\ Image.len # 0
         /\ Image.id # FS1 => flash' = Erased(flash, NextPart.start, 1)
      \/ session' \in {s, [s EXCEPT !.part = NextPart]}
  BY DEF OpenImage, Continue, Fail
<1>6. CASE session' = NextImage(s) /\ Image.len = 0
  <2>1. /\ session'.config_of = session.config_of
        /\ session'.index = session.index + 1
        /\ session'.digest = FALSE
    BY <1>1, <1>3, <1>6 DEF NextImage, Session
  <2>2. Stored(flash', PlaceOf(session.index), session.config_of, session.index,
               Images[session.index].len)
    BY <1>2, <1>6 DEF Stored
  <2> QED  BY <1>2, <1>4, <2>1, <2>2, OpenSpares, TrialNext
<1>7. CASE session' \in {s, [s EXCEPT !.part = NextPart]}
  <2>1. /\ session'.config_of = session.config_of
        /\ session'.index = session.index
        /\ session'.digest = FALSE
    BY <1>1, <1>3, <1>7 DEF Session
  <2> QED  BY <1>2, <1>4, <2>1, OpenSpares, TrialNext
<1>8. CASE /\ session' = opened /\ Image.len # 0
           /\ Image.id # FS1 => flash' = Erased(flash, NextPart.start, 1)
  <2>1. /\ session'.config_of = session.config_of
        /\ session'.index = session.index
        /\ session'.part = NextPart
        /\ session'.wrt_count = 0 /\ session'.wrt_length = Image.len
    BY <1>1, <1>8 DEF Session
  <2>2. NextPart # NoPart
    <3>1. Inside(NextPart)
      BY <1>2, FactoryFacts
    <3> QED  BY <3>1, InsideFacts DEF MaxFwd, NoPart
  <2>3. ASSUME Image.id # FS1
        PROVE  RestErased'
    <3>1. NextPart.size # 0
      BY <1>2, <2>3, ImagesTyped DEF NextPart
    <3>2. \A k \in 0 .. BlockUnits - 1 : UnitAt(flash', NextPart, k) = ErasedCell
      BY <1>2, <1>8, <2>3, <3>1, OpenedIsErased
    <3>3. (0 \div BlockUnits) * BlockUnits + BlockUnits - 1 = BlockUnits - 1
      BY FlashAssumption
    <3> QED  BY <2>1, <3>2, <3>3 DEF RestErased, UnitAt
  <2>4. OpenContent'
    <3> SUFFICES ASSUME NEW j \in 1 .. NImages, j = session'.index, session'.digest
                 PROVE  /\ session'.wrt_length # 0 /\ session'.part # NoPart
                        /\ Images[j].id # FS1 =>
                             /\ Stored(flash', session'.part, session'.config_of, j,
                                       session'.wrt_count)
                             /\ RestErased'
      BY DEF OpenContent, Stored
    <3>1. Images[j] = Image
      BY <1>2, <2>1
    <3>2. Stored(flash', session'.part, session'.config_of, j, session'.wrt_count)
      BY <2>1 DEF Stored
    <3> QED  BY <1>8, <2>1, <2>2, <2>3, <3>1, <3>2
  <2> QED  BY <1>2, <1>4, <2>1, <2>4, ImagesTyped, OpenSpares, TrialNext
<1> QED  BY <1>5, <1>6, <1>7, <1>8

-----------------------------------------------------------------------------
(* BootableIsWhole: a chunk is written *)

\* The block a position is in, told by its bounds.
LEMMA OnlyBlock ==
    ASSUME NEW x \in Nat, NEW q \in Int,
           q * BlockUnits <= x, x < q * BlockUnits + BlockUnits
    PROVE  x \div BlockUnits = q
<1> DEFINE d == x \div BlockUnits
<1>1. d \in Nat /\ d * BlockUnits <= x /\ x < d * BlockUnits + BlockUnits
  BY BlockOf
<1>2. BlockUnits \in Nat \ {0}
  BY FlashAssumption
<1> HIDE DEF d
<1>3. /\ (d + 1) * BlockUnits = d * BlockUnits + BlockUnits
      /\ (q + 1) * BlockUnits = q * BlockUnits + BlockUnits
      /\ d * BlockUnits \in Int /\ q * BlockUnits \in Int
  BY <1>1, <1>2
<1>4. q + 1 <= d => (q + 1) * BlockUnits <= d * BlockUnits
  BY <1>1, BlocksInOrder
<1>5. d + 1 <= q => (d + 1) * BlockUnits <= q * BlockUnits
  BY <1>1, BlocksInOrder
<1>6. d = q
  BY <1>1, <1>2, <1>3, <1>4, <1>5
<1> QED  BY <1>6 DEF d

\* A position is at the beginning of its block or in that of the one before.
LEMMA BlockBefore ==
    ASSUME NEW x \in Nat \ {0}
    PROVE  /\ x % BlockUnits = 0 => (x \div BlockUnits) * BlockUnits = x
           /\ x % BlockUnits # 0 => (x - 1) \div BlockUnits = x \div BlockUnits
<1> DEFINE d == x \div BlockUnits  r == x % BlockUnits
<1>1. d \in Nat /\ d * BlockUnits <= x /\ x < d * BlockUnits + BlockUnits
  BY BlockOf
<1>2. r \in Nat /\ x = d * BlockUnits + r
  <2>1. BlockUnits \in Nat \ {0}
    BY FlashAssumption
  <2>2. x = BlockUnits * d + r /\ r \in Nat
    BY <2>1
  <2> QED  BY <1>1, <2>1, <2>2
<1>3. d * BlockUnits \in Nat
  BY <1>1, FlashAssumption
<1> HIDE DEF d, r
<1>4. r # 0 => d * BlockUnits <= x - 1 /\ x - 1 < d * BlockUnits + BlockUnits
  BY <1>1, <1>2, <1>3, FlashAssumption
<1>5. r # 0 => (x - 1) \div BlockUnits = d
  BY <1>1, <1>4, OnlyBlock
<1>6. r = 0 => d * BlockUnits = x
  BY <1>2, <1>3
<1> QED  BY <1>5, <1>6 DEF d, r

\* While the hash is right the chunk is what comes next in the file.
LEMMA ChunkIsNext ==
    ASSUME WholeInv, WriteImage, Hashed
    PROVE  /\ \A k \in 0 .. ChunkLen - 1 :
                ChunkUnit(k) = <<session.config_of, Image.pos + session.wrt_count + k>>
           /\ packet.from + session.buf_offset = Image.pos + session.wrt_count
           /\ Image.id # FS1 =>
                /\ Stored(flash, session.part, session.config_of, session.index,
                          session.wrt_count)
                /\ RestErased
<1> USE DEF WholeInv, UpgradeInv
<1>1. /\ Late /\ ~ session.is_first /\ session.index \in 1 .. NImages
      /\ Image = Images[session.index] /\ ChunkLen \in Nat \ {0}
      /\ session.wrt_count \in Nat
  BY ChunkFacts
<1>2. /\ NextPos = packet.from + session.buf_offset /\ session.buf_offset \in Nat
      /\ packet.from \in Nat
  BY TurnPosition DEF WriteImage
<1>3. session.digest /\ \A k \in 0 .. ChunkLen - 1 : ChunkUnit(k) # Spoilt
  BY DEF Hashed
<1>4. \A k \in 0 .. ChunkLen - 1 :
         /\ ChunkUnit(k) = <<session.config_of, Image.pos + session.wrt_count + k>>
         /\ PacketUnit(session.buf_offset + k) = ChunkUnit(k)
  BY <1>3 DEF ChunkUnit
<1>5. packet.from + session.buf_offset = Image.pos + session.wrt_count
  <2>1. 0 \in 0 .. ChunkLen - 1
    BY <1>1
  <2>2. PacketUnit(session.buf_offset + 0)
          = <<session.config_of, Image.pos + session.wrt_count + 0>>
    BY <1>4, <2>1
  <2>3. PacketUnit(session.buf_offset + 0) # Spoilt
    BY <1>3, <1>4, <2>1
  <2>4. PacketUnit(session.buf_offset + 0)
          = <<packet.of, packet.from + (session.buf_offset + 0)>>
    BY <2>3 DEF PacketUnit
  <2>5. packet.from + (session.buf_offset + 0) = Image.pos + session.wrt_count + 0
    BY <2>2, <2>4
  <2> QED  BY <1>1, <1>2, <2>5, ImagesTyped
<1>6. ASSUME Image.id # FS1
      PROVE  /\ Stored(flash, session.part, session.config_of, session.index,
                       session.wrt_count)
             /\ RestErased
  <2>1. OpenContent
    BY <1>1 DEF ContentInv, TrialContent
  <2>2. /\ Stored(flash, session.part, session.config_of, session.index,
                  session.wrt_count)
        /\ RestErased \/ NextPos < Images[session.index].pos + session.wrt_count
    BY <1>1, <1>3, <1>6, <2>1 DEF OpenContent
  <2>3. Image.pos + session.wrt_count \in Int
    BY <1>1, ImagesTyped
  <2> QED  BY <1>1, <1>2, <1>5, <2>2, <2>3
<1> QED  BY <1>4, <1>5, <1>6

\* A cell of an image's place after a chunk: its address, counted from the
\* beginning of the place.
LEMMA ChunkCell ==
    ASSUME WholeInv, WriteImage, NEW E, flash' = FlashAfter(E, ChunkLen),
           NEW k \in Nat, k < session.part.size * BlockUnits
    PROVE  LET p == session.part
               a == p.start * BlockUnits + k
               old == IF a \in E THEN ErasedCell ELSE UnitAt(flash, p, k)
               i == k - session.wrt_count
           IN  UnitAt(flash', p, k) = IF i \in 0 .. ChunkLen - 1
                                      THEN Written(old, ChunkUnit(i)) ELSE old
<1> DEFINE p == session.part
           a == p.start * BlockUnits + k
<1>1. /\ Inside(p) /\ p.start \in Nat /\ p.size \in Nat /\ BlockUnits \in Nat
      /\ p.start * BlockUnits \in Nat /\ session.wrt_count \in Nat
  <2>1. Inside(p) /\ p.start \in Nat /\ p.size \in Nat
    BY ChunkCells, InsideFacts DEF WholeInv
  <2> QED  BY <2>1, ChunkFacts, FlashAssumption DEF WholeInv, UpgradeInv
<1>2. a \in DOMAIN flash
  <2>1. p.size * BlockUnits \in Nat
    BY <1>1
  <2>2. k \in 0 .. p.size * BlockUnits - 1
    BY <2>1
  <2> QED  BY <1>1, <2>2, CellFacts DEF WholeInv, UpgradeInv, FieldInv
<1>3. a - (p.start * BlockUnits + session.wrt_count) = k - session.wrt_count
  BY <1>1
<1> HIDE DEF a
<1>4. flash'[a] = LET i == k - session.wrt_count
                      old == IF a \in E THEN ErasedCell ELSE flash[a]
                  IN  IF i \in 0 .. ChunkLen - 1
                      THEN Written(old, ChunkUnit(i)) ELSE old
  BY <1>2, <1>3 DEF FlashAfter
<1> QED  BY <1>4 DEF UnitAt, a

\* Which of these cells a chunk erases: those of the blocks it enters, and of
\* the next one when it ends at a boundary.
LEMMA ErasedBlocks ==
    ASSUME WholeInv, WriteImage, NEW k \in Nat
    PROVE  LET w == session.wrt_count
               n == ChunkLen
               a == session.part.start * BlockUnits + k
           IN  /\ a \in EnteredCells <=>
                    /\ (w \div BlockUnits) * BlockUnits + BlockUnits <= k
                    /\ k < ((w + n - 1) \div BlockUnits) * BlockUnits + BlockUnits
               /\ a \in NextCells <=>
                    /\ ((w + n) \div BlockUnits) * BlockUnits <= k
                    /\ k < ((w + n) \div BlockUnits) * BlockUnits + BlockUnits
<1> DEFINE w == session.wrt_count
           n == ChunkLen
           b == session.part.start
           a == b * BlockUnits + k
           f == w \div BlockUnits
           l == (w + n - 1) \div BlockUnits
           m == (w + n) \div BlockUnits
<1>1. /\ b \in Nat /\ w \in Nat /\ n \in Nat \ {0} /\ BlockUnits \in Nat
  <2>1. b \in Nat
    BY ChunkCells, InsideFacts DEF WholeInv
  <2> QED  BY <2>1, ChunkFacts, FlashAssumption DEF WholeInv, UpgradeInv
<1>2. f \in Nat /\ l \in Nat /\ m \in Nat
  <2>1. w \in Nat /\ w + n - 1 \in Nat /\ w + n \in Nat
    BY <1>1
  <2> HIDE DEF w, n
  <2> QED  BY <2>1, BlockOf
<1>3. /\ EnteredCells = Cells(b + (f + 1), l + 1 - (f + 1))
      /\ NextCells = Cells(b + m, 1)
  BY DEF EnteredCells, NextCells
<1> HIDE DEF f, l, m, w, n, b
<1>4. /\ (b + (f + 1)) * BlockUnits = b * BlockUnits + (f * BlockUnits + BlockUnits)
      /\ (b + (f + 1) + (l + 1 - (f + 1))) * BlockUnits
           = b * BlockUnits + (l * BlockUnits + BlockUnits)
      /\ (b + m) * BlockUnits = b * BlockUnits + m * BlockUnits
      /\ (b + m + 1) * BlockUnits = b * BlockUnits + (m * BlockUnits + BlockUnits)
      /\ b * BlockUnits \in Nat /\ f * BlockUnits \in Nat
      /\ l * BlockUnits \in Nat /\ m * BlockUnits \in Nat
  <2>1. b + (f + 1) + (l + 1 - (f + 1)) = b + (l + 1)
    BY <1>1, <1>2
  <2> QED  BY <1>1, <1>2, <2>1
<1>5. a \in EnteredCells <=> /\ f * BlockUnits + BlockUnits <= k
                             /\ k < l * BlockUnits + BlockUnits
  BY <1>1, <1>3, <1>4, SMTT(20) DEF Cells
<1>6. a \in NextCells <=> /\ m * BlockUnits <= k
                          /\ k < m * BlockUnits + BlockUnits
  BY <1>1, <1>3, <1>4, SMTT(20) DEF Cells
<1> QED  BY <1>5, <1>6 DEF f, l, m, w, n, b

\* What a chunk erases beside the blocks it enters: nothing before its end.
ErasesAhead(E) ==
    \/ E = EnteredCells
    \/ /\ E = EnteredCells \cup NextCells
       /\ (session.wrt_count + ChunkLen) % BlockUnits = 0

\* A right chunk adds to what the place holds of the image.
LEMMA ChunkStored ==
    ASSUME WholeInv, WriteImage, Hashed, Image.id # FS1,
           NEW E, ErasesAhead(E), flash' = FlashAfter(E, ChunkLen)
    PROVE  Stored(flash', session.part, session.config_of, session.index,
                  session.wrt_count + ChunkLen)
<1> USE DEF WholeInv, UpgradeInv
<1> DEFINE p == session.part
           w == session.wrt_count
           n == ChunkLen
           f == w \div BlockUnits
           l == (w + n - 1) \div BlockUnits
           m == (w + n) \div BlockUnits
<1>1. /\ w \in Nat /\ n \in Nat \ {0} /\ w + n <= Image.len /\ Image.len \in Nat
      /\ Image.len <= p.size * BlockUnits /\ p.size * BlockUnits \in Nat
      /\ BlockUnits \in Nat \ {0} /\ Image = Images[session.index]
      /\ Image.pos \in Nat
  <2>1. p.size \in Nat
    BY ChunkCells, InsideFacts
  <2> QED  BY <2>1, ChunkFacts, ChunkCells, FlashAssumption, ImagesTyped
<1>2. /\ f * BlockUnits \in Nat /\ f * BlockUnits <= w
      /\ w < f * BlockUnits + BlockUnits
      /\ l * BlockUnits \in Nat /\ w + n - 1 < l * BlockUnits + BlockUnits
      /\ (w + n) % BlockUnits = 0 => m * BlockUnits = w + n
  <2>1. w \in Nat /\ w + n - 1 \in Nat /\ w + n \in Nat \ {0}
    BY <1>1
  <2>2. f \in Nat /\ l \in Nat
    BY <2>1, BlockOf
  <2> HIDE DEF n
  <2>3. /\ f * BlockUnits <= w /\ w < f * BlockUnits + BlockUnits
        /\ w + n - 1 < l * BlockUnits + BlockUnits
        /\ (w + n) % BlockUnits = 0 => m * BlockUnits = w + n
    BY <2>1, BlockOf, BlockBefore
  <2> QED  BY <1>1, <2>2, <2>3
<1> SUFFICES ASSUME NEW k \in 0 .. w + n - 1
             PROVE  UnitAt(flash', p, k) = <<session.config_of, Image.pos + k>>
  BY <1>1 DEF Stored
<1> DEFINE a == p.start * BlockUnits + k
           old == IF a \in E THEN ErasedCell ELSE UnitAt(flash, p, k)
           i == k - w
<1>3. k \in Nat /\ k < p.size * BlockUnits /\ k < w + n
  BY <1>1
<1>4. UnitAt(flash', p, k) = IF i \in 0 .. n - 1
                             THEN Written(old, ChunkUnit(i)) ELSE old
  BY <1>3, ChunkCell
<1>5. /\ a \in EnteredCells <=> /\ f * BlockUnits + BlockUnits <= k
                                /\ k < l * BlockUnits + BlockUnits
      /\ a \in NextCells => m * BlockUnits <= k
  BY <1>3, ErasedBlocks
<1>6. a \in E <=> a \in EnteredCells
  <2>1. (w + n) % BlockUnits = 0 => a \notin NextCells
    BY <1>1, <1>2, <1>3, <1>5
  <2> QED  BY <2>1 DEF ErasesAhead
<1>7. /\ \A x \in 0 .. n - 1 :
           ChunkUnit(x) = <<session.config_of, Image.pos + w + x>>
      /\ Stored(flash, p, session.config_of, session.index, w)
      /\ \A x \in w .. f * BlockUnits + BlockUnits - 1 :
           UnitAt(flash, p, x) = ErasedCell
  BY ChunkIsNext DEF RestErased
<1> HIDE DEF f, l, m, a, n
<1>8. CASE k < w
  <2>1. a \notin E /\ i \notin 0 .. n - 1
    BY <1>1, <1>2, <1>3, <1>5, <1>6, <1>8
  <2>2. UnitAt(flash, p, k) = <<session.config_of, Image.pos + k>>
    BY <1>1, <1>3, <1>7, <1>8 DEF Stored
  <2> QED  BY <1>4, <2>1, <2>2
<1>9. CASE w <= k
  <2>1. i \in 0 .. n - 1 /\ Image.pos + w + i = Image.pos + k
    BY <1>1, <1>3, <1>9
  <2>2. old = ErasedCell
    <3>1. CASE k < f * BlockUnits + BlockUnits
      <4>1. k \in w .. f * BlockUnits + BlockUnits - 1
        BY <1>1, <1>2, <1>3, <1>9, <3>1
      <4> QED  BY <1>7, <4>1
    <3>2. CASE ~ (k < f * BlockUnits + BlockUnits)
      <4>1. a \in E
        BY <1>1, <1>2, <1>3, <1>5, <1>6, <3>2
      <4> QED  BY <4>1
    <3> QED  BY <3>1, <3>2
  <2>3. ChunkUnit(i) = <<session.config_of, Image.pos + k>>
    BY <1>7, <2>1
  <2> QED  BY <1>4, <2>1, <2>2, <2>3 DEF Written
<1> QED  BY <1>1, <1>3, <1>8, <1>9

\* And the rest of the block it ends in is erased.
LEMMA ChunkLeavesErased ==
    ASSUME WholeInv, WriteImage, Hashed, Image.id # FS1,
           session.wrt_count + ChunkLen < Image.len,
           \/ /\ (session.wrt_count + ChunkLen) % BlockUnits # 0
              /\ flash' = FlashAfter(EnteredCells, ChunkLen)
           \/ /\ (session.wrt_count + ChunkLen) % BlockUnits = 0
              /\ flash' = FlashAfter(EnteredCells \cup NextCells, ChunkLen)
    PROVE  LET c == session.wrt_count + ChunkLen
           IN  \A k \in c .. (c \div BlockUnits) * BlockUnits + BlockUnits - 1 :
                 UnitAt(flash', session.part, k) = ErasedCell
<1> USE DEF WholeInv, UpgradeInv
<1> DEFINE p == session.part
           w == session.wrt_count
           n == ChunkLen
           f == w \div BlockUnits
           l == (w + n - 1) \div BlockUnits
           m == (w + n) \div BlockUnits
<1>1. /\ w \in Nat /\ n \in Nat \ {0} /\ w + n < Image.len /\ Image.len \in Nat
      /\ Image.len <= p.size * BlockUnits /\ p.size * BlockUnits \in Nat
      /\ p.size \in Nat /\ BlockUnits \in Nat \ {0}
  <2>1. p.size \in Nat
    BY ChunkCells, InsideFacts
  <2> QED  BY <2>1, ChunkFacts, ChunkCells, FlashAssumption, ImagesTyped
<1>2. /\ f * BlockUnits \in Nat /\ m * BlockUnits \in Nat
      /\ w + n < m * BlockUnits + BlockUnits
      /\ (w + n) % BlockUnits = 0 => m * BlockUnits = w + n
      /\ (w + n) % BlockUnits # 0 => l = m
      /\ m * BlockUnits + BlockUnits <= p.size * BlockUnits
  <2>1. w \in Nat /\ w + n \in Nat \ {0} /\ w + n < p.size * BlockUnits
    BY <1>1
  <2>2. f \in Nat /\ m \in Nat
    BY <2>1, BlockOf
  <2>3. /\ w + n < m * BlockUnits + BlockUnits
        /\ (w + n) % BlockUnits = 0 => m * BlockUnits = w + n
        /\ (w + n) % BlockUnits # 0 => l = m
    <3> HIDE DEF w, n
    <3>1. w + n < m * BlockUnits + BlockUnits
      BY <2>1, BlockOf
    <3>2. /\ (w + n) % BlockUnits = 0 => m * BlockUnits = w + n
          /\ (w + n) % BlockUnits # 0 => l = m
      <4> DEFINE x == w + n
      <4>1. x \in Nat \ {0}
        BY <2>1
      <4> HIDE DEF x
      <4>2. /\ x % BlockUnits = 0 => (x \div BlockUnits) * BlockUnits = x
            /\ x % BlockUnits # 0 => (x - 1) \div BlockUnits = x \div BlockUnits
        BY <4>1, BlockBefore
      <4> QED  BY <1>1, <2>1, <4>2 DEF x
    <3> QED  BY <3>1, <3>2
  <2>4. m < p.size
    BY <1>1, <2>1, BlockWithin
  <2> HIDE DEF f, l, m
  <2>5. (m + 1) * BlockUnits <= p.size * BlockUnits
    BY <1>1, <2>2, <2>4, BlocksInOrder
  <2>6. (m + 1) * BlockUnits = m * BlockUnits + BlockUnits
    BY <1>1, <2>2
  <2> QED  BY <1>1, <2>2, <2>3, <2>5, <2>6
<1> SUFFICES ASSUME NEW k \in w + n .. m * BlockUnits + BlockUnits - 1
             PROVE  UnitAt(flash', p, k) = ErasedCell
  OBVIOUS
<1> DEFINE a == p.start * BlockUnits + k
<1>3. k \in Nat /\ k < p.size * BlockUnits /\ w + n <= k
      /\ k < m * BlockUnits + BlockUnits
  BY <1>1, <1>2
<1>4. k - w \notin 0 .. n - 1
  BY <1>1, <1>3
<1>5. ASSUME NEW E, flash' = FlashAfter(E, n)
      PROVE  UnitAt(flash', p, k)
               = IF a \in E THEN ErasedCell ELSE UnitAt(flash, p, k)
  BY <1>3, <1>4, <1>5, ChunkCell
<1>6. /\ a \in EnteredCells <=> /\ f * BlockUnits + BlockUnits <= k
                                /\ k < l * BlockUnits + BlockUnits
      /\ a \in NextCells <=> /\ m * BlockUnits <= k
                             /\ k < m * BlockUnits + BlockUnits
  BY <1>3, ErasedBlocks
<1>7. \A x \in w .. f * BlockUnits + BlockUnits - 1 :
        UnitAt(flash, p, x) = ErasedCell
  BY ChunkIsNext DEF RestErased
<1> HIDE DEF f, l, m, a
<1>8. CASE /\ (w + n) % BlockUnits # 0
           /\ flash' = FlashAfter(EnteredCells, n)
  <2>1. CASE k < f * BlockUnits + BlockUnits
    <3>1. k \in w .. f * BlockUnits + BlockUnits - 1
      BY <1>1, <1>2, <1>3, <2>1
    <3> QED  BY <1>5, <1>7, <1>8, <3>1
  <2>2. CASE ~ (k < f * BlockUnits + BlockUnits)
    <3>1. a \in EnteredCells
      BY <1>1, <1>2, <1>3, <1>6, <1>8, <2>2
    <3> QED  BY <1>5, <1>8, <3>1
  <2> QED  BY <2>1, <2>2
<1>9. CASE /\ (w + n) % BlockUnits = 0
           /\ flash' = FlashAfter(EnteredCells \cup NextCells, n)
  <2>1. a \in NextCells
    BY <1>1, <1>2, <1>3, <1>6, <1>9
  <2> QED  BY <1>5, <1>9, <2>1
<1> QED  BY <1>8, <1>9

\* A chunk after which its image goes on: what was right so far still is.
LEMMA ChunkGoesOn ==
    ASSUME WholeInv, WriteImage, Hashed,
           session'.index = session.index, session'.part = session.part,
           session'.config_of = session.config_of,
           session'.wrt_length = session.wrt_length,
           session'.wrt_count = session.wrt_count + ChunkLen,
           session'.wrt_count < Image.len,
           \/ /\ session'.wrt_count % BlockUnits # 0
              /\ flash' = FlashAfter(EnteredCells, ChunkLen)
           \/ /\ session'.wrt_count % BlockUnits = 0
              /\ flash' = FlashAfter(EnteredCells \cup NextCells, ChunkLen)
           \/ /\ flash' = FlashAfter(EnteredCells, ChunkLen)
              /\ Reply(FALSE)
    PROVE  session'.index <= NImages /\ OpenContent'
<1> USE DEF WholeInv, UpgradeInv
<1> DEFINE c == session.wrt_count + ChunkLen
<1>1. /\ session.index \in 1 .. NImages /\ Image = Images[session.index]
      /\ session.wrt_count \in Nat /\ ChunkLen \in Nat \ {0}
      /\ session.wrt_length = Image.len /\ Image.len \in Nat
      /\ session.part # NoPart /\ session.wrt_length # 0
      /\ Image.pos \in Nat /\ NImages \in Nat
  BY ChunkFacts, ImagesTyped DEF WriteImage
<1>2. ASSUME Image.id # FS1
      PROVE  Stored(flash', session.part, session.config_of, session.index, c)
  <2>1. PICK E : ErasesAhead(E) /\ flash' = FlashAfter(E, ChunkLen)
    BY DEF ErasesAhead
  <2> QED  BY <1>2, <2>1, ChunkStored
<1>3. ASSUME Image.id # FS1
      PROVE  \/ RestErased'
             \/ NextPos' < Image.pos + c
  <2>1. CASE Reply(FALSE)
    <3>1. NextPos' = packet.from /\ packet.from \in Nat /\ session.buf_offset \in Nat
      BY <2>1, FailPosition, TurnPosition DEF WriteImage
    <3>2. packet.from + session.buf_offset = Image.pos + session.wrt_count
      BY ChunkIsNext
    <3> QED  BY <1>1, <3>1, <3>2
  <2>2. CASE ~ Reply(FALSE)
    <3>1. \A k \in c .. (c \div BlockUnits) * BlockUnits + BlockUnits - 1 :
            UnitAt(flash', session.part, k) = ErasedCell
      BY <1>3, <2>2, ChunkLeavesErased
    <3> QED  BY <3>1 DEF RestErased, UnitAt
  <2> QED  BY <2>1, <2>2
<1>4. OpenContent'
  <2> SUFFICES ASSUME NEW j \in 1 .. NImages, j = session'.index, session'.digest
               PROVE  /\ session'.wrt_length # 0 /\ session'.part # NoPart
                      /\ Images[j].id # FS1 =>
                           /\ Stored(flash', session'.part, session'.config_of, j,
                                     session'.wrt_count)
                           /\ \/ RestErased'
                              \/ NextPos' < Images[j].pos + session'.wrt_count
    BY DEF OpenContent, Stored
  <2> QED  BY <1>1, <1>2, <1>3
<1> QED  BY <1>1, <1>4

\* Writing adds a chunk to the image, or spoils it and says so.
LEMMA WriteImageKeepsTrial ==
    ASSUME WholeInv, WriteImage
    PROVE  TrialContent'
<1> USE DEF WholeInv, UpgradeInv
<1> DEFINE c == session.wrt_count + ChunkLen
           s == [session EXCEPT !.digest = Hashed, !.buf_offset = @ + ChunkLen,
                                !.wrt_count = @ + ChunkLen]
           done == [NextImage(s) EXCEPT !.digest = FALSE]
           dropped == [s EXCEPT !.part = NoPart]
           bad == [session EXCEPT !.digest = FALSE]
<1>1. /\ session \in Session /\ ~ session.is_first
      /\ session.index \in 1 .. NImages /\ Image = Images[session.index]
      /\ session.part = PlaceOf(session.index) /\ session.wrt_length = Image.len
  BY ChunkFacts
<1>2. LateTurn /\ OthersSame
  BY WriteImageIsLate DEF WriteImage, OthersSame
<1>3. Spares(PlaceOf(session.index))
  BY <1>1, WriteSpares
<1>4. /\ s.wrt_count = c /\ s.digest = Hashed /\ s.config_of = session.config_of
      /\ s.index = session.index /\ s.wrt_length = session.wrt_length
      /\ s.part = session.part
      /\ DOMAIN s = DOMAIN session
  BY <1>1 DEF Session
<1>5. \/ /\ c = session.wrt_length /\ Hashed /\ session' = done
         /\ flash' = FlashAfter(EnteredCells, ChunkLen)
      \/ ~ Hashed /\ session' \in {s, dropped}
      \/ session' = bad
      \/ /\ c < session.wrt_length /\ session' = s
         /\ \/ /\ c % BlockUnits # 0
               /\ flash' = FlashAfter(EnteredCells, ChunkLen)
            \/ /\ c % BlockUnits = 0
               /\ flash' = FlashAfter(EnteredCells \cup NextCells, ChunkLen)
            \/ /\ flash' = FlashAfter(EnteredCells, ChunkLen)
               /\ Reply(FALSE)
  BY <1>4 DEF WriteImage, Continue, Fail, FlashAfterWrite
<1>6. CASE /\ c = session.wrt_length /\ Hashed /\ session' = done
           /\ flash' = FlashAfter(EnteredCells, ChunkLen)
  <2>1. /\ session'.config_of = session.config_of
        /\ session'.index = session.index + 1
        /\ session'.digest = FALSE
    <3> HIDE DEF s
    <3> QED  BY <1>1, <1>4, <1>6 DEF NextImage, Session
  <2>2. session.index \in Parts =>
          Stored(flash', PlaceOf(session.index), session.config_of, session.index,
                 Images[session.index].len)
    BY <1>1, <1>6, ChunkStored DEF Parts, ErasesAhead
  <2> QED  BY <1>1, <1>2, <1>3, <2>1, <2>2, TrialNext
<1>7. CASE \/ ~ Hashed /\ session' \in {s, dropped}
           \/ session' = bad
  <2>1. /\ session'.config_of = session.config_of
        /\ session'.index = session.index
        /\ session'.digest = FALSE
    <3>1. (~ Hashed) => Hashed = FALSE
      BY DEF Hashed
    <3>3. {"digest", "config_of", "index"} \subseteq DOMAIN s
      BY <1>1, <1>4 DEF Session
    <3>2. bad.digest = FALSE /\ bad.config_of = session.config_of
          /\ bad.index = session.index
      BY <1>1 DEF Session
    <3> HIDE DEF s, bad
    <3> QED  BY <1>4, <1>7, <3>1, <3>2, <3>3
  <2> QED  BY <1>1, <1>2, <1>3, <2>1, TrialNext
<1>8. CASE /\ c < session.wrt_length /\ session' = s /\ Hashed
           /\ \/ /\ c % BlockUnits # 0
                 /\ flash' = FlashAfter(EnteredCells, ChunkLen)
              \/ /\ c % BlockUnits = 0
                 /\ flash' = FlashAfter(EnteredCells \cup NextCells, ChunkLen)
              \/ /\ flash' = FlashAfter(EnteredCells, ChunkLen)
                 /\ Reply(FALSE)
  <2>1. session'.index <= NImages /\ OpenContent'
    <3> HIDE DEF s
    <3>1. /\ session'.index = session.index /\ session'.part = session.part
          /\ session'.config_of = session.config_of
          /\ session'.wrt_length = session.wrt_length
          /\ session'.wrt_count = session.wrt_count + ChunkLen
      BY <1>4, <1>8
    <3> QED  BY <1>1, <1>8, <3>1, ChunkGoesOn
  <2> QED  BY <1>1, <1>2, <1>3, <1>4, <1>8, <2>1, TrialNext
<1> QED  BY <1>4, <1>5, <1>6, <1>7, <1>8

-----------------------------------------------------------------------------
(* BootableIsWhole: every step *)

\* The offset the image group expects is that of the packet being processed.
LEMMA OffsetNext ==
    ASSUME packet # NoPacket => packet.from = upload_off, UpgradeInv, Next
    PROVE  packet' # NoPacket => packet'.from = upload_off'
<1>1. CASE \/ packet' = NoPacket
           \/ UNCHANGED <<packet, upload_off>>
  BY <1>1
<1>2. CASE ReceiveData
  <2>1. packet \in Packet \/ packet = NoPacket
    BY DEF UpgradeInv, LayoutInv, CountInv
  <2>2. packet # NoPacket
    BY <1>2 DEF ReceiveData, Processing
  <2> QED  BY <1>1, <1>2, <2>1, <2>2 DEF ReceiveData, Reply, Packet
<1>3. CASE \E v \in Version, off \in 0 .. FileLen - 1, n \in PacketLen : Upload(v, off, n)
  BY <1>3 DEF Upload
<1>4. \/ packet' = NoPacket
      \/ UNCHANGED <<packet, upload_off>>
      \/ ReceiveData
      \/ \E v \in Version, off \in 0 .. FileLen - 1, n \in PacketLen : Upload(v, off, n)
  <2>1. ASSUME GetTrialInfo \/ EraseTrialFwd \/ EraseSecondFs \/ PrepareFs
               \/ ProcessConfigFile \/ ConfigWithoutBuffer \/ DuplicateFs \/ Finish
        PROVE  packet' = NoPacket \/ UNCHANGED <<packet, upload_off>>
    BY <2>1 DEF GetTrialInfo, EraseTrialFwd, EraseSecondFs, PrepareFs,
                ProcessConfigFile, ConfigWithoutBuffer, DuplicateFs, Finish,
                Continue, Fail, Reply
  <2>2. ASSUME OpenImage \/ WriteImage \/ WriteWithoutHandle \/ PacketConsumed
        PROVE  packet' = NoPacket \/ UNCHANGED <<packet, upload_off>>
    BY <2>2 DEF OpenImage, WriteImage, WriteWithoutHandle, PacketConsumed,
                Continue, Fail, Reply
  <2>3. ASSUME UploadInitFails \/ Accept \/ Reject \/ EraseSlot \/ Restart
        PROVE  packet' = NoPacket \/ UNCHANGED <<packet, upload_off>>
    BY <2>3 DEF UploadInitFails, Accept, Reject, EraseSlot, Restart
  <2> QED  BY <2>1, <2>2, <2>3 DEF Next, Process
<1> QED  BY <1>1, <1>2, <1>3, <1>4

\* What a descriptor holds is read off its entries and the flash.
LEMMA SameContent ==
    ASSUME UNCHANGED flash, NEW i \in FwdIdx, fwd'[i].entries = fwd[i].entries
    PROVE  /\ FilesIn(fwd[i])' = FilesIn(fwd[i])
           /\ Fits(fwd[i])' <=> Fits(fwd[i])
<1>1. \A v : Holds(fwd[i], v)' <=> Holds(fwd[i], v)
  BY DEF Holds, Found, Find, UnitAt
<1> QED  BY <1>1 DEF FilesIn, Fits, Parts, Found, Find

\* The trial is a file, whole, when it becomes valid.
LEMMA FinishedContent ==
    ASSUME WholeInv, Finish
    PROVE  Fits(fwd[session.trial]) /\ FilesIn(fwd[session.trial]) # {}
<1> USE DEF WholeInv, UpgradeInv
<1> DEFINE d == fwd[session.trial]
           v == session.config_of
<1>1. /\ Late /\ session.state = "finish" /\ session \in Session
  BY FinishStarts DEF LayoutInv, CountInv, Late
<1>2. /\ ~ session.is_first /\ session.index > NImages
      /\ session.index \in Nat /\ NImages \in Nat
  <2>1. Chosen
    BY <1>1 DEF Late, Early, Chosen
  <2>2. session.index \in Nat /\ NImages \in Nat
    BY <1>1, ImagesTyped DEF Session
  <2> QED  BY <1>1, <2>1, <2>2 DEF LayoutInv, MapInv, RegionInv
<1>3. v \in Version /\ DoneContent
  BY <1>1, <1>2 DEF ContentInv, TrialContent
<1>4. \A j \in Parts :
         /\ Found(d, Images[j].id) /\ Find(d, Images[j].id) = PlaceOf(j)
         /\ Stored(flash, PlaceOf(j), v, j, Images[j].len)
  <2> SUFFICES ASSUME NEW j \in Parts
               PROVE  /\ Found(d, Images[j].id)
                      /\ Find(d, Images[j].id) = PlaceOf(j)
                      /\ Stored(flash, PlaceOf(j), v, j, Images[j].len)
    OBVIOUS
  <2>1. j < session.index /\ j \in 1 .. NImages
    BY <1>2 DEF Parts
  <2> QED  BY <1>1, <1>3, <2>1 DEF LayoutInv, MapInv, EntryInv, DoneContent
<1>5. Holds(d, v)
  BY <1>4, HoldsIsStored
<1>6. Fits(d)
  <2>1. \A j \in Parts : Images[j].len <= PlaceOf(j).size * BlockUnits
    BY <1>1, <1>2, PlaceFacts
  <2> QED  BY <1>4, <2>1 DEF Fits
<1> QED  BY <1>3, <1>5, <1>6 DEF FilesIn, Files

\* What becomes valid is whole.
LEMMA FinishKeepsUsedWhole ==
    ASSUME WholeInv, Finish
    PROVE  UsedWhole'
<1> USE DEF WholeInv, UpgradeInv
<1>1. /\ session.trial \in FwdIdx /\ UNCHANGED <<flash, active>>
      /\ \A i \in FwdIdx \ {session.trial} : fwd'[i] = fwd[i]
      /\ \A i \in FwdIdx : fwd'[i].entries = fwd[i].entries
  BY FinishStarts, FinishSearches
<1>2. \A i \in Used' : i \in FwdIdx /\ (i \in Used \/ i = session.trial)
  BY <1>1 DEF Used
<1>3. ASSUME NEW i \in Used'
      PROVE  (Fits(fwd[i]) /\ FilesIn(fwd[i]) # {})'
  <2>1. Fits(fwd[i]) /\ FilesIn(fwd[i]) # {}
    BY <1>2, <1>3, FinishedContent DEF ContentInv, UsedWhole
  <2>2. i \in FwdIdx /\ fwd'[i].entries = fwd[i].entries
    BY <1>1, <1>2, <1>3
  <2> QED  BY <1>1, <2>1, <2>2, SameContent
<1> QED  BY <1>3 DEF UsedWhole

\* A calm step leaves images alone
LEMMA CalmKeepsUsedWhole ==
    ASSUME UsedWhole, Calm
    PROVE  UsedWhole'
<1>1. ASSUME NEW i \in Used'
      PROVE  (Fits(fwd[i]) /\ FilesIn(fwd[i]) # {})'
  <2>1. /\ i \in Used /\ i \in FwdIdx /\ UNCHANGED flash
        /\ fwd'[i].entries = fwd[i].entries
    BY <1>1 DEF Calm, Used
  <2> QED  BY <2>1, SameContent DEF UsedWhole
<1> QED  BY <1>1 DEF UsedWhole

\* and ends or begins a session without content.
LEMMA CalmKeepsTrial ==
    ASSUME UpgradeInv', Calm
    PROVE  TrialContent'
<1>1. ASSUME Late' PROVE session'.is_first
  <2>1. Chosen' /\ session'.state = "erase_fs2"
    BY <1>1 DEF Calm, Late, Early, Chosen
  <2> QED  BY <2>1 DEF UpgradeInv, LayoutInv, MapInv, RegionInv, Unprepared
<1> QED  BY <1>1 DEF TrialContent

\* Every step keeps the content.
LEMMA ContentNext ==
    ASSUME CarefulErase, WholeInv, [Next]_vars
    PROVE  ContentInv'
<1> USE DEF WholeInv
<1>1. CASE Next
  <2>1. packet' # NoPacket => packet'.from = upload_off'
    BY <1>1, OffsetNext DEF ContentInv
  <2>2. CASE LateTurn /\ OthersSame /\ (LateAction \/ OffsetReset)
    <3>1. UsedWhole'
      BY <2>2, TurnKeepsUsedWhole DEF OffsetReset
    <3>2. TrialContent'
      BY <2>2, OffsetResetKeepsTrial, EarlyTurnsKeepTrial, ReceiveDataKeepsTrial,
         ProcessConfigFileKeepsTrial, ConfigWithoutBufferKeepsTrial,
         OpenImageKeepsTrial, WriteImageKeepsTrial, WriteWithoutHandleKeepsTrial,
         PacketConsumedKeepsTrial, DuplicateFsKeepsTrial DEF LateAction
    <3> QED  BY <2>1, <3>1, <3>2 DEF ContentInv
  <2>3. CASE Finish
    <3>1. ~ Late'
      BY <2>3 DEF Finish, Late
    <3> QED  BY <2>1, <2>3, <3>1, FinishKeepsUsedWhole DEF ContentInv, TrialContent
  <2>4. CASE Calm
    <3>1. UpgradeInv'
      BY UpgradeNext
    <3> QED  BY <2>1, <2>4, <3>1, CalmKeepsUsedWhole, CalmKeepsTrial DEF ContentInv
  <2> QED  BY <1>1, <2>2, <2>3, <2>4, Steps
<1>2. CASE UNCHANGED vars
  <2>1. UNCHANGED <<fwd, flash, active, boot_type, session, packet, upload_off>>
    BY <1>2 DEF vars, tableVars
  <2>2. UsedWhole'
    <3>1. Used' = Used
      BY <2>1 DEF Used
    <3>2. ASSUME NEW i \in Used'
          PROVE  (Fits(fwd[i]) /\ FilesIn(fwd[i]) # {})'
      <4>1. i \in Used /\ i \in FwdIdx /\ fwd'[i].entries = fwd[i].entries
        BY <2>1, <3>1, <3>2 DEF Used
      <4> QED  BY <2>1, <4>1, SameContent DEF ContentInv, UsedWhole
    <3> QED  BY <3>2 DEF UsedWhole
  <2>3. UNCHANGED <<Late, TrialContent>>
    BY <2>1 DEF TrialContent, Late, Early, DoneContent, OpenContent, Stored,
                PlaceOf, Place, Parts, TrialRegion, FwdNum, TrialIdx, CurrentFwd,
                RankedFwds, Searched, Valid, SetEnd, FirstImageBlock, Partitions,
                Find, Found, UnitAt, RestErased, NextPos
  <2> QED  BY <2>1, <2>2, <2>3 DEF ContentInv
<1> QED  BY <1>1, <1>2

\* Cell k of factory image j.
LEMMA FactoryCell ==
    ASSUME NEW j \in 1 .. NImages, NEW k \in 0 .. Images[j].len - 1
    PROVE  LET p == FactoryEntries[Images[j].id]
           IN  /\ Inside(p) /\ Images[j].id \in ImageIds
               /\ p.start * BlockUnits + k \in Cells(p.start, p.size)
               /\ p.start * BlockUnits + k \in Cells(MaxFwd, MemBlocks - MaxFwd)
               /\ p.start \in Nat
<1> DEFINE p == FactoryEntries[Images[j].id]
<1>1. Images[j].id \in ImageIds /\ Inside(p)
  BY FactoryFacts DEF ImageIds
<1>2. Images[j].len <= p.size * BlockUnits /\ Images[j].len \in Nat
  BY ImagesTyped, FactoryAssumption
<1>3. /\ p.start \in Nat /\ p.size \in Nat /\ BlockUnits \in Nat
      /\ p.size * BlockUnits \in Nat
  <2>1. p.start \in Nat /\ p.size \in Nat /\ BlockUnits \in Nat
    BY <1>1, InsideFacts, FlashAssumption
  <2> QED  BY <2>1
<1>4. k \in 0 .. p.size * BlockUnits - 1 /\ k \in Nat
  BY <1>2, <1>3
<1>5. /\ p.start * BlockUnits + k \in Cells(p.start, p.size)
      /\ p.start * BlockUnits + k \in Cells(MaxFwd, MemBlocks - MaxFwd)
  BY <1>1, <1>4, CellFacts
<1> QED  BY <1>1, <1>3, <1>5

\* The factory's flash has each image at its place.
LEMMA FactoryStored ==
    ASSUME Init, NEW j \in Parts, NEW k \in 0 .. Images[j].len - 1
    PROVE  UnitAt(flash, FactoryEntries[Images[j].id], k)
             = <<Factory, Images[j].pos + k>>
<1> DEFINE p(i) == FactoryEntries[Images[i].id]
           a == p(j).start * BlockUnits + k
           From(x, id) == x - BlockUnits * Find(fwd[0], id).start
           Owners(x) == {i \in 1 .. NImages : From(x, Images[i].id)
                                              \in 0 .. Images[i].len - 1}
           At(id) == From(a, id)
           Of == Owners(a)
<1>1. /\ Inside(p(j)) /\ Images[j].id \in ImageIds /\ Images[j].id # FS1
      /\ a \in Cells(p(j).start, p(j).size)
      /\ a \in Cells(MaxFwd, MemBlocks - MaxFwd)
      /\ a \in Int /\ a - BlockUnits * p(j).start = k /\ j \in 1 .. NImages
  <2>1. j \in 1 .. NImages /\ Images[j].id # FS1 /\ k \in Int
    BY DEF Parts
  <2>2. /\ Inside(p(j)) /\ Images[j].id \in ImageIds /\ p(j).start \in Nat
        /\ a \in Cells(p(j).start, p(j).size)
        /\ a \in Cells(MaxFwd, MemBlocks - MaxFwd)
    BY <2>1, FactoryCell
  <2>3. a \in Int /\ a - BlockUnits * p(j).start = k
    <3> HIDE DEF p
    <3> QED  BY <2>1, <2>2, FlashAssumption
  <2> QED  BY <2>1, <2>2, <2>3
<1>2. fwd[0].entries = FactoryEntries /\ flash = FactoryFlash
  <2>1. \E r \in {GOLDEN, 1} : fwd = [i \in FwdIdx |->
                    IF i = 0
                    THEN [magic |-> TRUE, total |-> TRUE, rank |-> r,
                          status |-> "valid", entries |-> FactoryEntries]
                    ELSE ErasedFwd]
    BY DEF Init, TableInit
  <2> QED  BY <2>1, Indices DEF Init
<1>3. flash[a] = IF At(FS1) = 0 THEN FsData
                 ELSE IF Of = {} THEN ErasedCell
                 ELSE LET i == CHOOSE i \in Of : TRUE
                      IN  <<Factory, Images[i].pos + At(Images[i].id)>>
  <2> HIDE DEF a, From
  <2>1. flash = [x \in Cells(MaxFwd, MemBlocks - MaxFwd) |->
                   IF From(x, FS1) = 0 THEN FsData
                   ELSE IF Owners(x) = {} THEN ErasedCell
                   ELSE LET i == CHOOSE i \in Owners(x) : TRUE
                        IN  <<Factory, Images[i].pos + From(x, Images[i].id)>>]
    BY <1>2, Zenon DEF FactoryFlash, From
  <2> QED  BY <1>1, <2>1, Zenon
<1>8. \A id : At(id) = a - BlockUnits * FactoryEntries[id].start
  BY <1>2 DEF Find
<1>4. At(FS1) # 0
  <2> SUFFICES ASSUME At(FS1) = 0 PROVE FALSE
    OBVIOUS
  <2>1. Inside(PartA) /\ PartA.size # 0 /\ Beside(p(j), PartA)
    BY <1>1, FactoryFacts DEF PartA
  <2>2. PartA.start * BlockUnits + 0 \in Cells(PartA.start, PartA.size)
    BY <2>1, CellFacts
  <2>3. PartA.start \in Nat /\ BlockUnits \in Nat
    BY <2>1, InsideFacts, FlashAssumption
  <2>4. a = PartA.start * BlockUnits + 0
    <3>1. a - BlockUnits * PartA.start = 0
      BY <1>8 DEF PartA
    <3> HIDE DEF a
    <3> QED  BY <1>1, <2>3, <3>1
  <2> HIDE DEF a
  <2> QED  BY <1>1, <2>1, <2>2, <2>4, BesideCells
<1>5. Of = {j}
  <2>1. j \in Of
    BY <1>1, <1>8
  <2>2. ASSUME NEW i \in Of
        PROVE  i = j
    <3> DEFINE x == At(Images[i].id)
    <3>1. i \in 1 .. NImages /\ x \in 0 .. Images[i].len - 1
      OBVIOUS
    <3>2. /\ Inside(p(i)) /\ Images[i].id \in ImageIds
          /\ p(i).start * BlockUnits + x \in Cells(p(i).start, p(i).size)
      BY <3>1, FactoryCell
    <3>3. p(i).start \in Nat /\ BlockUnits \in Nat
      BY <3>2, InsideFacts, FlashAssumption
    <3>4. p(i).start * BlockUnits + x = a
      <4>1. x = a - BlockUnits * p(i).start
        BY <1>8
      <4> HIDE DEF a, x
      <4> QED  BY <1>1, <3>3, <4>1
    <3> HIDE DEF a
    <3>5. ~ Beside(p(j), p(i))
      BY <1>1, <3>2, <3>4, BesideCells
    <3>6. Images[i].id = Images[j].id
      BY <1>1, <3>2, <3>5, FactoryFacts
    <3> QED  BY <1>1, <3>1, <3>6, ImagesTyped, UpgradeAssumption
  <2> QED  BY <2>1, <2>2
<1>6. (CHOOSE i \in Of : TRUE) = j
  BY <1>5
<1>9. At(Images[j].id) = k
  BY <1>1, <1>8
<1> HIDE DEF a, At, Of
<1>7. flash[a] = <<Factory, Images[j].pos + k>>
  BY <1>3, <1>4, <1>5, <1>6, <1>9
<1> QED  BY <1>7 DEF UnitAt, a

\* The factory's images are whole.
LEMMA ContentInit == Init => ContentInv
<1> SUFFICES ASSUME Init PROVE ContentInv
  OBVIOUS
<1>1. /\ active = 0 /\ session = NoSession /\ packet = NoPacket
      /\ \E r \in {GOLDEN, 1} : fwd = [i \in FwdIdx |->
                    IF i = 0
                    THEN [magic |-> TRUE, total |-> TRUE, rank |-> r,
                          status |-> "valid", entries |-> FactoryEntries]
                    ELSE ErasedFwd]
  BY DEF Init, TableInit
<1>2. fwd[0].entries = FactoryEntries /\ \A i \in FwdIdx \ {0} : ~ Valid(fwd[i])
  BY <1>1, Indices DEF ErasedFwd, Valid
<1>3. Used \subseteq {0}
  BY <1>1, <1>2 DEF Used
<1>4. \A j \in Parts :
         /\ Found(fwd[0], Images[j].id)
         /\ Find(fwd[0], Images[j].id) = FactoryEntries[Images[j].id]
  <2>1. \A j \in Parts : Images[j].id \in ImageIds
    BY DEF Parts, ImageIds
  <2> QED  BY <1>2, <2>1, FactoryFacts DEF Found, Find
<1>5. Fits(fwd[0])
  BY <1>4, ImagesTyped, FactoryAssumption DEF Fits, Parts
<1>6. Holds(fwd[0], Factory)
  BY <1>4, FactoryStored, HoldsIsStored DEF Stored
<1>7. FilesIn(fwd[0]) # {}
  BY <1>6 DEF FilesIn, Files
<1> QED  BY <1>1, <1>3, <1>5, <1>7 DEF ContentInv, UsedWhole, TrialContent, Late

\* The image list: what it shows as confirmed and as pending.
LEMMA ListFacts ==
    ASSUME UpgradeInv
    PROVE  /\ \A i \in FwdIdx : Valid(fwd[i]) => i \in DOMAIN Listing
           /\ DOMAIN Listing \subseteq FwdIdx
           /\ \A i \in DOMAIN Listing :
                /\ Listing[i].pending <=> HasTrial /\ i = TrialIdx
                /\ Listing[i].permanent <=>
                     ~ (HasTrial /\ i = TrialIdx) /\ Golden /\ i = 0
                /\ Listing[i].confirmed <=>
                     /\ ~ (HasTrial /\ i = TrialIdx)
                     /\ i = CurrentFwd \/ (Golden /\ i = 0)
                /\ Listing[i].permanent \in BOOLEAN
<1>1. Descriptors /\ Confirmed /\ FwdIdx = 0 .. 2
  BY DEF UpgradeInv, FallbackInv, FwdIdx, MaxFwd
<1>2. /\ Golden => FwdNum = 3
      /\ ~ Golden => FwdNum = 2 /\ ~ Valid(fwd[2])
  BY <1>1, SearchedWhich DEF UpgradeInv, TableInv
<1>3. DOMAIN Listing = {j \in 0 .. FwdNum - 1 : Valid(fwd[j])}
  BY DEF Listing
<1>4. \A i \in FwdIdx : Valid(fwd[i]) => i \in DOMAIN Listing
  <2> SUFFICES ASSUME NEW i \in FwdIdx, Valid(fwd[i])
               PROVE  i \in 0 .. FwdNum - 1
    BY <1>3
  <2> QED  BY <1>1, <1>2
<1>5. DOMAIN Listing \subseteq FwdIdx
  BY <1>1, <1>2, <1>3
<1>6. ASSUME NEW i \in DOMAIN Listing
      PROVE  /\ Listing[i].pending <=> HasTrial /\ i = TrialIdx
             /\ Listing[i].permanent <=>
                  ~ (HasTrial /\ i = TrialIdx) /\ Golden /\ i = 0
             /\ Listing[i].confirmed <=>
                  /\ ~ (HasTrial /\ i = TrialIdx)
                  /\ i = CurrentFwd \/ (Golden /\ i = 0)
             /\ Listing[i].permanent \in BOOLEAN
  <2> DEFINE pending == IF HasTrial THEN {TrialFwd} ELSE {}
             golden == fwd[i].rank = GOLDEN
  <2>1. Listing[i] = [pending   |-> i \in pending,
                      confirmed |-> i \notin pending /\ (i = CurrentFwd \/ golden),
                      permanent |-> i \notin pending /\ golden,
                      active    |-> i = active]
    BY <1>3 DEF Listing
  <2>2. i \in pending <=> HasTrial /\ i = TrialIdx
    BY <1>1, ValidOnes DEF UpgradeInv
  <2>3. golden <=> Golden /\ i = 0
    <3>1. i \in {0, 1, 2}
      BY <1>5, Indices
    <3> QED  BY <3>1 DEF UpgradeInv, FieldInv, Golden
  <2> HIDE DEF pending, golden
  <2>4. /\ Listing[i].pending = (i \in pending)
        /\ Listing[i].confirmed
             = (i \notin pending /\ (i = CurrentFwd \/ golden))
        /\ Listing[i].permanent = (i \notin pending /\ golden)
    BY <2>1
  <2> QED  BY <2>2, <2>3, <2>4, Zenon
<1> QED  BY <1>4, <1>5, <1>6

\* The invariant implies that what may boot is whole.
LEMMA WholeInvImplies == WholeInv => BootableIsWhole
<1> SUFFICES ASSUME WholeInv PROVE BootableIsWhole
  OBVIOUS
<1> USE DEF WholeInv
<1> DEFINE list == Listing
           confirmed == {i \in DOMAIN list : list[i].confirmed}
<1>1. ASSUME NEW i \in FwdIdx, Valid(fwd[i])
      PROVE  /\ Found(fwd[i], FS1) /\ Found(fwd[i], FS2)
             /\ FileIn[i] # NoFile
             /\ i \in DOMAIN list
  <2>1. i \in Used
    BY <1>1 DEF Used
  <2>2. FsPair(fwd[i])
    BY <2>1 DEF UpgradeInv, LayoutInv, MapInv, UsedFsInv
  <2>3. FilesIn(fwd[i]) # {}
    BY <2>1 DEF ContentInv, UsedWhole
  <2>4. FileIn[i] \in Files
    BY <2>3 DEF FileIn, FilesIn
  <2> QED  BY <1>1, <2>2, <2>4, ListFacts, UpgradeAssumption DEF FsPair
<1>2. Descriptors /\ Confirmed /\ TableInv
  BY DEF UpgradeInv, FallbackInv
<1>3. confirmed # {}
  <2>1. CurrentFwd \in FwdIdx /\ Valid(fwd[CurrentFwd]) /\ TrialIdx # CurrentFwd
    BY <1>2, Choices
  <2>2. CurrentFwd \in DOMAIN list
    BY <2>1, ListFacts
  <2>3. list[CurrentFwd].confirmed
    BY <2>1, <2>2, ListFacts
  <2> QED  BY <2>2, <2>3
<1>4. ASSUME NEW i \in confirmed, NEW j \in confirmed, i # j
      PROVE  list[i].permanent # list[j].permanent
  <2>1. /\ list[i].permanent <=> Golden /\ i = 0
        /\ list[j].permanent <=> Golden /\ j = 0
        /\ i = CurrentFwd \/ (Golden /\ i = 0)
        /\ j = CurrentFwd \/ (Golden /\ j = 0)
        /\ list[i].permanent \in BOOLEAN /\ list[j].permanent \in BOOLEAN
    BY <1>4, ListFacts
  <2> QED  BY <1>4, <2>1
<1>5. ASSUME NEW i \in DOMAIN list, NEW j \in DOMAIN list,
             list[i].pending, list[j].pending
      PROVE  i = j
  BY <1>5, ListFacts
<1> QED  BY <1>1, <1>3, <1>4, <1>5 DEF BootableIsWhole

\* Whatever was sent, failed or was cut off, a descriptor the boot loader
\* accepts has both file systems and the images of one file, whole, and the
\* image list shows it; beside at most one slot that waits for its trial there
\* is a confirmed one, and of two confirmed exactly one is permanent
\* (fw_upgrade_session_process, qcom_img_mgmt_state_read).
THEOREM BootableIsWholeHolds ==
    ASSUME CarefulErase
    PROVE  Spec => []BootableIsWhole
<1>1. WholeInv /\ [Next]_vars => WholeInv'
  BY UpgradeNext, ContentNext DEF WholeInv
<1>2. Init => WholeInv
  BY UpgradeInit, ContentInit DEF WholeInv
<1> QED  BY <1>1, <1>2, WholeInvImplies, PTL DEF Spec

-----------------------------------------------------------------------------
(* The refinement of FwStore *)

ConfirmedFile == FileIn[CurrentFwd]

StagedFile == IF HasTrial THEN FileIn[TrialFwd] ELSE NoFile

RunningFile == FileIn[active]

\* What is in use holds a file.
LEMMA FileOfUsed ==
    ASSUME WholeInv, NEW i \in Used
    PROVE  i \in FwdIdx /\ FileIn[i] \in Files /\ FileIn[i] # NoFile
<1>1. i \in FwdIdx /\ FilesIn(fwd[i]) # {}
  BY DEF Used, WholeInv, ContentInv, UsedWhole
<1>2. FileIn[i] \in FilesIn(fwd[i])
  BY <1>1 DEF FileIn
<1> QED  BY <1>1, <1>2, UpgradeAssumption DEF FilesIn

\* Which firmwares are in use.
LEMMA UsedFacts ==
    ASSUME WholeInv
    PROVE  /\ CurrentFwd \in Used /\ active \in Used
           /\ HasTrial => TrialFwds = {TrialIdx} /\ TrialFwd = TrialIdx
                          /\ TrialIdx \in Used /\ TrialIdx \in FwdIdx
           /\ TrialIdx # CurrentFwd
           /\ ~ HasTrial <=> TrialFwds = {}
<1>1. Descriptors /\ Confirmed /\ TableInv
  BY DEF WholeInv, UpgradeInv, FallbackInv
<1>2. HasTrial => TrialIdx \in Used
  BY <1>1, ValidOnes, Choices DEF TrialFwds, Used
<1>3. CurrentFwd \in Used /\ active \in Used
  BY <1>1, Choices, KeptIsUsed DEF Kept, WholeInv, UpgradeInv
<1> QED  BY <1>1, <1>2, <1>3, ValidOnes, Choices DEF HasTrial

\* So does the trial, before a step
LEMMA StagedIsFile == WholeInv => (HasTrial => StagedFile \in Files)
BY UsedFacts, FileOfUsed DEF StagedFile

\* and after it.
LEMMA StagedIsFileNext ==
    ASSUME WholeInv'
    PROVE  (HasTrial => StagedFile \in Files)'
BY StagedIsFile, PTL

\* The file of a descriptor is read off its entries and the flash.
LEMMA FileStays ==
    ASSUME NEW i \in FwdIdx, FilesIn(fwd[i])' = FilesIn(fwd[i])
    PROVE  FileIn'[i] = FileIn[i]
<1> DEFINE S == FilesIn(fwd[i])
<1>1. FileIn[i] = IF S = {} THEN NoFile ELSE CHOOSE v \in S : TRUE
  BY DEF FileIn
<1>2. FileIn'[i] = IF S' = {} THEN NoFile ELSE CHOOSE v \in S' : TRUE
  BY DEF FileIn
<1>3. S' = S
  OBVIOUS
<1> HIDE DEF S
<1> QED  BY <1>1, <1>2, <1>3

\* Descriptors whose entries stay hold the same file while the flash stays.
LEMMA SameFiles ==
    ASSUME UNCHANGED flash, NEW I, I \subseteq FwdIdx,
           \A i \in I : fwd'[i].entries = fwd[i].entries
    PROVE  \A i \in I : FileIn'[i] = FileIn[i]
<1> SUFFICES ASSUME NEW i \in I
             PROVE  FileIn'[i] = FileIn[i]
  OBVIOUS
<1>1. i \in FwdIdx /\ fwd'[i].entries = fwd[i].entries
  OBVIOUS
<1>2. FilesIn(fwd[i])' = FilesIn(fwd[i])
  BY <1>1, SameContent
<1> QED  BY <1>1, <1>2, FileStays

\* What a step does to the store.
StoreStays ==
    /\ ConfirmedFile' = ConfirmedFile
    /\ StagedFile' = StagedFile
    /\ RunningFile' = RunningFile

StorePublishes ==
    /\ StagedFile = NoFile /\ StagedFile' \in Files
    /\ ConfirmedFile' = ConfirmedFile /\ RunningFile' = RunningFile

StoreWithdraws ==
    /\ StagedFile # NoFile /\ StagedFile' = NoFile
    /\ ConfirmedFile' = ConfirmedFile /\ RunningFile' = RunningFile

StoreConfirms ==
    /\ StagedFile # NoFile /\ StagedFile' = NoFile
    /\ ConfirmedFile' = StagedFile /\ RunningFile' = RunningFile

StoreResets ==
    /\ RunningFile' \in {ConfirmedFile, StagedFile} \ {NoFile}
    /\ ConfirmedFile' = ConfirmedFile /\ StagedFile' = StagedFile

\* The searches find what they found, and it holds what it held.
LEMMA SearchesStay ==
    ASSUME UNCHANGED <<CurrentFwd, TrialFwds, active>>,
           FileIn'[CurrentFwd] = FileIn[CurrentFwd],
           FileIn'[active] = FileIn[active],
           HasTrial => FileIn'[TrialFwd] = FileIn[TrialFwd]
    PROVE  StoreStays
<1>1. HasTrial' = HasTrial /\ TrialFwd' = TrialFwd
  BY DEF HasTrial, TrialFwd
<1> QED  BY <1>1 DEF StoreStays, ConfirmedFile, StagedFile, RunningFile

\* The trial is gone, the others are as they were.
LEMMA TrialGone ==
    ASSUME WholeInv, UNCHANGED <<CurrentFwd, active>>, TrialFwds' = {},
           FileIn'[CurrentFwd] = FileIn[CurrentFwd],
           FileIn'[active] = FileIn[active]
    PROVE  StoreStays \/ StoreWithdraws
<1>1. ~ HasTrial'
  BY DEF HasTrial
<1>2. StagedFile' = NoFile
  BY <1>1 DEF StagedFile
<1>3. HasTrial => StagedFile # NoFile
  BY UsedFacts, FileOfUsed DEF StagedFile
<1>4. ~ HasTrial => StagedFile = NoFile
  BY DEF StagedFile
<1> QED  BY <1>2, <1>3, <1>4 DEF StoreStays, StoreWithdraws, ConfirmedFile, RunningFile

\* A step that changes no flash does nothing to the store,
LEMMA StillStays ==
    ASSUME WholeInv, UNCHANGED <<fwd, flash, active>>
    PROVE  StoreStays
<1>1. UNCHANGED <<CurrentFwd, TrialFwds>>
  BY DEF CurrentFwd, RankedFwds, TrialFwds, Searched, FwdNum, Valid
<1>2. \A i \in FwdIdx : FileIn'[i] = FileIn[i]
  BY SameFiles
<1> QED  BY <1>1, <1>2, UsedFacts, FileOfUsed, SearchesStay

\* nor does a turn of an upload.
LEMMA TurnStays ==
    ASSUME WholeInv, LateTurn, OthersSame, LateAction \/ OffsetReset
    PROVE  StoreStays
<1>1. UNCHANGED <<CurrentFwd, TrialFwds, active>> /\ ~ HasTrial
  BY PlacesStay, LateTable DEF WholeInv, UpgradeInv
<1>2. ASSUME NEW i \in Used
      PROVE  FileIn'[i] = FileIn[i]
  <2>1. \A v : Holds(fwd[i], v)' <=> Holds(fwd[i], v)
    BY TurnKeepsFiles DEF OffsetReset
  <2>2. FilesIn(fwd[i])' = FilesIn(fwd[i])
    BY <2>1 DEF FilesIn
  <2>3. i \in FwdIdx
    BY DEF Used
  <2> QED  BY <2>2, <2>3, FileStays
<1> QED  BY <1>1, <1>2, UsedFacts, SearchesStay

\* A session's end publishes its file or nothing.
LEMMA FinishPublishes ==
    ASSUME WholeInv, WholeInv', Finish
    PROVE  StoreStays \/ StorePublishes
<1>1. /\ Late /\ session.trial \in FwdIdx /\ UNCHANGED <<flash, active>>
      /\ CurrentFwd' = CurrentFwd
      /\ TrialFwds' \in {{session.trial}, {}}
      /\ \A i \in FwdIdx : fwd'[i].entries = fwd[i].entries
  BY FinishStarts, FinishSearches DEF WholeInv, UpgradeInv
<1>2. TrialFwds = {} /\ ~ HasTrial
  BY <1>1, LateTable DEF WholeInv, UpgradeInv
<1>3. \A i \in FwdIdx : FileIn'[i] = FileIn[i]
  BY <1>1, SameFiles
<1>4. CurrentFwd \in FwdIdx /\ active \in FwdIdx
  BY UsedFacts, FileOfUsed
<1>5. CASE TrialFwds' = {}
  BY <1>1, <1>2, <1>3, <1>4, <1>5, SearchesStay
<1>6. CASE TrialFwds' # {}
  <2>1. HasTrial'
    BY <1>6 DEF HasTrial
  <2>3. StagedFile' \in Files
    BY <2>1, StagedIsFileNext
  <2>4. StagedFile = NoFile
    BY <1>2 DEF StagedFile
  <2> QED  BY <1>1, <1>3, <1>4, <2>3, <2>4 DEF StorePublishes, ConfirmedFile, RunningFile
<1> QED  BY <1>5, <1>6

\* A descriptor that neither runs nor is current is erased: the trial's, or
\* one that holds nothing that counts.
LEMMA ErasureWithdraws ==
    ASSUME WholeInv, NEW t \in FwdIdx, EraseFwd(t), t # CurrentFwd, t # active,
           Golden => t # 0, UNCHANGED <<flash, active>>
    PROVE  StoreStays \/ StoreWithdraws
<1>1. Descriptors /\ Confirmed
  BY DEF WholeInv, UpgradeInv, FallbackInv
<1>2. /\ TrialFwds' = TrialFwds \ {t} /\ CurrentFwd' = CurrentFwd
      /\ \A i \in FwdIdx \ {t} : fwd'[i] = fwd[i]
  BY <1>1, EraseSearches
<1>3. \A i \in FwdIdx \ {t} : FileIn'[i] = FileIn[i]
  <2>1. \A i \in FwdIdx \ {t} : fwd'[i].entries = fwd[i].entries
    BY <1>2
  <2>2. FwdIdx \ {t} \subseteq FwdIdx
    OBVIOUS
  <2> QED  BY <2>1, <2>2, SameFiles
<1>4. CurrentFwd \in FwdIdx \ {t} /\ active \in FwdIdx \ {t}
  BY UsedFacts, FileOfUsed
<1>5. TrialFwds = {} \/ (TrialFwds = {TrialIdx} /\ TrialFwd = TrialIdx
                         /\ TrialIdx \in FwdIdx)
  BY UsedFacts
<1>6. CASE t \in TrialFwds \/ TrialFwds = {}
  <2>1. TrialFwds' = {}
    BY <1>2, <1>5, <1>6
  <2> QED  BY <1>2, <1>3, <1>4, <2>1, TrialGone
<1>7. CASE t \notin TrialFwds /\ TrialFwds # {}
  <2>1. TrialFwds' = TrialFwds /\ TrialFwd \in FwdIdx \ {t}
    BY <1>2, <1>5, <1>7
  <2> QED  BY <1>2, <1>3, <1>4, <2>1, SearchesStay
<1> QED  BY <1>6, <1>7

\* An acceptance confirms the trial or nothing.
LEMMA AcceptConfirms ==
    ASSUME WholeInv, Accept
    PROVE  StoreStays \/ StoreConfirms
<1>1. /\ HasTrial /\ TrialFwd = TrialIdx /\ UNCHANGED <<flash, active>>
      /\ \/ UNCHANGED fwd
         \/ /\ TrialFwds' = {} /\ CurrentFwd' = TrialIdx
            /\ \A i \in FwdIdx : fwd'[i].entries = fwd[i].entries
  BY AcceptSearches DEF WholeInv, UpgradeInv
<1>2. CASE UNCHANGED fwd
  BY <1>1, <1>2, StillStays
<1>3. CASE /\ TrialFwds' = {} /\ CurrentFwd' = TrialIdx
           /\ \A i \in FwdIdx : fwd'[i].entries = fwd[i].entries
  <2>1. \A i \in FwdIdx : FileIn'[i] = FileIn[i]
    BY <1>1, <1>3, SameFiles
  <2>2. TrialIdx \in Used /\ TrialIdx \in FwdIdx /\ active \in FwdIdx
    BY <1>1, UsedFacts, FileOfUsed
  <2>3. StagedFile = FileIn[TrialIdx] /\ StagedFile # NoFile
    BY <1>1, <2>2, FileOfUsed DEF StagedFile
  <2>4. StagedFile' = NoFile
    BY <1>3 DEF StagedFile, HasTrial
  <2>5. ConfirmedFile' = FileIn'[TrialIdx] /\ RunningFile' = FileIn'[active]
    BY <1>1, <1>3 DEF ConfirmedFile, RunningFile
  <2> QED  BY <2>1, <2>2, <2>3, <2>4, <2>5 DEF StoreConfirms, RunningFile
<1> QED  BY <1>1, <1>2, <1>3

\* A rejection withdraws the trial or nothing.
LEMMA RejectWithdraws ==
    ASSUME WholeInv, Reject
    PROVE  StoreStays \/ StoreWithdraws
<1>1. /\ UNCHANGED <<flash, active>>
      /\ \/ UNCHANGED fwd
         \/ /\ TrialFwds' = {} /\ CurrentFwd' = CurrentFwd
            /\ \A i \in FwdIdx : fwd'[i].entries = fwd[i].entries
  BY RejectSearches DEF WholeInv, UpgradeInv
<1>2. CASE UNCHANGED fwd
  BY <1>1, <1>2, StillStays
<1>3. CASE /\ TrialFwds' = {} /\ CurrentFwd' = CurrentFwd
           /\ \A i \in FwdIdx : fwd'[i].entries = fwd[i].entries
  <2>1. \A i \in FwdIdx : FileIn'[i] = FileIn[i]
    BY <1>1, <1>3, SameFiles
  <2>2. CurrentFwd \in FwdIdx /\ active \in FwdIdx
    BY UsedFacts, FileOfUsed
  <2> QED  BY <1>1, <1>3, <2>1, <2>2, TrialGone
<1> QED  BY <1>1, <1>2, <1>3

\* A reset is the store's reset.
LEMMA RestartResets ==
    ASSUME WholeInv, Restart
    PROVE  StoreResets
<1>1. /\ UNCHANGED <<fwd, flash>>
      /\ active' \in TrialFwds \cup {CurrentFwd}
  BY RestartStarts DEF WholeInv, UpgradeInv
<1>2. UNCHANGED <<CurrentFwd, TrialFwds, HasTrial, TrialFwd>>
  BY <1>1 DEF CurrentFwd, RankedFwds, TrialFwds, Searched, FwdNum, Valid, HasTrial,
              TrialFwd
<1>3. \A i \in FwdIdx : FileIn'[i] = FileIn[i]
  BY <1>1, SameFiles
<1>4. CurrentFwd \in Used /\ HasTrial => TrialFwd \in Used
  BY UsedFacts
<1>5. ConfirmedFile' = ConfirmedFile /\ StagedFile' = StagedFile
  BY <1>2, <1>3, <1>4, UsedFacts, FileOfUsed DEF ConfirmedFile, StagedFile
<1>6. RunningFile' = FileIn[active'] /\ active' \in Used
  <2>1. active' \in Used
    BY <1>1, UsedFacts DEF HasTrial
  <2> QED  BY <1>3, <2>1, FileOfUsed DEF RunningFile
<1>7. RunningFile' \in {ConfirmedFile, StagedFile}
  <2>1. CASE active' = CurrentFwd
    BY <1>6, <2>1 DEF ConfirmedFile
  <2>2. CASE active' \in TrialFwds
    <3>1. HasTrial /\ active' = TrialFwd
      BY <2>2, UsedFacts DEF HasTrial
    <3> QED  BY <1>6, <3>1 DEF StagedFile
  <2> QED  BY <1>1, <2>1, <2>2
<1> QED  BY <1>5, <1>6, <1>7, FileOfUsed DEF StoreResets

\* Every step of an upload is a step of the store, or none.
LEMMA StoreNext ==
    ASSUME CarefulErase, WholeInv, WholeInv', [Next]_vars
    PROVE  \/ StoreStays \/ StorePublishes \/ StoreWithdraws
           \/ StoreConfirms \/ StoreResets
<1>1. CASE UNCHANGED vars
  BY <1>1, StillStays DEF vars, tableVars
<1>2. CASE UploadInitFails \/ GetTrialInfo
  BY <1>2, StillStays DEF UploadInitFails, GetTrialInfo, tableVars
<1>3. ASSUME NEW v \in Version, NEW off \in 0 .. FileLen - 1, NEW n \in PacketLen,
             Upload(v, off, n)
      PROVE  StoreStays
  BY <1>3, StillStays DEF Upload, tableVars
<1>4. CASE EraseTrialFwd
  <2>1. /\ session.trial \in FwdIdx \ {active} /\ session.trial # CurrentFwd
        /\ Golden => session.trial # 0
        /\ UNCHANGED <<active, flash>>
    BY <1>4, ErasureStarts DEF WholeInv, UpgradeInv, EraseTrialFwd
  <2>2. UNCHANGED fwd \/ EraseFwd(session.trial)
    BY <1>4 DEF EraseTrialFwd
  <2> QED  BY <2>1, <2>2, StillStays, ErasureWithdraws
<1>5. CASE LateAction
  <2>1. Process
    BY <1>5 DEF LateAction, Process
  <2>2. LateTurn /\ OthersSame
    BY <1>5, <2>1, LateActions, TurnEditsTrial
       DEF OthersSame, WholeInv, UpgradeInv
  <2> QED  BY <1>5, <2>2, TurnStays
<1>6. CASE Finish
  BY <1>6, FinishPublishes
<1>7. CASE Accept
  BY <1>7, AcceptConfirms
<1>8. CASE Reject
  BY <1>8, RejectWithdraws
<1>9. CASE EraseSlot
  <2>1. /\ EraseFwd(1) /\ 1 \in FwdIdx /\ 1 # CurrentFwd /\ 1 # active
        /\ UNCHANGED <<flash, active>> /\ 1 # 0
    BY <1>9, EraseSlotStarts DEF WholeInv, UpgradeInv
  <2> QED  BY <2>1, ErasureWithdraws
<1>10. CASE Restart
  BY <1>10, RestartResets
<1>11. Process => GetTrialInfo \/ EraseTrialFwd \/ LateAction \/ Finish
  BY DEF Process, LateAction
<1> QED  BY <1>1, <1>2, <1>3, <1>4, <1>5, <1>6, <1>7, <1>8, <1>9, <1>10, <1>11 DEF Next

\* The factory's store is the initial store.
LEMMA StoreInit == Init => Store!Init
<1> SUFFICES ASSUME Init PROVE Store!Init
  OBVIOUS
<1>1. /\ active = 0
      /\ \E r \in {GOLDEN, 1} : fwd = [i \in FwdIdx |->
                    IF i = 0
                    THEN [magic |-> TRUE, total |-> TRUE, rank |-> r,
                          status |-> "valid", entries |-> FactoryEntries]
                    ELSE ErasedFwd]
  BY DEF Init, TableInit
<1>2. /\ fwd[0].rank # TRIAL
      /\ \A i \in FwdIdx \ {0} : ~ Valid(fwd[i])
  BY <1>1, Indices DEF ErasedFwd, Valid, GOLDEN, TRIAL
<1>3. WholeInv
  BY UpgradeInit, ContentInit DEF WholeInv
<1>4. CurrentFwd = 0
  <2>1. CurrentFwd \in FwdIdx /\ Valid(fwd[CurrentFwd])
    BY <1>3, Choices DEF WholeInv, UpgradeInv, FallbackInv
  <2> QED  BY <1>2, <2>1
<1>5. ~ HasTrial
  BY <1>2, Indices DEF HasTrial, TrialFwds, Searched
<1>6. FileIn[CurrentFwd] \in Files
  BY <1>3, UsedFacts, FileOfUsed
<1> QED  BY <1>1, <1>4, <1>5, <1>6 DEF Store!Init

\* An upload is a Publish or nothing, an acceptance a Confirm, a rejection or
\* an erasure a Withdraw, and a reset takes the confirmed or the staged
\* firmware: no packet, failure or power loss changes what the firmwares in
\* use hold (fw_upgrade_session_process, fw_upgrade_session_done).
THEOREM ImplementsStoreHolds ==
    ASSUME CarefulErase
    PROVE  Spec => ImplementsStore
<1>1. WholeInv /\ [Next]_vars => WholeInv'
  BY UpgradeNext, ContentNext DEF WholeInv
<1>2. Init => WholeInv
  BY UpgradeInit, ContentInit DEF WholeInv
<1>3. WholeInv /\ WholeInv' /\ [Next]_vars => [Store!Next]_(Store!storeVars)
  <2> SUFFICES ASSUME WholeInv, WholeInv', [Next]_vars
               PROVE  [Store!Next]_(Store!storeVars)
    OBVIOUS
  <2>1. StoreStays => UNCHANGED Store!storeVars
    BY DEF StoreStays, Store!storeVars, ConfirmedFile, StagedFile, RunningFile
  <2>2. StorePublishes => Store!Publish
    BY DEF StorePublishes, Store!Publish, ConfirmedFile, StagedFile, RunningFile
  <2>3. StoreWithdraws => Store!Withdraw
    BY DEF StoreWithdraws, Store!Withdraw, ConfirmedFile, StagedFile, RunningFile
  <2>4. StoreConfirms => Store!Confirm
    BY DEF StoreConfirms, Store!Confirm, ConfirmedFile, StagedFile, RunningFile
  <2>5. StoreResets => Store!Reset
    BY DEF StoreResets, Store!Reset, ConfirmedFile, StagedFile, RunningFile
  <2> QED  BY <2>1, <2>2, <2>3, <2>4, <2>5, StoreNext DEF Store!Next
<1> QED  BY <1>1, <1>2, <1>3, StoreInit, PTL DEF Spec, ImplementsStore, Store!Spec
===============================================================================
