------------------------------ MODULE FwUpgrade ------------------------------
(***************************************************************************)
(* A firmware upload: the offset bookkeeping of the MCUmgr image group     *)
(* (qcom_img_mgmt.c) and the session that consumes the packets             *)
(* (fw_upgrade.c), in the all-in-one format, over the descriptor table.    *)
(*                                                                         *)
(* A file is a header of HeaderLen units followed by the images.  Packets  *)
(* come in any order, any number of times, from any file, cut anywhere.    *)
(* One action is one turn of the session's loop; any flash operation may   *)
(* fail, any allocation of a new session too, and power may go at any      *)
(* time.                                                                   *)
(***************************************************************************)
EXTENDS FwTable

CONSTANTS
    Version,        \* files a client may send
    Factory,        \* the file the factory programmed
    HeaderLen,      \* units of the image set header
    Images,         \* the images of a file in order: [id, pos, len, disk]
    PacketLen,      \* lengths a packet may have, in units
    CarefulErase    \* the operator erases descriptor 1 only when it is not in
                    \* use and no upload has begun

NImages == Len(Images)
ImageIds == {Images[j].id : j \in 1 .. NImages}
NoFile == -9     \* a header of no file, or not received yet
Files == Version \cup {Factory}

\* A file fits its own header: the images follow one another, each is shorter
\* than its blocks and has an id of its own, one is a file system.
ASSUME UpgradeAssumption ==
    /\ MemBlocks < SizeLimit
    /\ Factory \notin Version
    /\ NoFile \notin Files
    /\ HeaderLen \in Nat \ {0}
    /\ PacketLen \subseteq Nat \ {0}
    /\ Images \in Seq([id : Nat, pos : Nat, len : Nat, disk : Nat \ {0}])
    /\ NImages > 0
    /\ \A j \in DOMAIN Images :
         /\ Images[j].len <= Images[j].disk * BlockUnits
         /\ Images[j].pos = IF j = 1 THEN HeaderLen
                            ELSE Images[j - 1].pos + Images[j - 1].len
         /\ \A k \in DOMAIN Images : Images[k].id = Images[j].id => k = j
    /\ FS1 \in ImageIds /\ FS2 \notin ImageIds
    /\ CarefulErase \in BOOLEAN

\* The factory programs the images and a second file system as large as the
\* first, side by side, where they leave room for another set.
ASSUME FactoryAssumption ==
    LET p == FactoryEntries
        first == Largest({PartEnd(p[FS1]), PartEnd(p[FS2])})
    IN  /\ p \in [ImageIds \cup {FS2} -> [start : Nat, size : Nat \ {0}]]
        /\ \A id \in DOMAIN p : MaxFwd <= p[id].start
        /\ \A id \in DOMAIN p :
             PartEnd(p[id]) <= first + 2 * Half(MemBlocks, first)
        /\ \A i, j \in DOMAIN p :
             \/ i = j
             \/ PartEnd(p[i]) <= p[j].start
             \/ PartEnd(p[j]) <= p[i].start
        /\ p[FS1].size = p[FS2].size
        /\ \A j \in DOMAIN Images :
             Images[j].len <= p[Images[j].id].size * BlockUnits

VARIABLES
    upload_off, \* upload_ctx.offset: what the image group expects next
    session,    \* fw_upgrade_sess_cxt, or NoSession
    packet      \* the packet being processed, or NoPacket

vars == <<tableVars, upload_off, session, packet>>

FileLen == Images[NImages].pos + Images[NImages].len

NoSession == [state |-> "none"]
NoPacket == [len |-> 0]
FsData == <<-3, 0>>   \* what the application keeps in its file system

NewSession ==
    [state |-> "get_trial", is_first |-> TRUE,
     buf_len |-> 0, buf_offset |-> 0,
     config_len |-> 0, config_of |-> NoFile,
     trial |-> 0, mem_start |-> 0, mem_size |-> 0, part |-> NoPart,
     index |-> 1, wrt_count |-> 0, wrt_length |-> 0, digest |-> TRUE]

\* The factory's images and the data of its first file system.
FactoryFlash ==
    LET At(a, id) == a - BlockUnits * Find(fwd[0], id).start
        Of(a) == {j \in 1 .. NImages : At(a, Images[j].id)
                                         \in 0 .. Images[j].len - 1}
    IN  [a \in Cells(MaxFwd, MemBlocks - MaxFwd) |->
            IF At(a, FS1) = 0 THEN FsData
            ELSE IF Of(a) = {} THEN ErasedCell
            ELSE LET j == CHOOSE j \in Of(a) : TRUE
                 IN  <<Factory, Images[j].pos + At(a, Images[j].id)>>]

Init ==
    /\ TableInit
    /\ flash = FactoryFlash
    /\ upload_off = 0
    /\ session = NoSession
    /\ packet = NoPacket

-----------------------------------------------------------------------------
(* The image group *)

\* A packet whose end is already known, or whose beginning is not, only gets
\* the expected offset back.  Of any other the unknown part goes to the
\* session; offset 0 starts a new one, whatever the old one was doing.
Upload(v, off, n) ==
    LET from == IF off = 0 THEN 0 ELSE upload_off
    IN  /\ packet = NoPacket
        /\ off <= from
        /\ from < off + n
        /\ off + n <= FileLen
        /\ upload_off' = from
        /\ \/ /\ off = 0
              /\ session' = NewSession
           \/ /\ off # 0
              /\ session # NoSession
              /\ session' = [session EXCEPT !.buf_offset = 0]
        /\ packet' = [of |-> v, from |-> from, len |-> off + n - from,
                      received |-> FALSE]
        /\ UNCHANGED tableVars

\* A first packet for which no session can be allocated leaves none behind.
UploadInitFails ==
    /\ packet = NoPacket
    /\ upload_off' = 0
    /\ session' = NoSession
    /\ UNCHANGED <<tableVars, packet>>

\* The reply: on success the offset moves past the packet.
Reply(ok) ==
    /\ packet' = NoPacket
    /\ upload_off' = IF ok THEN packet.from + packet.len ELSE upload_off

Processing(state) ==
    /\ packet # NoPacket
    /\ session.state = state

\* Unit k of the packet; past its end is whatever follows in memory.
PacketUnit(k) ==
    IF k < packet.len THEN <<packet.of, packet.from + k>> ELSE Spoilt

-----------------------------------------------------------------------------
(* The session: preparing the trial descriptor *)

Fail(s) ==
    /\ session' = s
    /\ Reply(FALSE)

Continue(s) ==
    /\ session' = s
    /\ UNCHANGED <<packet, upload_off>>

\* Mutant: the firmware that runs is not looked at.
GetTrialInfoUnchecked ==
    /\ Processing("get_trial")
    /\ IF CanSelect
       THEN Continue([session EXCEPT !.state = "erase_fwd",
                                     !.trial = TrialIdx,
                                     !.mem_start = TrialRegion.start,
                                     !.mem_size = TrialRegion.size])
       ELSE Fail(session)
    /\ UNCHANGED tableVars

\* A trial that is running is not overwritten.
GetTrialInfo ==
    /\ Processing("get_trial")
    /\ IF CanSelect /\ TrialIdx # active
       THEN Continue([session EXCEPT !.state = "erase_fwd",
                                     !.trial = TrialIdx,
                                     !.mem_start = TrialRegion.start,
                                     !.mem_size = TrialRegion.size])
       ELSE Fail(session)
    /\ UNCHANGED tableVars

EraseTrialFwd ==
    /\ Processing("erase_fwd")
    /\ \/ /\ EraseFwd(session.trial)
          /\ Continue([session EXCEPT !.state = "erase_fs2"])
       \/ /\ EraseFwd(session.trial) \/ UNCHANGED fwd
          /\ Fail(session)
    /\ UNCHANGED <<flash, active, boot_type>>

\* The second file system of the running firmware becomes the trial's first.
EraseSecondFs ==
    /\ Processing("erase_fs2")
    /\ IF Found(fwd[active], FS2)
       THEN LET fs2 == Find(fwd[active], FS2)
            IN  \/ /\ flash' = Erased(flash, fs2.start, fs2.size)
                   /\ Continue([session EXCEPT !.state = "prepare_fs"])
                \/ /\ flash' \in {flash, Erased(flash, fs2.start, fs2.size)}
                   /\ Fail([session EXCEPT !.part = fs2])
       ELSE UNCHANGED flash /\ Fail(session)
    /\ UNCHANGED <<fwd, active, boot_type>>

\* An entry for an image that has one already is never found.
WithEntry(i, id, p) ==
    LET e == fwd[i].entries
    IN  [fwd EXCEPT ![i].entries =
            [x \in DOMAIN e \cup {id} |-> IF x \in DOMAIN e THEN e[x] ELSE p]]

\* The running firmware's first file system becomes the trial's second.
PrepareFs ==
    /\ Processing("prepare_fs")
    /\ IF Found(fwd[active], FS1)
       THEN \/ /\ fwd' = WithEntry(session.trial, FS2, Find(fwd[active], FS1))
               /\ Continue([session EXCEPT !.state = "receive"])
            \/ UNCHANGED fwd /\ Fail(session)
       ELSE UNCHANGED fwd /\ Fail(session)
    /\ UNCHANGED <<flash, active, boot_type>>

-----------------------------------------------------------------------------
(* The session: header and images *)

\* What is left of the packet is handed on; nothing left ends the call.
ReceiveData ==
    /\ Processing("receive")
    /\ LET received == packet.len - session.buf_offset
       IN  IF received > 0
           THEN /\ session' = [session EXCEPT
                        !.buf_len = received, !.buf_offset = 0,
                        !.state = IF session.is_first THEN "config"
                                                      ELSE "image"]
                /\ packet' = [packet EXCEPT !.received = TRUE]
                /\ UNCHANGED upload_off
           ELSE session' = session /\ Reply(TRUE)
    /\ UNCHANGED tableVars

Smaller(a, b) == IF a < b THEN a ELSE b

\* The header received so far is that of one file, from its beginning.
ConfigOf(s) ==
    IF packet.from = s.config_len /\ s.config_of \in {NoFile, packet.of}
       /\ (s.config_len > 0 => s.config_of # NoFile)
    THEN packet.of ELSE NoFile

\* Blocks of the first j images, without those of the file systems.
DiskBefore[j \in 0 .. NImages] ==
    IF j = 0 THEN 0
    ELSE DiskBefore[j - 1] + (IF Images[j].id \in {FS1, FS2}
                              THEN 0 ELSE Images[j].disk)
TotalDisk == DiskBefore[NImages]

\* Magic, version and number of images: n writes are done.
HeaderWrites(i, n) ==
    CASE n = 0       -> fwd
      [] n \in {1,2} -> [fwd EXCEPT ![i].magic = TRUE]
      [] n = 3       -> [fwd EXCEPT ![i].magic = TRUE, ![i].total = TRUE]

\* Mutant: all of the packet is copied to the header's buffer.
ConfigPartAll == session.buf_len

\* What of the packet belongs to the header.
ConfigPart == Smaller(session.buf_len, HeaderLen - session.config_len)

ProcessConfigFile ==
    /\ Processing("config")
    /\ packet.received
    /\ LET n == ConfigPart
           s == [session EXCEPT !.config_len = @ + n, !.buf_offset = n,
                                !.config_of = ConfigOf(session)]
           dropped == [s EXCEPT !.config_len = 0, !.config_of = NoFile]
       IN  IF s.config_len < HeaderLen
           THEN Continue([s EXCEPT !.state = "receive"]) /\ UNCHANGED fwd
           ELSE IF s.config_of = NoFile
           THEN Fail(dropped) /\ UNCHANGED fwd
           ELSE \/ /\ fwd' = HeaderWrites(s.trial, 3)
                   /\ IF TotalDisk > s.mem_size
                      THEN Fail(dropped)
                      ELSE Continue([s EXCEPT
                             !.is_first = FALSE,
                             !.digest = FALSE,
                             !.state = IF n >= s.buf_len THEN "receive"
                                                         ELSE "image"])
                \/ \E k \in 0 .. 2 :
                     fwd' = HeaderWrites(s.trial, k) /\ Fail(dropped)
    /\ UNCHANGED <<flash, active, boot_type>>

\* The packet after a failed header finds no buffer to parse: the call fails
\* (or the processor faults, which is a PowerLoss).
ConfigWithoutBuffer ==
    /\ Processing("config")
    /\ ~packet.received
    /\ Fail(session)
    /\ UNCHANGED tableVars

Image == Images[session.index]

\* Where the next image goes: file system 1 over the running firmware's
\* file system 2, anything else after the previous image.
NextPart ==
    IF Image.id = FS1
    THEN Find(fwd[active], FS2)
    ELSE [start |-> session.mem_start, size |-> Image.disk]

\* The state after image session.index.
NextImage(s) ==
    [s EXCEPT !.part = NoPart, !.wrt_length = 0, !.index = @ + 1,
              !.mem_start = IF Image.id = FS1 THEN @ ELSE @ + Image.disk,
              !.state = IF session.index = NImages THEN "duplicate_fs" ELSE @]

\* A new image: its entry is created and its first block erased.  An image of
\* length 0 is complete at once.
OpenImage ==
    /\ Processing("image")
    /\ session.buf_offset < session.buf_len
    /\ session.wrt_length = 0
    /\ LET s == [session EXCEPT !.wrt_count = 0, !.wrt_length = Image.len]
           p == NextPart
           blank == IF Image.id = FS1 THEN flash ELSE Erased(flash, p.start, 1)
       IN  IF Image.id = FS1
              /\ (~Found(fwd[active], FS2) \/ Image.disk > p.size)
           THEN UNCHANGED <<fwd, flash>> /\ Fail(s)
           ELSE \/ /\ fwd' = WithEntry(s.trial, Image.id, p)
                   /\ flash' = blank
                   /\ Continue(IF Image.len = 0 THEN NextImage(s)
                               ELSE [s EXCEPT !.part = p, !.digest = TRUE])
                \/ UNCHANGED <<fwd, flash>> /\ Fail(s)
                \/ /\ Image.id # FS1
                   /\ fwd' = WithEntry(s.trial, Image.id, p)
                   /\ flash' \in {flash, blank}
                   /\ Fail([s EXCEPT !.part = p])
    /\ UNCHANGED <<active, boot_type>>

\* All of the packet is consumed.
PacketConsumed ==
    /\ Processing("image")
    /\ session.buf_offset >= session.buf_len
    /\ Continue([session EXCEPT !.state = "receive"])
    /\ UNCHANGED tableVars

ChunkLen ==
    Smaller(session.buf_len - session.buf_offset,
            session.wrt_length - session.wrt_count)

\* Unit k of the chunk, if it is what the file of the header has there.
ChunkUnit(k) ==
    LET u == PacketUnit(session.buf_offset + k)
    IN  IF u = <<session.config_of, Image.pos + session.wrt_count + k>>
        THEN u ELSE Spoilt

\* Mutant: every chunk starts a new hash.
HashedAnew == \A k \in 0 .. ChunkLen - 1 : ChunkUnit(k) # Spoilt

\* What was hashed so far is the beginning of the image in the header's file.
Hashed == session.digest /\ \A k \in 0 .. ChunkLen - 1 : ChunkUnit(k) # Spoilt

\* The blocks a chunk enters are erased before it is written.
EnteredCells ==
    LET first == session.wrt_count \div BlockUnits + 1
        last == (session.wrt_count + ChunkLen - 1) \div BlockUnits
    IN  Cells(session.part.start + first, last + 1 - first)

\* So is the next block when the chunk ends at its boundary.
NextCells ==
    Cells(session.part.start + (session.wrt_count + ChunkLen) \div BlockUnits, 1)

\* A write only clears bits: over anything but erased flash it spoils it.
Written(old, new) == IF old = ErasedCell THEN new ELSE Spoilt

FlashAfter(erased, n) ==
    LET k(a) == a - (session.part.start * BlockUnits + session.wrt_count)
        old(a) == IF a \in erased THEN ErasedCell ELSE flash[a]
    IN  [a \in DOMAIN flash |->
            IF k(a) \in 0 .. n - 1 THEN Written(old(a), ChunkUnit(k(a)))
                                   ELSE old(a)]
FlashAfterWrite == FlashAfter(EnteredCells, ChunkLen)

\* One chunk of an image: hash, erase, write; at the end of the image compare
\* the hash, else prepare the next block.
WriteImage ==
    /\ Processing("image")
    /\ session.buf_offset < session.buf_len
    /\ session.wrt_length # 0
    /\ session.part # NoPart
    /\ LET s == [session EXCEPT !.digest = Hashed, !.buf_offset = @ + ChunkLen,
                                !.wrt_count = @ + ChunkLen]
           bad == [session EXCEPT !.digest = FALSE]
       IN  \/ /\ s.wrt_count = s.wrt_length
              /\ flash' = FlashAfterWrite
              /\ IF s.digest THEN Continue([NextImage(s) EXCEPT !.digest = FALSE])
                 ELSE Fail([s EXCEPT !.part = NoPart])
           \/ /\ s.wrt_count < s.wrt_length
              /\ s.wrt_count % BlockUnits # 0
              /\ flash' = FlashAfterWrite
              /\ Continue(s)
           \/ /\ s.wrt_count < s.wrt_length
              /\ s.wrt_count % BlockUnits = 0
              /\ \/ /\ flash' = FlashAfter(EnteredCells \cup NextCells, ChunkLen)
                    /\ Continue(s)
                 \/ flash' = FlashAfterWrite /\ Fail(s)
           \/ /\ flash' \in {flash, FlashAfter(EnteredCells, 0), FlashAfterWrite}
              /\ Fail(bad)
    /\ UNCHANGED <<fwd, active, boot_type>>

\* After a failure that dropped the handle every chunk fails.
WriteWithoutHandle ==
    /\ Processing("image")
    /\ session.buf_offset < session.buf_len
    /\ session.wrt_length # 0
    /\ session.part = NoPart
    /\ Fail([session EXCEPT !.digest = FALSE])
    /\ UNCHANGED tableVars

-----------------------------------------------------------------------------
(* The session: finishing *)

\* Unit k of a partition.
UnitAt(f, p, k) == f[p.start * BlockUnits + k]

\* Mutant: the copy goes the other way.
CopiedBack(f, n) ==
    LET fs1 == Find(fwd[active], FS1).start * BlockUnits
    IN  [a \in DOMAIN f |->
            IF a \in fs1 .. fs1 + n - 1
            THEN UnitAt(f, Find(fwd[active], FS2), a - fs1) ELSE f[a]]

\* Block by block, file system 1 of the running firmware over its second.
CopiedFs(f, n) ==
    LET fs2 == Find(fwd[active], FS2).start * BlockUnits
    IN  [a \in DOMAIN f |->
            IF a \in fs2 .. fs2 + n - 1
            THEN UnitAt(f, Find(fwd[active], FS1), a - fs2) ELSE f[a]]

DuplicateFs ==
    /\ Processing("duplicate_fs")
    /\ IF Found(fwd[active], FS1) /\ Found(fwd[active], FS2)
       THEN LET size == Find(fwd[active], FS1).size * BlockUnits
            IN  \/ /\ flash' = CopiedFs(flash, size)
                   /\ Continue([session EXCEPT !.state = "finish"])
                \/ /\ flash' \in {flash, CopiedFs(flash, size)}
                   /\ Fail(session)
       ELSE UNCHANGED flash /\ Fail(session)
    /\ UNCHANGED <<fwd, active, boot_type>>

\* The status makes the trial valid; that its write fails goes unnoticed.  A
\* reset is scheduled, which comes while the device goes on as usual.
Finish ==
    /\ Processing("finish")
    /\ \/ fwd' = WithStatus(fwd, session.trial, "valid")
       \/ UNCHANGED fwd
    /\ session' = NoSession
    /\ Reply(TRUE)
    /\ UNCHANGED <<flash, active, boot_type>>

-----------------------------------------------------------------------------
(* Other commands and resets *)

\* Accepting and rejecting (fw_upgrade_session_done), as the application or
\* the image group calls it.
Accept ==
    /\ packet = NoPacket
    /\ \E n \in 0 .. 2 : AcceptTrialFwd(n)
    /\ UNCHANGED <<upload_off, session, packet>>

Reject ==
    /\ packet = NoPacket
    /\ \E n \in 0 .. 2 : RejectTrialFwd(n)
    /\ UNCHANGED <<upload_off, session, packet>>

\* The erase command, which takes descriptor 1 whether the request names
\* another or none, and looks at nothing else.
EraseSlot ==
    /\ packet = NoPacket
    /\ CarefulErase => 1 \notin {active, CurrentFwd} /\ session = NoSession
    /\ EraseFwd(1)
    /\ UNCHANGED <<flash, active, boot_type, upload_off, session, packet>>

\* What the image list says of each slot with a firmware; the trial is not
\* confirmed, the golden firmware always is.
Listing ==
    LET pending == IF HasTrial THEN {TrialFwd} ELSE {}
        current == CurrentFwd
    IN  [i \in {j \in 0 .. FwdNum - 1 : Valid(fwd[j])} |->
            LET golden == fwd[i].rank = GOLDEN
            IN  [pending   |-> i \in pending,
                 confirmed |-> i \notin pending /\ (i = current \/ golden),
                 permanent |-> i \notin pending /\ golden,
                 active    |-> i = active]]

\* The delayed reset, or a power loss, at any time.
Restart ==
    /\ Boot
    /\ upload_off' = 0
    /\ session' = NoSession
    /\ packet' = NoPacket

Process ==
    \/ GetTrialInfo \/ EraseTrialFwd \/ EraseSecondFs \/ PrepareFs
    \/ ReceiveData \/ ProcessConfigFile \/ ConfigWithoutBuffer
    \/ OpenImage \/ WriteImage \/ WriteWithoutHandle \/ PacketConsumed
    \/ DuplicateFs \/ Finish

Next ==
    \/ \E v \in Version, off \in 0 .. FileLen - 1, n \in PacketLen :
          Upload(v, off, n)
    \/ UploadInitFails
    \/ Process
    \/ Accept
    \/ Reject
    \/ EraseSlot
    \/ Restart

Spec == Init /\ [][Next]_vars

-----------------------------------------------------------------------------
(* Properties *)

AnyFile == Files \cup {NoFile}

Entry == [start : 0 .. MemBlocks, size : 0 .. MemBlocks]
IsDescriptor(d) ==
    /\ d = [magic |-> d.magic, total |-> d.total, rank |-> d.rank,
            status |-> d.status, entries |-> d.entries]
    /\ d.magic \in BOOLEAN /\ d.total \in BOOLEAN
    /\ d.rank \in -1 .. MaxRank
    /\ d.status \in {"unused", "valid", "invalid"}
    /\ DOMAIN d.entries \subseteq ImageIds \cup {FS2}
    /\ \A id \in DOMAIN d.entries : d.entries[id] \in Entry

Session ==
    [state : {"get_trial", "erase_fwd", "erase_fs2", "prepare_fs", "receive",
              "config", "image", "duplicate_fs", "finish"},
     is_first : BOOLEAN, buf_len : 0 .. FileLen, buf_offset : 0 .. FileLen,
     config_len : 0 .. HeaderLen, config_of : AnyFile,
     trial : FwdIdx, mem_start : 0 .. MemBlocks, mem_size : 0 .. MemBlocks,
     part : Entry, index : 1 .. NImages + 1,
     wrt_count : 0 .. FileLen, wrt_length : 0 .. FileLen, digest : BOOLEAN]

\* Every counter of the session stays within the file and the flash
\* (fw_upgrade_context_t), every descriptor is one the boot loader can parse.
TypeOK ==
    /\ DOMAIN fwd = FwdIdx /\ \A i \in FwdIdx : IsDescriptor(fwd[i])
    /\ DOMAIN flash = Cells(MaxFwd, MemBlocks - MaxFwd)
    /\ active \in FwdIdx
    /\ boot_type \in {"golden", "current", "trial"}
    /\ upload_off \in 0 .. FileLen
    /\ session = NoSession \/ session \in Session
    /\ \/ packet = NoPacket
       \/ /\ session # NoSession
          /\ packet.of \in Version
          /\ packet.from + packet.len <= FileLen

\* The cells of the images of descriptor d hold file v; file system 1 is not
\* an image of its own.
Holds(d, v) ==
    \A j \in 1 .. NImages :
        Images[j].id # FS1 =>
            /\ Found(d, Images[j].id)
            /\ \A k \in 0 .. Images[j].len - 1 :
                 UnitAt(flash, Find(d, Images[j].id), k) = <<v, Images[j].pos + k>>

\* The file in each descriptor, or none.
FilesIn(d) == {v \in Files : Holds(d, v)}
FileIn == [i \in FwdIdx |-> IF FilesIn(fwd[i]) = {} THEN NoFile
                            ELSE CHOOSE v \in FilesIn(fwd[i]) : TRUE]

\* Whatever was sent, failed or was cut off, a descriptor the boot loader
\* accepts (fw_upgrade_get_trial_active_fwd_index) has both file systems and
\* the images of exactly one file, whole; and the image list
\* (qcom_img_mgmt_state_read) shows it: one slot at most waits for its trial,
\* and beside it there is one confirmed firmware, or two of which one is
\* permanent.
BootableIsWhole ==
    LET list == Listing
        confirmed == {i \in DOMAIN list : list[i].confirmed}
    IN  /\ \A i \in FwdIdx :
             Valid(fwd[i]) => /\ Found(fwd[i], FS1) /\ Found(fwd[i], FS2)
                              /\ FileIn[i] # NoFile
                              /\ i \in DOMAIN list
        /\ confirmed # {}
        /\ \A i, j \in confirmed :
             i # j => list[i].permanent # list[j].permanent
        /\ \A i, j \in DOMAIN list :
             list[i].pending /\ list[j].pending => i = j

\* There is a confirmed firmware to return to at every moment, between the
\* two writes of an acceptance too (fw_upgrade_accept_trial_fwd), and an
\* upload does not work on its descriptor (fw_upgrade_select_trial_fwd).
FallbackKept ==
    /\ Valid(fwd[CurrentFwd])
    /\ packet # NoPacket /\ session.state # "get_trial"
            => session.trial \notin {CurrentFwd, active}

\* The file systems change places at every upgrade, and still the running
\* firmware never loses its data and a firmware that waits for its trial has
\* got it (ERASE_SECOND_FS, PREPARE_FS, fw_upgrade_process_duplicate_fs).
FsKept ==
    \A i \in FwdIdx :
        i = active \/ (Valid(fwd[i]) /\ fwd[i].rank = TRIAL)
            => UnitAt(flash, Find(fwd[i], FS1), 0) = FsData

\* An upload is a Publish or nothing, an acceptance a Confirm, and the images
\* of the firmware that runs are not written to (TRIAL_IS_RUNNING in
\* fw_upgrade_session_process): the three firmwares of the store, read off
\* descriptors and flash.
Store == INSTANCE FwStore WITH
            Version <- Files,
            NoVersion <- NoFile,
            confirmed <- FileIn[CurrentFwd],
            staged <- IF HasTrial THEN FileIn[TrialFwd] ELSE NoFile,
            running <- FileIn[active]
ImplementsStore == Store!Spec

\* The comment in fw_upgrade_accept_trial_fwd, "only allow active FWD is
\* trial to accept": what becomes confirmed is the firmware that runs.
AcceptOnlyRunning ==
    [][\A i \in FwdIdx :
         fwd[i].rank = TRIAL /\ Valid(fwd'[i]) /\ fwd'[i].rank # TRIAL
            => i = active]_vars
=============================================================================
