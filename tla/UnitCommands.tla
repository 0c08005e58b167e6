---------------------------- MODULE UnitCommands ----------------------------
(***************************************************************************)
(* What the unit task makes of one command after another: the capacity and *)
(* partition-table caches of scsi_cdb_helpers.c, the geometry commands     *)
(* that report them, the CDBs submit_block_io builds from byte offsets,    *)
(* the HD_SCSICMD handlers (module ScsiCommand) and the commands that are  *)
(* answered on the spot.                                                   *)
(*                                                                         *)
(* A command that asks the disk takes a step per DoIO; between two of them *)
(* a partition editor may rewrite block 0 or the partition block (its      *)
(* writes go through the pipeline of module ScsiIO).  The disk's size is   *)
(* fixed.  Widths are scaled: a byte has ByteBase values, 256 in the code. *)
(***************************************************************************)
EXTENDS ScsiCommand

CONSTANTS
  ByteBase,
  DefaultBlock,   \* block size before the capacity is known: 512
  CylCap,         \* bound on dg_CylSectors: 256
  DefaultTracks,  \* TD_GETNUMTRACKS before the capacity is known: 32768
  Disks,          \* [blocks, blksz]: the disks the unit may be
  Headers,        \* what block 0 may hold
  Partitions,     \* what the first partition block may hold
  Offsets, Lengths, \* byte offsets and lengths of block I/O
  ScsiInputs,     \* HD_SCSICMD commands
  Residuals,      \* what a device may report as residual
  DoIOFailures    \* io_Error values of a DoIO that failed, but HFERR_BadStatus

W16 == ByteBase * ByteBase
W32 == W16 * W16
W64 == W32 * W32

Powers == {2 ^ k : k \in 0 .. CylCap}

\* A header of block 0 has a signature, SummedLongs (plausible or not), a
\* checksum that holds or not, CHS values of 32 bits and the first partition's
\* block.
ASSUME CommandsAssumption ==
  /\ {ByteBase, DefaultBlock, CylCap} \subseteq Nat \ {0, 1} /\ DefaultTracks \in Nat
  /\ CylCap \in Powers
  /\ \A d \in Disks : d.blocks \in 1 .. W64 - 1 /\ d.blksz \in Nat \ {0}
  /\ \A b \in Headers : /\ {b.rdsk, b.longs, b.sum} \subseteq BOOLEAN
                        /\ {b.cyls, b.sectors, b.heads, b.part} \subseteq 0 .. W32 - 1
  /\ \A p \in Partitions : /\ p.signed \in BOOLEAN
                           /\ {p.surfaces, p.blkpt} \subseteq 0 .. W32 - 1
  /\ Offsets \subseteq 0 .. W64 - 1 /\ Lengths \subseteq 0 .. W32 - 1
  /\ ScsiInputs \subseteq ScsiCommands
  /\ Residuals \subseteq Nat /\ DoIOFailures \cap {"none", "HFERR_BadStatus"} = {}

VARIABLES
  client,   \* "mounter" sends trackdisk commands, "tool" HD_SCSICMD
  disk, block0, partition,
  geometry_valid, block_size, total_blocks,
  rdb,      \* [valid, cyls, sectors, heads]: the rdb_ fields of the unit
  wrapped,  \* history: the blocks per cylinder of the table in rdb exceed 32 bits
  command,  \* the command in progress
  pc,       \* "idle", which DoIO it stands before, or "done": replied
  answer,   \* SCSICmd and IOStdReq fields of the caller, as in ScsiCommand
  scsi,     \* the HD_SCSICMD command last answered
  report,   \* the geometry or track count last reported
  issued,   \* the block I/O last submitted
  seen      \* history: what block 0 held since the command began

diskVars == <<client, disk, block0, partition>>
unitVars == <<geometry_valid, block_size, total_blocks, rdb, wrapped>>
replyVars == <<answer, scsi, report, issued>>
vars == <<diskVars, unitVars, command, pc, replyVars, seen>>

NoRdb == [valid |-> FALSE, cyls |-> 0, sectors |-> 0, heads |-> 0]
None == [of |-> "none"]
IoErrors == DoIOFailures \cup {"none", "HFERR_BadStatus", "IOERR_BADLENGTH", "IOERR_NOCMD"}
Is(x, of) == x.of = of

CommandsTypeOK ==
  /\ client \in {"mounter", "tool"}
  /\ disk \in Disks /\ block0 \in Headers /\ partition \in Partitions
  /\ geometry_valid \in BOOLEAN /\ block_size \in Nat /\ total_blocks \in 0 .. W64 - 1
  /\ rdb \in [valid : BOOLEAN, cyls : 0 .. W32 - 1, sectors : 0 .. W32 - 1, heads : 0 .. W32 - 1]
  /\ wrapped \in BOOLEAN
  /\ command \in {"none", "TD_GETGEOMETRY", "NSCMD_TD_GETGEOMETRY64", "TD_GETNUMTRACKS"}
  /\ pc \in {"idle", "rc10", "rc16", "probe", "block0", "partition", "tracks", "done"}
  /\ answer \in [status : {GOOD, CHECK, BUSY}, actual : Nat, sense : {0, 18},
                 io_Error : IoErrors, io_Actual : Nat]
  /\ Is(report, "TD_GETGEOMETRY") => {report.TotalSectors, report.Cylinders} \subseteq 0 .. W32 - 1
  /\ seen \subseteq Headers

\* init_dev_unit: nothing is known of the disk.
Init ==
  /\ client \in {"mounter", "tool"}
  /\ disk \in Disks /\ block0 \in Headers /\ partition \in Partitions
  /\ geometry_valid = FALSE /\ block_size = 0 /\ total_blocks = 0
  /\ rdb = NoRdb /\ wrapped = FALSE
  /\ command = "none" /\ pc = "idle" /\ seen = {}
  /\ answer = [status |-> GOOD, actual |-> 0, sense |-> 0,
               io_Error |-> "none", io_Actual |-> 0]
  /\ scsi = None /\ report = None /\ issued = None

-----------------------------------------------------------------------------
(* The disk *)

\* A partition editor, or a new image, changes the partition table.
Repartition ==
  /\ client = "mounter" /\ pc # "done"
  /\ \/ block0' \in Headers \ {block0} /\ UNCHANGED partition
     \/ partition' \in Partitions \ {partition} /\ UNCHANGED block0
  /\ seen' = IF pc = "idle" THEN {} ELSE seen \cup {block0'}
  /\ UNCHANGED <<client, disk, unitVars, command, pc, replyVars>>

-----------------------------------------------------------------------------
(* CDBs *)

\* (x >> shift) & 0xFF, the shift given by the unit of the byte.
Byte(x, unit) == (x \div unit) % ByteBase
W24 == W16 * ByteBase

READ_10 == 40
WRITE_10 == 42
READ_16 == 136
WRITE_16 == 138

\* make_read10_cdb and make_write10_cdb take a uint32 and a uint16,
\* make_read16_cdb and make_write16_cdb a uint64 and a uint32.
make_rw10_cdb(is_write, lba, blocks) ==
  LET l == lba % W32
      n == blocks % W16
  IN <<IF is_write THEN WRITE_10 ELSE READ_10, 0,
       Byte(l, W24), Byte(l, W16), Byte(l, ByteBase), Byte(l, 1), 0,
       Byte(n, ByteBase), Byte(n, 1), 0>>
make_rw16_cdb(is_write, lba, blocks) ==
  <<IF is_write THEN WRITE_16 ELSE READ_16, 0,
    Byte(lba, W32 * W24), Byte(lba, W32 * W16), Byte(lba, W32 * ByteBase), Byte(lba, W32),
    Byte(lba, W24), Byte(lba, W16), Byte(lba, ByteBase), Byte(lba, 1),
    Byte(blocks, W24), Byte(blocks, W16), Byte(blocks, ByteBase), Byte(blocks, 1), 0, 0>>

\* What the disk understands (external: SBC READ and WRITE commands): fields of
\* two, four and eight bytes, the high one first.
Two(cdb, i) == cdb[i] * ByteBase + cdb[i + 1]
Four(cdb, i) == Two(cdb, i) * W16 + Two(cdb, i + 2)
Eight(cdb, i) == Four(cdb, i) * W32 + Four(cdb, i + 4)
Addressed(cdb) ==
  IF cdb[1] \in {READ_10, WRITE_10}
  THEN [write |-> cdb[1] = WRITE_10, lba |-> Four(cdb, 3), blocks |-> Two(cdb, 8)]
  ELSE [write |-> cdb[1] = WRITE_16, lba |-> Eight(cdb, 3), blocks |-> Four(cdb, 11)]

Needs16ByLba(lba, blocks) == lba > W32 - 1
Needs16(lba, blocks) == lba > W32 - 1 \/ blocks > W16 - 1

BlockSize == IF geometry_valid /\ block_size # 0 THEN block_size ELSE DefaultBlock

\* submit_block_io up to VirtIOSCSI_Submit.
BlockCdb(is_write, offset64, length) ==
  LET lba    == offset64 \div BlockSize
      blocks == IF length \div BlockSize = 0 THEN 1 ELSE length \div BlockSize
  IN IF Needs16(lba, blocks) THEN make_rw16_cdb(is_write, lba, blocks)
                             ELSE make_rw10_cdb(is_write, lba, blocks)

\* unpack_io64_offset and UnitTask_Dispatch: the upper half of a 64-bit
\* command's offset comes in io_Actual; a 32-bit command has none.
Offset64(wide, io_Actual, io_Offset) == IF wide THEN io_Actual * W32 + io_Offset ELSE io_Offset

\* A command that needs no DoIO runs from "idle" to "done" in one step.
Answered(who) == client = who /\ pc = "idle" /\ pc' = "done"

\* How the submitted request ends is module ScsiIO.
BlockIO(wide, is_write, offset, length) ==
  /\ Answered("mounter")
  /\ wide \/ offset < W32
  /\ issued' = [of |-> "block", write |-> is_write, offset |-> offset, length |-> length,
                known |-> geometry_valid,
                cdb |-> BlockCdb(is_write, Offset64(wide, offset \div W32, offset % W32), length)]
  /\ UNCHANGED <<diskVars, unitVars, command, answer, scsi, report, seen>>

-----------------------------------------------------------------------------
(* Capacity: ensure_geometry_cached *)

Begin(cmd, stage) ==
  /\ client = "mounter" /\ pc = "idle" /\ pc' = stage
  /\ command' = cmd
  /\ seen' = {block0}
  /\ UNCHANGED <<diskVars, unitVars, replyVars>>

\* The command ends: req->io_Error, req->io_Actual.
End(io_Error, io_Actual) ==
  /\ pc' = "done" /\ command' = "none" /\ seen' = {}
  /\ answer' = [answer EXCEPT !.io_Error = io_Error, !.io_Actual = io_Actual]
  /\ UNCHANGED <<scsi, issued>>

\* The caller looks at the answer and prepares its next request; what it does
\* not reset are the result fields of its struct SCSICmd.
NextRequest ==
  /\ pc = "done" /\ pc' = "idle"
  /\ answer' = [answer EXCEPT !.io_Error = "none", !.io_Actual = 0]
  /\ scsi' = None /\ report' = None /\ issued' = None
  /\ UNCHANGED <<diskVars, unitVars, command, seen>>

Wrap32(n) == n % W32
Clamp32(n) == IF n > W32 - 1 THEN W32 - 1 ELSE n

\* The largest power of two up to CylCap that divides the block count.
CylSectors(n) == CHOOSE p \in 1 .. CylCap :
  /\ p \in Powers /\ n % p = 0
  /\ \A q \in p + 1 .. CylCap : q \in Powers => n % q # 0

AtLeastOne(n) == IF n = 0 THEN 1 ELSE n

DriveGeometry(n, bs) ==
  [of |-> "TD_GETGEOMETRY", SectorSize |-> bs, TotalSectors |-> Clamp32(n),
   Cylinders |-> AtLeastOne(Clamp32(n \div CylSectors(n))),
   CylSectors |-> CylSectors(n), Heads |-> CylSectors(n), TrackSectors |-> 1]

DriveGeometry64(n, bs) ==
  [of |-> "NSCMD_TD_GETGEOMETRY64", SectorSize |-> bs, TotalSectors |-> n]

\* Handle_TD_GetGeometry and Handle_NS_TD_GetGeometry64 once the capacity is
\* known; the structure's size is not told apart.
ReportGeometry(cmd, n, bs) ==
  /\ End("none", 1)
  /\ report' = IF cmd = "TD_GETGEOMETRY" THEN DriveGeometry(n, bs) ELSE DriveGeometry64(n, bs)

GeometryCommands == {"TD_GETGEOMETRY", "NSCMD_TD_GETGEOMETRY64"}

\* The caller's structure is too small.
GeometryBadLength(cmd) ==
  /\ Answered("mounter")
  /\ cmd \in GeometryCommands
  /\ answer' = [answer EXCEPT !.io_Error = "IOERR_BADLENGTH"]
  /\ UNCHANGED <<diskVars, unitVars, command, scsi, report, issued, seen>>

GetGeometry(cmd) ==
  /\ client = "mounter" /\ pc = "idle"
  /\ cmd \in GeometryCommands
  /\ \/ /\ geometry_valid
        /\ ReportGeometry(cmd, total_blocks, block_size)
        /\ UNCHANGED <<diskVars, unitVars>>
     \/ ~geometry_valid /\ Begin(cmd, "rc10")

\* READ CAPACITY failed, or ended with a status: the geometry commands fail,
\* TD_GETNUMTRACKS ignores the error and reports its default.
CapacityFails ==
  /\ pc \in {"rc10", "rc16"}
  /\ \E rc \in DoIOFailures \cup {"HFERR_BadStatus"} :
       IF command = "TD_GETNUMTRACKS"
       THEN /\ End("none", DefaultTracks)
            /\ report' = [of |-> "TD_GETNUMTRACKS", tracks |-> DefaultTracks, known |-> FALSE,
                          seen |-> seen]
       ELSE End(rc, 0) /\ UNCHANGED report
  /\ UNCHANGED <<diskVars, unitVars>>

\* The answer is cached, and the command goes on.
Cache(last_lba) ==
  LET n == (last_lba + 1) % W64
  IN /\ geometry_valid' = TRUE
     /\ block_size' = disk.blksz
     /\ total_blocks' = n
     /\ UNCHANGED <<rdb, wrapped>>
     /\ IF command = "TD_GETNUMTRACKS"
        THEN pc' = "probe" /\ UNCHANGED <<command, replyVars, seen>>
        ELSE ReportGeometry(command, n, disk.blksz)
     /\ UNCHANGED diskVars

\* A last address of all ones in READ CAPACITY (10) means "ask for 64 bits".
AllOnes(last_lba10) == last_lba10 = W32 - 1

\* What the disk answers (external: SBC READ CAPACITY (10)).
LastLba10 == IF disk.blocks > W32 THEN W32 - 1 ELSE disk.blocks - 1

ReadCapacity10 ==
  /\ pc = "rc10"
  /\ IF AllOnes(LastLba10)
     THEN pc' = "rc16" /\ UNCHANGED <<diskVars, unitVars, command, replyVars, seen>>
     ELSE Cache(LastLba10)

ReadCapacity16 == pc = "rc16" /\ Cache(disk.blocks - 1)

-----------------------------------------------------------------------------
(* The partition table: ensure_rdb_geometry_cached, for TD_GETNUMTRACKS *)

GetNumTracks == Begin("TD_GETNUMTRACKS", IF geometry_valid THEN "probe" ELSE "rc10")

\* What an earlier probe found is dropped before block 0 is read again.
ForgetNothing == UNCHANGED rdb
ForgetRdb == rdb' = NoRdb

Probe ==
  /\ pc = "probe" /\ pc' = "block0"
  /\ ForgetRdb
  /\ wrapped' = FALSE
  /\ UNCHANGED <<diskVars, geometry_valid, block_size, total_blocks, command, replyVars, seen>>

\* Signature, SummedLongs, checksum, and a CHS that fits the disk.
HeaderValid(b, n) ==
  /\ b.rdsk /\ b.longs /\ b.sum
  /\ b.cyls # 0 /\ b.sectors # 0 /\ b.heads # 0
  /\ (b.cyls * b.sectors * b.heads) % W64 <= n

PartitionListed(b, n) == b.part # W32 - 1 /\ b.part > 0 /\ b.part < n

\* No buffer, a failed read, or no valid header: no RDB geometry, no error.
ReadBlock0 ==
  /\ pc = "block0"
  /\ \/ pc' = "tracks" /\ UNCHANGED <<rdb, wrapped>>
     \/ /\ HeaderValid(block0, total_blocks)
        /\ rdb' = [valid |-> TRUE, cyls |-> block0.cyls, sectors |-> block0.sectors,
                   heads |-> block0.heads]
        /\ wrapped' = (block0.sectors * block0.heads >= W32)
        /\ pc' = IF PartitionListed(block0, total_blocks) THEN "partition" ELSE "tracks"
  /\ UNCHANGED <<diskVars, geometry_valid, block_size, total_blocks, command, replyVars, seen>>

\* The partition's own shape is taken if a cylinder has as many blocks.
AnyShape(p) == p.surfaces > 0 /\ p.blkpt > 0
SameCylinder(p) ==
  /\ p.surfaces > 0 /\ p.blkpt > 0
  /\ (p.surfaces * p.blkpt) % W32 = (rdb.sectors * rdb.heads) % W32

ReadPartition ==
  /\ pc = "partition" /\ pc' = "tracks"
  /\ \/ UNCHANGED <<rdb, wrapped>>
     \/ /\ partition.signed /\ SameCylinder(partition)
        /\ rdb' = [rdb EXCEPT !.heads = partition.surfaces, !.sectors = partition.blkpt]
        /\ wrapped' = (wrapped \/ partition.surfaces * partition.blkpt >= W32)
  /\ UNCHANGED <<diskVars, geometry_valid, block_size, total_blocks, command, replyVars, seen>>

ReportTracks ==
  LET tracks == IF rdb.valid THEN rdb.cyls ELSE AtLeastOne(Clamp32(total_blocks))
  IN /\ pc = "tracks"
     /\ End("none", tracks)
     /\ report' = [of |-> "TD_GETNUMTRACKS", tracks |-> tracks, known |-> TRUE, seen |-> seen]
     /\ UNCHANGED <<diskVars, unitVars>>

-----------------------------------------------------------------------------
(* HD_SCSICMD, and what is answered without the disk *)

\* A residual larger than the transfer is cut.
Clamped(c) == {IF r > c.len THEN c.len ELSE r : r \in Residuals}

\* What DoIO may report: GOOD; CHECK CONDITION, an error or (NO SENSE,
\* RECOVERED ERROR) none; another status; no answer or a VirtIO error, with
\* the status of an earlier try or 0.
DoIOAnswers(c) ==
  IF c.op \notin PassOps THEN {[rc |-> "none", status |-> GOOD, residual |-> 0]}
  ELSE [rc : {"none"} \cup DoIOFailures, status : {GOOD, CHECK}, residual : Clamped(c)]
         \cup [rc : {"HFERR_BadStatus"}, status : {CHECK, BUSY}, residual : Clamped(c)]

ScsiCmd(c, d) ==
  /\ Answered("tool")
  /\ answer' = Parse_SCSI_Command(c, [answer EXCEPT !.io_Error = "none"], d)
  /\ scsi' = [of |-> "HD_SCSICMD", cmd |-> c]
  /\ UNCHANGED <<diskVars, unitVars, command, report, issued, seen>>

\* BeginIO's inline answers, UnitTask_Dispatch's no-ops, Handle_NS_DeviceQuery
\* (the structure's size is not told apart), an unknown command.
InlineActual ==
  [motor |-> 1, change_num |-> 0, change_state |-> 0, prot_status |-> 0, drive_type |-> 1,
   device_query |-> 1, device_query_short |-> 0,
   seek |-> answer.io_Actual, update |-> answer.io_Actual, unknown |-> answer.io_Actual]

Inline(cmd) ==
  /\ Answered("mounter")
  /\ answer' = [answer EXCEPT !.io_Actual = InlineActual[cmd],
                !.io_Error = CASE cmd = "device_query_short" -> "IOERR_BADLENGTH"
                               [] cmd = "unknown" -> "IOERR_NOCMD" [] OTHER -> "none"]
  /\ UNCHANGED <<diskVars, unitVars, command, scsi, report, issued, seen>>

-----------------------------------------------------------------------------

Next ==
  \/ Repartition \/ NextRequest
  \/ \E wide, w \in BOOLEAN, o \in Offsets, l \in Lengths : BlockIO(wide, w, o, l)
  \/ \E cmd \in GeometryCommands : GeometryBadLength(cmd) \/ GetGeometry(cmd)
  \/ CapacityFails \/ ReadCapacity10 \/ ReadCapacity16
  \/ GetNumTracks \/ Probe \/ ReadBlock0 \/ ReadPartition \/ ReportTracks
  \/ \E c \in ScsiInputs : \E d \in DoIOAnswers(c) : ScsiCmd(c, d)
  \/ \E cmd \in DOMAIN InlineActual : Inline(cmd)

Spec == Init /\ [][Next]_vars

-----------------------------------------------------------------------------
(* Properties *)

\* The cached capacity is the disk's, also where READ CAPACITY (10) runs out of
\* bits and when either command fails half way (ensure_geometry_cached).
CapacityExact ==
  geometry_valid => total_blocks = disk.blocks /\ block_size = disk.blksz

\* The CDB of a block request addresses the blocks it asks for, in its
\* direction, whatever the width of offset and count: nothing is cut off
\* (submit_block_io).  A disk whose blocks are not DefaultBlock long is
\* addressed right once its capacity is known.
CdbExact ==
  Is(issued, "block") =>
    LET b == disk.blksz
    IN /\ issued.known \/ b = DefaultBlock
       /\ issued.offset % b = 0 /\ issued.length % b = 0 /\ issued.length > 0
       => Addressed(issued.cdb) = [write |-> issued.write, lba |-> issued.offset \div b,
                                   blocks |-> issued.length \div b]

\* A reported size is never zero, never more than the disk has and, where the
\* 32-bit fields can hold it, the disk's (Handle_TD_GetGeometry,
\* Handle_NS_TD_GetGeometry64).
SizeReported ==
  /\ Is(report, "NSCMD_TD_GETGEOMETRY64") =>
       report.TotalSectors = disk.blocks /\ report.SectorSize = disk.blksz
  /\ Is(report, "TD_GETGEOMETRY") =>
       LET chs == report.Cylinders * report.CylSectors
       IN /\ report.SectorSize = disk.blksz
          /\ report.TotalSectors > 0 /\ report.TotalSectors <= disk.blocks
          /\ chs > 0 /\ chs <= disk.blocks
          /\ report.Heads * report.TrackSectors = report.CylSectors
          /\ disk.blocks < W32 => chs = disk.blocks /\ report.TotalSectors = disk.blocks
          /\ disk.blocks % CylCap = 0 /\ disk.blocks < W32 * CylCap => chs = disk.blocks

\* "The reported CHS always reflects what's currently on the disk"
\* (scsi_cdb_helpers.c:191): a track count from a partition table comes from a
\* table that passes the driver's checks and was on the disk during the command; else it is the disk's
\* size, or the default while that is unknown.
TracksFresh ==
  Is(report, "TD_GETNUMTRACKS") =>
    LET valid == {b \in report.seen : HeaderValid(b, disk.blocks)}
    IN IF report.known
       THEN report.tracks \in {b.cyls : b \in valid} \cup {Clamp32(disk.blocks)}
       ELSE report.tracks = DefaultTracks

\* A partition table in use fits the disk, also if the table is rewritten
\* between the reads of its header and of its partition block, as long as its
\* blocks per cylinder, in the header and in the partition block, fit 32 bits: the
\* products of the two checks wrap (scsi_cdb_helpers.c:287, 348).
RdbFits ==
  rdb.valid =>
    geometry_valid /\ (~wrapped => rdb.cyls * rdb.sectors * rdb.heads <= disk.blocks)

\* What the unit has cached about its disk is right, or marked as not valid,
\* between any two of the commands that read it; of a partition table whose
\* products wrap, only its types (ensure_geometry_cached,
\* ensure_rdb_geometry_cached).
CachesSound == CommandsTypeOK /\ CapacityExact /\ RdbFits

\* The answer to HD_SCSICMD is about this command: sense data only with a
\* CHECK CONDITION and an error, no error on an emulated command without CHECK
\* CONDITION, and no bad status reported as GOOD (Parse_SCSI_Command; the caller
\* uses the structure again).
ScsiAnswerTruthful ==
  Is(scsi, "HD_SCSICMD") /\ ~scsi.cmd.short /\ scsi.cmd.cmdlen > 0 =>
    /\ answer.sense # 0 => /\ answer.status = CHECK /\ answer.io_Error # "none"
                           /\ scsi.cmd.autosense /\ scsi.cmd.senselen >= 18
    /\ answer.io_Error = "none" /\ answer.status # GOOD => scsi.cmd.op \in PassOps
    /\ answer.io_Error = "HFERR_BadStatus" => answer.status # GOOD

\* "Checks that scsiCmd->scsi_Length >= needed" (scsi_inquiry.c:9): no GOOD answer
\* is longer than the caller's buffer.
AnswerInBuffer ==
  Is(scsi, "HD_SCSICMD") /\ answer.status = GOOD /\ answer.io_Error = "none" =>
    answer.actual <= scsi.cmd.len

\* The same, where a LOG SENSE command's own allocation length is no longer than
\* the buffer: that length is all Handle_SCSI_LogSense looks at
\* (scsi_log_sense.c:97).
AnswerFits ==
  (Is(scsi, "HD_SCSICMD") /\ scsi.cmd.op = "LOG_SENSE" => scsi.cmd.alloc <= scsi.cmd.len)
    => AnswerInBuffer

\* An answer to HD_SCSICMD is about this command, and it fits the caller's buffer
\* unless a LOG SENSE asks for more than that (Parse_SCSI_Command and its
\* handlers).
ScsiAnswerSound == ScsiAnswerTruthful /\ AnswerFits
=============================================================================
