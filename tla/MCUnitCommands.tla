--------------------------- MODULE MCUnitCommands ---------------------------
(* Instances of UnitCommands for TLC: a byte has two values, so 16 bits hold *)
(* 0 .. 3, 32 bits 0 .. 15 and 64 bits 0 .. 255.                           *)
EXTENDS UnitCommands

\* Around the last 32-bit address; odd and even; past what the CHS can hold.
MCDisks == {[blocks |-> b, blksz |-> 2] : b \in {15, 16, 17, 60, 68}}
             \cup {[blocks |-> b, blksz |-> 4] : b \in {5, 36}}

Header == [rdsk |-> TRUE, longs |-> TRUE, sum |-> TRUE,
           cyls |-> 3, sectors |-> 2, heads |-> 2, part |-> 1]
\* A table, another without a partition, one that is too large for most disks,
\* a stale one, none, and one whose product of all three is 0 in 64 bits.
MCHeaders == {Header, [Header EXCEPT !.cyls = 5, !.sectors = 1, !.heads = 1, !.part = 15],
              [Header EXCEPT !.cyls = 14], [Header EXCEPT !.cyls = 4, !.sum = FALSE],
              [Header EXCEPT !.rdsk = FALSE, !.cyls = 0],
              [Header EXCEPT !.cyls = 4, !.sectors = 8, !.heads = 8]}
\* The same blocks per cylinder as Header, more, as many in 32 bits only, and no
\* partition block.
MCPartitions == {[signed |-> TRUE, surfaces |-> 4, blkpt |-> 1],
                 [signed |-> TRUE, surfaces |-> 5, blkpt |-> 3],
                 [signed |-> TRUE, surfaces |-> 5, blkpt |-> 4],
                 [signed |-> FALSE, surfaces |-> 0, blkpt |-> 0]}

\* Offsets and lengths at both limits of READ (10), for either block size.
MCOffsets == {0, 2, 30, 32, 60, 64, 128}
MCLengths == {0, 1, 4, 6, 8, 12}

Scsi(op) == [short |-> FALSE, op |-> op, cmdlen |-> 16, evpd |-> FALSE, page |-> 0, alloc |-> 0,
             ata |-> FALSE, data |-> TRUE, len |-> 64, autosense |-> TRUE, senselen |-> 18]
MCScsiInputs ==
  {Scsi("TEST_UNIT_READY"), Scsi("READ_10"), Scsi("WRITE_10"),
   [Scsi("INQUIRY") EXCEPT !.short = TRUE], [Scsi("INQUIRY") EXCEPT !.cmdlen = 0]}
    \cup {[Scsi("READ_CAPACITY_10") EXCEPT !.len = n] : n \in {7, 8}}
    \cup {[Scsi("INQUIRY") EXCEPT !.len = n] : n \in {4, 5}}
    \cup {[Scsi("INQUIRY") EXCEPT !.evpd = TRUE, !.page = p, !.len = n, !.cmdlen = k] :
            p \in {0, 128, 131, 9}, n \in {6, 17, 34}, k \in {2, 6}}
    \cup {[Scsi("LOG_SENSE") EXCEPT !.page = p, !.alloc = a, !.len = n] :
            p \in {0, 47, 9}, a \in {0, 4, 64}, n \in {4, 64}}
    \cup {[Scsi("ATA_PASS_THROUGH") EXCEPT !.ata = t, !.len = n] : t \in BOOLEAN, n \in {511, 512}}
    \cup {[Scsi("OTHER") EXCEPT !.autosense = a, !.senselen = n] : a \in BOOLEAN, n \in {17, 18}}
=============================================================================
