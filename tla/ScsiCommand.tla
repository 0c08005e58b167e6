----------------------------- MODULE ScsiCommand -----------------------------
(***************************************************************************)
(* HD_SCSICMD: what Parse_SCSI_Command and its handlers write into the     *)
(* caller's struct SCSICmd and IOStdReq.  A command c is                   *)
(*   [short, op, cmdlen, evpd, page, alloc, ata, data, len, autosense,     *)
(*    senselen]: whether io_Length is too small for the structure,         *)
(* the opcode and the CDB fields the handlers look at, whether scsi_Data   *)
(* is there, scsi_Length, SCSIF_AUTOSENSE and scsi_SenseLength.  A state s *)
(* of the answer is [status, actual, sense, io_Error, io_Actual]: the      *)
(* fields scsi_Status, scsi_Actual, scsi_SenseActual of a structure that   *)
(* the caller uses again for its next command, and the request's own.      *)
(* d = [rc, status, residual] is what DoIO reports (module ScsiIO).        *)
(***************************************************************************)
EXTENDS Integers

CONSTANT IdDigits  \* digits of the unit's target_id

ASSUME IdAssumption == IdDigits \in Nat \ {0}

GOOD == 0
CHECK == 2
BUSY == 8    \* stands for every other status

ScsiCommands ==
  [short : BOOLEAN, op : STRING, cmdlen : Nat, evpd : BOOLEAN, page : Nat, alloc : Nat,
   ata : BOOLEAN, data : BOOLEAN, len : Nat, autosense : BOOLEAN, senselen : Nat]

\* Handle_CMD_Success clears io_Actual too.
Handle_CMD_Success(s) == [s EXCEPT !.io_Error = "none", !.io_Actual = 0]

BadStatus(s) == [s EXCEPT !.status = CHECK, !.io_Error = "HFERR_BadStatus"]

\* 18 bytes of sense, if asked for and if there is room.
FillAutoSense(c, s) == [s EXCEPT !.sense = IF c.autosense /\ c.senselen >= 18 THEN 18 ELSE 0]

\* What every pass-through handler does with DoIO's answer.
PassThrough(c, s, d) ==
  [s EXCEPT !.status = d.status, !.actual = c.len - d.residual,
            !.io_Actual = c.len - d.residual, !.io_Error = d.rc]

Handle_SCSI_TestUnitReady(s, d) ==
  [s EXCEPT !.status = d.status, !.actual = 0, !.io_Actual = 0, !.io_Error = d.rc]

Handle_SCSI_ReadCapacity10(c, s, d) ==
  IF c.len < 8 THEN BadStatus(s) ELSE PassThrough(c, s, d)

\* The length of a synthesised VPD page: the list of pages, the serial number
\* "VIRTIOSCSI-T<n>" after a header of 4, the identification after one of 8.
VpdPages == {0, 128, 131}
VpdLength(page) == CASE page = 0 -> 7 [] page = 128 -> 16 + IdDigits [] page = 131 -> 33 + IdDigits

NoAnswer(s) == [BadStatus(s) EXCEPT !.actual = 0, !.io_Actual = 0]

\* vpd_begin refuses a short buffer; vpd_finish reports the page's length.
VpdPage(c, s) ==
  IF c.len < VpdLength(c.page) \/ ~c.data THEN NoAnswer(s)
  ELSE [s EXCEPT !.status = GOOD, !.actual = VpdLength(c.page),
                 !.io_Actual = VpdLength(c.page), !.io_Error = "none"]

\* vpd_illegal_page leaves scsi_SenseActual alone unless it writes sense.
VpdIllegal(c, s) ==
  [NoAnswer(s) EXCEPT !.sense = IF c.autosense /\ c.senselen >= 18 THEN 18 ELSE @]

\* EVPD and the page are only read from a CDB that is long enough.
Handle_SCSI_Inquiry(c, s, d) ==
  LET evpd == c.cmdlen >= 2 /\ c.evpd
      page == IF c.cmdlen >= 3 THEN c.page ELSE 0
      cc   == [c EXCEPT !.page = page]
  IN CASE c.len < 5         -> NoAnswer(s)
       [] c.len >= 5 /\ ~evpd -> PassThrough(c, s, d)
       [] c.len >= 5 /\ evpd /\ page \in VpdPages -> VpdPage(cc, s)
       [] OTHER             -> VpdIllegal(c, s)

\* Supported pages, and the informational exceptions page; the answer is cut
\* at the allocation length.
LogPages == {0, 47}
LogLength(page) == IF page = 0 THEN 6 ELSE 31
Handle_SCSI_LogSense(c, s) ==
  CASE ~c.data \/ c.alloc = 0 -> Handle_CMD_Success([s EXCEPT !.actual = 0])
    [] c.data /\ c.alloc > 0 /\ c.page \in LogPages ->
         Handle_CMD_Success([s EXCEPT !.actual =
           IF LogLength(c.page) > c.alloc THEN c.alloc ELSE LogLength(c.page)])
    [] OTHER -> BadStatus(s)

\* Only ATA SMART is answered, with a 512-byte block.
Handle_SCSI_ATAPassthrough(c, s) ==
  IF ~c.ata \/ ~c.data \/ c.len < 512 THEN [BadStatus(s) EXCEPT !.actual = 0]
  ELSE Handle_CMD_Success([s EXCEPT !.actual = 512, !.status = GOOD])

\* The answer's fields are reset before the handler runs.
ResetKeepsSense(s) == [s EXCEPT !.status = GOOD]
ResetAnswer(s) == [s EXCEPT !.status = GOOD, !.sense = 0]

PassOps == {"TEST_UNIT_READY", "INQUIRY", "READ_CAPACITY_10", "READ_10", "WRITE_10"}

\* A structure that is too short, or holds no CDB, is refused untouched.
Parse_SCSI_Command(c, s, d) ==
  LET r == ResetAnswer(s)
  IN CASE c.short       -> [s EXCEPT !.io_Error = "IOERR_BADLENGTH"]
       [] ~c.short /\ c.cmdlen = 0 -> [s EXCEPT !.io_Error = "HFERR_BadStatus"]
       [] ~c.short /\ c.cmdlen > 0 ->
            CASE c.op = "TEST_UNIT_READY"      -> Handle_SCSI_TestUnitReady(r, d)
              [] c.op = "INQUIRY"              -> Handle_SCSI_Inquiry(c, r, d)
              [] c.op = "READ_CAPACITY_10"     -> Handle_SCSI_ReadCapacity10(c, r, d)
              [] c.op \in {"READ_10", "WRITE_10"} -> PassThrough(c, r, d)
              [] c.op = "LOG_SENSE"            -> Handle_SCSI_LogSense(c, r)
              [] c.op = "ATA_PASS_THROUGH"     -> Handle_SCSI_ATAPassthrough(c, r)
              [] OTHER                         -> FillAutoSense(c, BadStatus(r))
=============================================================================
