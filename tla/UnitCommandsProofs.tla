-------------------------- MODULE UnitCommandsProofs --------------------------
(***************************************************************************)
(* Proofs about UnitCommands, for disks, partition tables, requests and    *)
(* byte widths of any size: the CDBs address what was asked for, the       *)
(* capacity and what is reported from it are right, a partition table      *)
(* whose products do not wrap fits the disk, and HD_SCSICMD answers for    *)
(* the command it was given.                                               *)
(***************************************************************************)
EXTENDS UnitCommands, WellFoundedInduction, TLAPS

-----------------------------------------------------------------------------
(* The inductive invariant *)

\* While no answer is out, there is nothing to look at.
Quiet == pc # "done" => scsi = None /\ report = None /\ issued = None

\* What a command in progress has behind it.
Stations ==
  /\ pc \notin {"idle", "done"} => command # "none" /\ block0 \in seen
  /\ pc \in {"probe", "block0", "partition", "tracks"} =>
       command = "TD_GETNUMTRACKS" /\ geometry_valid

\* A cached table is one that was read: unless its products wrapped, a cylinder
\* fits 32 bits and all of them the disk; and while a command uses it, its
\* header was on the disk meanwhile.
RdbInv ==
  /\ rdb.valid => geometry_valid
  /\ rdb.valid /\ ~wrapped => /\ rdb.sectors * rdb.heads < W32
                              /\ rdb.cyls * (rdb.sectors * rdb.heads) <= disk.blocks
  /\ pc = "block0" => ~rdb.valid
  /\ pc = "partition" => rdb.valid
  /\ pc \in {"partition", "tracks"} /\ rdb.valid =>
       \E b \in seen : HeaderValid(b, disk.blocks) /\ b.cyls = rdb.cyls

\* CommandsTypeOK, but for the report.
Types ==
  /\ client \in {"mounter", "tool"}
  /\ disk \in Disks /\ block0 \in Headers /\ partition \in Partitions
  /\ geometry_valid \in BOOLEAN /\ block_size \in Nat /\ total_blocks \in 0 .. W64 - 1
  /\ rdb \in [valid : BOOLEAN, cyls : 0 .. W32 - 1, sectors : 0 .. W32 - 1, heads : 0 .. W32 - 1]
  /\ wrapped \in BOOLEAN
  /\ command \in {"none", "TD_GETGEOMETRY", "NSCMD_TD_GETGEOMETRY64", "TD_GETNUMTRACKS"}
  /\ pc \in {"idle", "rc10", "rc16", "probe", "block0", "partition", "tracks", "done"}
  /\ answer \in [status : {GOOD, CHECK, BUSY}, actual : Nat, sense : {0, 18},
                 io_Error : IoErrors, io_Actual : Nat]
  /\ seen \subseteq Headers

\* A report is of the disk's size or of the tracks: the disk's, the default,
\* or those of a valid header seen.
Sized(r) ==
  r \in {DriveGeometry(disk.blocks, disk.blksz), DriveGeometry64(disk.blocks, disk.blksz)}
Tracked(r) ==
  \/ \E S : r = [of |-> "TD_GETNUMTRACKS", tracks |-> DefaultTracks, known |-> FALSE, seen |-> S]
  \/ \E n, S :
       /\ r = [of |-> "TD_GETNUMTRACKS", tracks |-> n, known |-> TRUE, seen |-> S]
       /\ \/ n = Clamp32(disk.blocks)
          \/ \E b \in S : HeaderValid(b, disk.blocks) /\ b.cyls = n
Reported(r) == r = None \/ Sized(r) \/ Tracked(r)

CommandsInv ==
  /\ Types /\ CapacityExact /\ Quiet /\ Stations /\ RdbInv
  /\ Reported(report) /\ CdbExact /\ ScsiAnswerSound

-----------------------------------------------------------------------------
(* Numbers *)

\* Division is determined by its equation.
LEMMA DivModUnique ==
  ASSUME NEW x \in Nat, NEW m \in Nat \ {0}, NEW q \in Nat, NEW r \in 0 .. m - 1, x = q * m + r
  PROVE  x \div m = q /\ x % m = r
<1>1. PICK a \in Int, b \in Int : a = x \div m /\ b = x % m /\ x = a * m + b /\ 0 <= b /\ b < m
  OBVIOUS
<1>2. (a - q) * m = r - b
  BY <1>1
<1>3. a = q
  <2>1. CASE a > q
    <3>1. (a - q) * m >= m
      BY <1>1, <2>1
    <3> QED
      BY <1>1, <1>2, <3>1
  <2>2. CASE a < q
    <3>1. (a - q) * m <= 0 - m
      BY <1>1, <2>2
    <3> QED
      BY <1>1, <1>2, <3>1
  <2> QED
    BY <1>1, <2>1, <2>2
<1> QED
  BY <1>1, <1>2, <1>3

\* Division with remainder.
LEMMA DivMod ==
  ASSUME NEW x \in Nat, NEW m \in Nat \ {0}
  PROVE  /\ x \div m \in Nat /\ x % m \in 0 .. m - 1
         /\ x = (x \div m) * m + (x % m)
<1>1. PICK q \in Int, r \in Int : q = x \div m /\ r = x % m /\ x = q * m + r /\ 0 <= r /\ r < m
  OBVIOUS
<1>2. CASE q < 0
  <2>1. q * m <= 0 - m
    BY <1>2
  <2> QED
    BY <1>1, <2>1
<1>3. CASE q >= 0
  BY <1>1, <1>3
<1> QED
  BY <1>2, <1>3

\* Shifting a sum.
LEMMA Regroup ==
  ASSUME NEW p \in Int, NEW b \in Int, NEW s \in Int, NEW a \in Int
  PROVE  (p * b + s) * a = p * (a * b) + s * a
  OBVIOUS

\* Shifting twice.
LEMMA DivDiv ==
  ASSUME NEW x \in Nat, NEW a \in Nat \ {0}, NEW b \in Nat \ {0}
  PROVE  x \div (a * b) = (x \div a) \div b
<1>1. PICK q \in Nat, r \in 0 .. a - 1 : q = x \div a /\ x = q * a + r
  BY DivMod
<1>2. PICK p \in Nat, s \in 0 .. b - 1 : p = q \div b /\ q = p * b + s
  BY DivMod
<1>3. a * b \in Nat \ {0}
  OBVIOUS
<1>4. x = p * (a * b) + (s * a + r)
  <2>1. x = (p * b + s) * a + r
    BY <1>1, <1>2
  <2>2. (p * b + s) * a = p * (a * b) + s * a
    BY Regroup
  <2> QED
    BY <1>3, <2>1, <2>2
<1>5. s * a + r \in 0 .. a * b - 1
  <2>1. s * a <= (b - 1) * a
    OBVIOUS
  <2>2. s * a >= 0
    OBVIOUS
  <2> QED
    BY <2>1, <2>2
<1>6. x \div (a * b) = p
  BY <1>3, <1>4, <1>5, DivModUnique
<1> QED
  BY <1>1, <1>2, <1>3, <1>6

\* The widths grow.
LEMMA Widths ==
  /\ ByteBase \in Nat \ {0, 1}
  /\ W16 \in Nat \ {0, 1} /\ W24 \in Nat \ {0, 1}
  /\ W32 \in Nat \ {0, 1} /\ W64 \in Nat \ {0, 1}
  /\ W16 <= W32 /\ W32 <= W64 /\ W32 = W24 * ByteBase
<1>1. ByteBase \in Nat /\ ByteBase > 1
  BY CommandsAssumption
<1>2. W16 \in Nat /\ W16 > 1
  BY <1>1 DEF W16
<1>3. W24 \in Nat /\ W24 > 1
  BY <1>1, <1>2 DEF W24
<1>4. W32 \in Nat /\ W32 > 1 /\ W32 >= W16
  BY <1>2 DEF W32
<1>5. W64 \in Nat /\ W64 > 1 /\ W64 >= W32
  BY <1>4 DEF W64
<1>6. W32 = W24 * ByteBase
  BY <1>1 DEF W32, W24, W16
<1> QED
  BY <1>1, <1>2, <1>3, <1>4, <1>5, <1>6

\* What is left of x below a * b, from what is left below a.
LEMMA Halves ==
  ASSUME NEW x \in Nat, NEW a \in Nat \ {0}, NEW b \in Nat \ {0}
  PROVE  ((x \div a) % b) * a + (x % a) = x % (a * b)
<1>1. PICK q \in Nat, v \in 0 .. a - 1 : q = x \div a /\ v = x % a /\ x = q * a + v
  BY DivMod
<1>2. PICK p \in Nat, u \in 0 .. b - 1 : u = q % b /\ q = p * b + u
  BY DivMod
<1>3. a * b \in Nat \ {0}
  OBVIOUS
<1>4. x = p * (a * b) + (u * a + v)
  <2>1. x = (p * b + u) * a + v
    BY <1>1, <1>2
  <2>2. (p * b + u) * a = p * (a * b) + u * a
    BY Regroup
  <2> QED
    BY <1>3, <2>1, <2>2
<1>5. u * a + v \in 0 .. a * b - 1
  <2>1. u * a <= (b - 1) * a /\ u * a >= 0
    OBVIOUS
  <2> QED
    BY <2>1
<1>6. x % (a * b) = u * a + v
  BY <1>3, <1>4, <1>5, DivModUnique
<1> QED
  BY <1>1, <1>2, <1>6

\* The bytes of a word, a long word and a quad word give it back.
LEMMA TwoBytes ==
  ASSUME NEW x \in Nat
  PROVE  Byte(x, ByteBase) * ByteBase + Byte(x, 1) = x % W16
<1>1. ((x \div ByteBase) % ByteBase) * ByteBase + (x % ByteBase) = x % (ByteBase * ByteBase)
  BY Widths, Halves
<1>2. x \div 1 = x
  OBVIOUS
<1> QED
  BY <1>1, <1>2 DEF Byte, W16

\* The same for a long word.
LEMMA FourBytes ==
  ASSUME NEW x \in Nat
  PROVE  (Byte(x, W24) * ByteBase + Byte(x, W16)) * W16 + (Byte(x, ByteBase) * ByteBase + Byte(x, 1))
           = x % W32
<1>1. PICK y \in Nat : y = x \div W16
  BY Widths, DivMod
<1>2. x \div W24 = y \div ByteBase
  <2>1. W16 \in Nat \ {0} /\ ByteBase \in Nat \ {0}
    BY Widths
  <2>2. x \div (W16 * ByteBase) = (x \div W16) \div ByteBase
    BY <2>1, DivDiv
  <2> QED
    BY <1>1, <2>2 DEF W24
<1>3. y \div 1 = y
  OBVIOUS
<1>4. Byte(x, W24) * ByteBase + Byte(x, W16) = y % W16
  BY <1>1, <1>2, <1>3, TwoBytes DEF Byte
<1>5. (y % W16) * W16 + (x % W16) = x % (W16 * W16)
  BY <1>1, Widths, Halves
<1> QED
  BY <1>4, <1>5, TwoBytes DEF W32

\* The same for a quad word.
LEMMA EightBytes ==
  ASSUME NEW x \in Nat
  PROVE  ((Byte(x, W32 * W24) * ByteBase + Byte(x, W32 * W16)) * W16
           + (Byte(x, W32 * ByteBase) * ByteBase + Byte(x, W32))) * W32
         + ((Byte(x, W24) * ByteBase + Byte(x, W16)) * W16
           + (Byte(x, ByteBase) * ByteBase + Byte(x, 1)))
           = x % W64
<1>1. PICK y \in Nat : y = x \div W32
  BY Widths, DivMod
<1>2. /\ x \div (W32 * W24) = y \div W24
      /\ x \div (W32 * W16) = y \div W16
      /\ x \div (W32 * ByteBase) = y \div ByteBase
  <2>1. /\ W32 \in Nat \ {0} /\ W24 \in Nat \ {0} /\ W16 \in Nat \ {0}
        /\ ByteBase \in Nat \ {0}
    BY Widths
  <2>2. x \div (W32 * W24) = (x \div W32) \div W24
    BY <2>1, DivDiv
  <2>3. x \div (W32 * W16) = (x \div W32) \div W16
    BY <2>1, DivDiv
  <2>4. x \div (W32 * ByteBase) = (x \div W32) \div ByteBase
    BY <2>1, DivDiv
  <2> QED
    BY <1>1, <2>2, <2>3, <2>4
<1>3. y \div 1 = y
  OBVIOUS
<1>4. /\ Byte(x, W32 * W24) = Byte(y, W24) /\ Byte(x, W32 * W16) = Byte(y, W16)
      /\ Byte(x, W32 * ByteBase) = Byte(y, ByteBase) /\ Byte(x, W32) = Byte(y, 1)
  BY <1>1, <1>2, <1>3 DEF Byte
<1>5. (y % W32) * W32 + (x % W32) = x % (W32 * W32)
  <2>1. W32 \in Nat \ {0}
    BY Widths
  <2>2. ((x \div W32) % W32) * W32 + (x % W32) = x % (W32 * W32)
    BY <2>1, Halves
  <2> QED
    BY <1>1, <2>2
<1> QED
  BY <1>4, <1>5, FourBytes DEF W64

\* A value that fits is not changed.
LEMMA Small ==
  ASSUME NEW x \in Nat, NEW m \in Nat \ {0}, x < m
  PROVE  x % m = x
  BY DivModUnique

\* A quotient is no larger.
LEMMA DivLe ==
  ASSUME NEW x \in Nat, NEW m \in Nat \ {0}
  PROVE  x \div m \in Nat /\ x \div m <= x
<1>1. PICK q \in Nat, r \in 0 .. m - 1 : q = x \div m /\ x = q * m + r
  BY DivMod
<1>2. q * m >= q
  OBVIOUS
<1> QED
  BY <1>1, <1>2

\* A CDB of ten bytes addresses what 32 and 16 bits hold, one of sixteen what
\* 64 and 32 bits hold.
LEMMA Rw10Exact ==
  ASSUME NEW w \in BOOLEAN, NEW lba \in Nat, NEW n \in Nat, lba < W32, n < W16
  PROVE  Addressed(make_rw10_cdb(w, lba, n)) = [write |-> w, lba |-> lba, blocks |-> n]
<1> DEFINE cdb == make_rw10_cdb(w, lba, n)
<1>1. lba % W32 = lba /\ n % W16 = n
  BY Widths, Small
<1>2. /\ cdb[1] = IF w THEN WRITE_10 ELSE READ_10
      /\ cdb[3] = Byte(lba, W24) /\ cdb[4] = Byte(lba, W16)
      /\ cdb[5] = Byte(lba, ByteBase) /\ cdb[6] = Byte(lba, 1)
      /\ cdb[8] = Byte(n, ByteBase) /\ cdb[9] = Byte(n, 1)
  BY <1>1 DEF make_rw10_cdb
<1> HIDE DEF cdb
<1>3. Four(cdb, 3) = lba
  <2>1. 3 + 1 = 4 /\ 3 + 2 = 5 /\ (3 + 2) + 1 = 6
    OBVIOUS
  <2> QED
    BY <1>1, <1>2, <2>1, FourBytes DEF Four, Two
<1>4. Two(cdb, 8) = n
  <2>1. 8 + 1 = 9
    OBVIOUS
  <2> QED
    BY <1>1, <1>2, <2>1, TwoBytes DEF Two
<1>5. cdb[1] \in {READ_10, WRITE_10} /\ (cdb[1] = WRITE_10) = w
  BY <1>2 DEF READ_10, WRITE_10
<1> QED
  BY <1>3, <1>4, <1>5 DEF Addressed, cdb

\* The same for sixteen bytes.
LEMMA Rw16Exact ==
  ASSUME NEW w \in BOOLEAN, NEW lba \in Nat, NEW n \in Nat, lba < W64, n < W32
  PROVE  Addressed(make_rw16_cdb(w, lba, n)) = [write |-> w, lba |-> lba, blocks |-> n]
<1> DEFINE cdb == make_rw16_cdb(w, lba, n)
<1>1. lba % W64 = lba /\ n % W32 = n
  BY Widths, Small
<1>2. /\ cdb[1] = IF w THEN WRITE_16 ELSE READ_16
      /\ cdb[3] = Byte(lba, W32 * W24) /\ cdb[4] = Byte(lba, W32 * W16)
      /\ cdb[5] = Byte(lba, W32 * ByteBase) /\ cdb[6] = Byte(lba, W32)
      /\ cdb[7] = Byte(lba, W24) /\ cdb[8] = Byte(lba, W16)
      /\ cdb[9] = Byte(lba, ByteBase) /\ cdb[10] = Byte(lba, 1)
      /\ cdb[11] = Byte(n, W24) /\ cdb[12] = Byte(n, W16)
      /\ cdb[13] = Byte(n, ByteBase) /\ cdb[14] = Byte(n, 1)
  BY DEF make_rw16_cdb
<1> HIDE DEF cdb
<1>3. Eight(cdb, 3) = lba
  <2>1. /\ 3 + 1 = 4 /\ 3 + 2 = 5 /\ (3 + 2) + 1 = 6 /\ 3 + 4 = 7
        /\ (3 + 4) + 1 = 8 /\ (3 + 4) + 2 = 9 /\ ((3 + 4) + 2) + 1 = 10
    OBVIOUS
  <2>2. Eight(cdb, 3) = lba % W64
    BY <1>2, <2>1, EightBytes DEF Eight, Four, Two
  <2> QED
    BY <1>1, <2>2
<1>4. Four(cdb, 11) = n
  <2>1. 11 + 1 = 12 /\ 11 + 2 = 13 /\ (11 + 2) + 1 = 14
    OBVIOUS
  <2>2. Four(cdb, 11) = n % W32
    BY <1>2, <2>1, FourBytes DEF Four, Two
  <2> QED
    BY <1>1, <2>2
<1>5. cdb[1] \notin {READ_10, WRITE_10} /\ (cdb[1] = WRITE_16) = w
  BY <1>2 DEF READ_10, WRITE_10, READ_16, WRITE_16
<1> QED
  BY <1>3, <1>4, <1>5 DEF Addressed, cdb

-----------------------------------------------------------------------------
(* The cylinder size *)

\* A set of numbers has a least one.
LEMMA LeastNat ==
  ASSUME NEW T, T \subseteq Nat, T # {}
  PROVE  \E x \in T : \A y \in T : x <= y
<1>1. PICK x \in T : \A y \in T : ~ (<<y, x>> \in OpToRel(<, Nat))
  BY NatLessThanWellFounded, WFMin
<1>2. ASSUME NEW y \in T PROVE x <= y
  <2>1. y \in Nat /\ x \in Nat /\ ~ (<<y, x>> \in {ss \in Nat \X Nat : ss[1] < ss[2]})
    BY <1>1 DEF OpToRel
  <2>2. <<y, x>> \in Nat \X Nat /\ <<y, x>>[1] = y /\ <<y, x>>[2] = x
    BY <2>1
  <2>3. ~ (y < x)
    BY <2>1, <2>2
  <2> QED
    BY <2>1, <2>3
<1> QED
  BY <1>2

\* The search for the cylinder size finds one: a power of two that divides the
\* block count, and CylCap itself if that does.
LEMMA CylSectorsIs ==
  ASSUME NEW n \in Nat
  PROVE  /\ CylSectors(n) \in 1 .. CylCap /\ CylSectors(n) \in Powers /\ n % CylSectors(n) = 0
         /\ n % CylCap = 0 => CylSectors(n) = CylCap
<1>1. CylCap \in Nat /\ CylCap > 1 /\ CylCap \in Powers
  BY CommandsAssumption
<1> DEFINE S == {p \in 1 .. CylCap : p \in Powers /\ n % p = 0}
           T == {CylCap - p : p \in S}
<1>2. 1 \in Powers
  <2>1. 2 ^ 0 = 1
    OBVIOUS
  <2>2. \E k \in 0 .. CylCap : 1 = 2 ^ k
    <3>1. 0 \in 0 .. CylCap
      BY <1>1
    <3> WITNESS 0 \in 0 .. CylCap
    <3> QED
      BY <2>1
  <2> QED
    BY <2>2 DEF Powers
<1>3. 1 \in S
  BY <1>1, <1>2
<1>4. PICK x \in T : \A y \in T : x <= y
  <2>1. T \subseteq Nat /\ CylCap - 1 \in T
    BY <1>1, <1>3
  <2> HIDE DEF T
  <2> QED
    BY <2>1, LeastNat
<1>5. PICK p \in S : x = CylCap - p
  BY <1>4
<1>6. ASSUME NEW q \in p + 1 .. CylCap, q \in Powers PROVE n % q # 0
  <2>1. SUFFICES ASSUME n % q = 0 PROVE FALSE
    OBVIOUS
  <2>2. q \in S
    BY <1>1, <1>5, <1>6, <2>1
  <2>3. x <= CylCap - q
    BY <1>4, <2>2
  <2> QED
    BY <1>1, <1>5, <2>3
<1>7. /\ CylSectors(n) \in 1 .. CylCap /\ CylSectors(n) \in Powers /\ n % CylSectors(n) = 0
      /\ \A q \in CylSectors(n) + 1 .. CylCap : q \in Powers => n % q # 0
  BY <1>5, <1>6 DEF CylSectors
<1> QED
  BY <1>1, <1>7

-----------------------------------------------------------------------------
(* HD_SCSICMD *)

Answers == [status : {GOOD, CHECK, BUSY}, actual : Nat, sense : {0, 18},
            io_Error : IoErrors, io_Actual : Nat]

\* What the two parts of ScsiAnswerSound say of one command and its answer.
Truthful(c, a) ==
  ~c.short /\ c.cmdlen > 0 =>
    /\ a.sense # 0 => /\ a.status = CHECK /\ a.io_Error # "none"
                      /\ c.autosense /\ c.senselen >= 18
    /\ a.io_Error = "none" /\ a.status # GOOD => c.op \in PassOps
    /\ a.io_Error = "HFERR_BadStatus" => a.status # GOOD
Fits(c, a) ==
  a.status = GOOD /\ a.io_Error = "none" =>
    a.actual <= IF c.op = "LOG_SENSE" THEN c.alloc ELSE c.len
Sound(c, a) == a \in Answers /\ Truthful(c, a) /\ Fits(c, a)

\* An answer is sound if it refuses the command, sense only where asked for;
\* and if it is GOOD, without sense, and fits.
LEMMA RefusedIsSound ==
  ASSUME NEW c \in ScsiCommands, NEW a \in Answers,
         a.status = CHECK, a.io_Error = "HFERR_BadStatus",
         a.sense # 0 => c.autosense /\ c.senselen >= 18
  PROVE  Sound(c, a)
  BY DEF Sound, Truthful, Fits, GOOD, CHECK

\* So does one that succeeded and fits.
LEMMA GoodIsSound ==
  ASSUME NEW c \in ScsiCommands, NEW a \in Answers,
         a.status = GOOD, a.io_Error = "none", a.sense = 0,
         a.actual <= IF c.op = "LOG_SENSE" THEN c.alloc ELSE c.len
  PROVE  Sound(c, a)
  BY DEF Sound, Truthful, Fits

\* A refused command says so.
LEMMA RefusalSound ==
  ASSUME NEW c \in ScsiCommands, NEW s \in Answers, s.sense = 0
  PROVE  /\ Sound(c, BadStatus(s)) /\ Sound(c, NoAnswer(s))
         /\ Sound(c, [BadStatus(s) EXCEPT !.actual = 0])
         /\ Sound(c, VpdIllegal(c, s)) /\ Sound(c, FillAutoSense(c, BadStatus(s)))
<1>1. "HFERR_BadStatus" \in IoErrors
  BY DEF IoErrors
<1>2. /\ BadStatus(s) \in Answers
      /\ BadStatus(s).status = CHECK
      /\ BadStatus(s).sense = 0
      /\ BadStatus(s).io_Error = "HFERR_BadStatus"
  BY <1>1 DEF BadStatus, Answers
<1>3. /\ NoAnswer(s) \in Answers
      /\ NoAnswer(s).status = CHECK
      /\ NoAnswer(s).sense = 0
      /\ NoAnswer(s).io_Error = "HFERR_BadStatus"
  BY <1>2 DEF NoAnswer, Answers
<1>4. /\ [BadStatus(s) EXCEPT !.actual = 0] \in Answers
      /\ [BadStatus(s) EXCEPT !.actual = 0].status = CHECK
      /\ [BadStatus(s) EXCEPT !.actual = 0].sense = 0
      /\ [BadStatus(s) EXCEPT !.actual = 0].io_Error = "HFERR_BadStatus"
  BY <1>2 DEF Answers
<1>5. /\ VpdIllegal(c, s) \in Answers
      /\ VpdIllegal(c, s).status = CHECK
      /\ VpdIllegal(c, s).io_Error = "HFERR_BadStatus"
      /\ VpdIllegal(c, s).sense # 0 => c.autosense /\ c.senselen >= 18
  BY <1>3 DEF VpdIllegal, Answers
<1>6. /\ FillAutoSense(c, BadStatus(s)) \in Answers
      /\ FillAutoSense(c, BadStatus(s)).status = CHECK
      /\ FillAutoSense(c, BadStatus(s)).io_Error = "HFERR_BadStatus"
      /\ FillAutoSense(c, BadStatus(s)).sense # 0 => c.autosense /\ c.senselen >= 18
  BY <1>2 DEF FillAutoSense, Answers
<1> QED
  BY <1>2, <1>3, <1>4, <1>5, <1>6, RefusedIsSound

\* What DoIO reports.
LEMMA DoIOIs ==
  ASSUME NEW c \in ScsiCommands, NEW d \in DoIOAnswers(c)
  PROVE  /\ d.rc \in IoErrors /\ d.status \in {GOOD, CHECK, BUSY} /\ d.residual \in 0 .. c.len
         /\ d.rc = "HFERR_BadStatus" => d.status # GOOD
<1>1. \A r \in Clamped(c) : r \in 0 .. c.len
  BY CommandsAssumption DEF Clamped, ScsiCommands
<1>2. "none" \in IoErrors /\ "HFERR_BadStatus" \in IoErrors /\ DoIOFailures \subseteq IoErrors
  BY DEF IoErrors
<1>3. "HFERR_BadStatus" \notin DoIOFailures
  BY CommandsAssumption
<1>4. CASE c.op \notin PassOps
  BY <1>2, <1>4 DEF DoIOAnswers, GOOD, ScsiCommands
<1>5. CASE d \in [rc : {"none"} \cup DoIOFailures, status : {GOOD, CHECK}, residual : Clamped(c)]
  BY <1>1, <1>2, <1>3, <1>5
<1>6. CASE d \in [rc : {"HFERR_BadStatus"}, status : {CHECK, BUSY}, residual : Clamped(c)]
  BY <1>1, <1>2, <1>6 DEF GOOD, CHECK, BUSY
<1> QED
  BY <1>4, <1>5, <1>6 DEF DoIOAnswers

\* A command that goes to the disk reports what came back.
LEMMA PassSound ==
  ASSUME NEW c \in ScsiCommands, NEW s \in Answers, NEW d \in DoIOAnswers(c), s.sense = 0,
         c.op \in PassOps
  PROVE  Sound(c, PassThrough(c, s, d)) /\ Sound(c, Handle_SCSI_TestUnitReady(s, d))
<1>1. /\ d.rc \in IoErrors /\ d.status \in {GOOD, CHECK, BUSY} /\ d.residual \in 0 .. c.len
      /\ d.rc = "HFERR_BadStatus" => d.status # GOOD
  BY DoIOIs
<1>2. c.len \in Nat /\ c.len - d.residual \in Nat /\ c.len - d.residual <= c.len
      /\ c.op # "LOG_SENSE"
  BY <1>1 DEF ScsiCommands, PassOps
<1>3. /\ PassThrough(c, s, d) \in Answers
      /\ PassThrough(c, s, d).status = d.status
      /\ PassThrough(c, s, d).sense = 0
      /\ PassThrough(c, s, d).io_Error = d.rc
      /\ PassThrough(c, s, d).actual <= c.len
  BY <1>1, <1>2 DEF PassThrough, Answers
<1>4. /\ Handle_SCSI_TestUnitReady(s, d) \in Answers
      /\ Handle_SCSI_TestUnitReady(s, d).status = d.status
      /\ Handle_SCSI_TestUnitReady(s, d).sense = 0
      /\ Handle_SCSI_TestUnitReady(s, d).io_Error = d.rc
      /\ Handle_SCSI_TestUnitReady(s, d).actual = 0
  BY <1>1 DEF Handle_SCSI_TestUnitReady, Answers
<1>5. ASSUME NEW e \in Answers, e.status = d.status, e.sense = 0, e.io_Error = d.rc,
             e.actual <= c.len
      PROVE  Sound(c, e)
  BY <1>1, <1>2, <1>5 DEF Sound, Truthful, Fits
<1>6. Sound(c, PassThrough(c, s, d))
  BY <1>3, <1>5
<1>7. Sound(c, Handle_SCSI_TestUnitReady(s, d))
  BY <1>2, <1>4, <1>5
<1> QED
  BY <1>6, <1>7

\* INQUIRY: the disk's answer, or a page made up here.
LEMMA InquirySound ==
  ASSUME NEW c \in ScsiCommands, NEW s \in Answers, NEW d \in DoIOAnswers(c),
         s.sense = 0, s.status = GOOD, c.op = "INQUIRY"
  PROVE  Sound(c, Handle_SCSI_Inquiry(c, s, d))
<1> DEFINE evpd == c.cmdlen >= 2 /\ c.evpd
           page == IF c.cmdlen >= 3 THEN c.page ELSE 0
           cc   == [c EXCEPT !.page = page]
<1>1. CASE c.len < 5
  <2>1. Handle_SCSI_Inquiry(c, s, d) = NoAnswer(s)
    BY <1>1 DEF Handle_SCSI_Inquiry, ScsiCommands
  <2> QED
    BY <2>1, RefusalSound
<1>2. CASE c.len >= 5 /\ ~evpd
  <2>1. Handle_SCSI_Inquiry(c, s, d) = PassThrough(c, s, d)
    BY <1>2 DEF Handle_SCSI_Inquiry, ScsiCommands
  <2> QED
    BY <2>1, PassSound DEF PassOps
<1>3. CASE c.len >= 5 /\ evpd /\ page \in VpdPages
  <2>1. Handle_SCSI_Inquiry(c, s, d) = VpdPage(cc, s)
    BY <1>3 DEF Handle_SCSI_Inquiry, ScsiCommands
  <2>2. cc.len = c.len /\ cc.data = c.data /\ cc.page = page
    BY DEF ScsiCommands
  <2>3. VpdLength(page) \in Nat
    BY <1>3, IdAssumption DEF VpdLength, VpdPages
  <2>4. CASE cc.len < VpdLength(page) \/ ~cc.data
    BY <2>1, <2>2, <2>4, RefusalSound DEF VpdPage
  <2>5. CASE ~(cc.len < VpdLength(page) \/ ~cc.data)
    <3>1. VpdLength(page) <= c.len /\ c.op # "LOG_SENSE" /\ "none" \in IoErrors
      BY <2>2, <2>3, <2>5 DEF IoErrors, ScsiCommands
    <3>2. /\ VpdPage(cc, s) \in Answers
          /\ VpdPage(cc, s).status = GOOD
          /\ VpdPage(cc, s).sense = 0
          /\ VpdPage(cc, s).io_Error = "none"
          /\ VpdPage(cc, s).actual = VpdLength(page)
      BY <2>2, <2>3, <2>5, <3>1 DEF VpdPage, Answers
    <3> QED
      BY <2>1, <3>1, <3>2, GoodIsSound
  <2> QED
    BY <2>4, <2>5
<1>4. CASE c.len >= 5 /\ evpd /\ page \notin VpdPages
  <2>1. Handle_SCSI_Inquiry(c, s, d) = VpdIllegal(c, s)
    BY <1>4 DEF Handle_SCSI_Inquiry, ScsiCommands
  <2> QED
    BY <2>1, RefusalSound
<1> QED
  BY <1>1, <1>2, <1>3, <1>4 DEF ScsiCommands

\* Handle_CMD_Success changes io_Error and io_Actual only.
LEMMA SuccessIs ==
  ASSUME NEW t \in Answers
  PROVE  /\ Handle_CMD_Success(t) \in Answers
         /\ Handle_CMD_Success(t).io_Error = "none" /\ Handle_CMD_Success(t).status = t.status
         /\ Handle_CMD_Success(t).sense = t.sense /\ Handle_CMD_Success(t).actual = t.actual
<1>1. "none" \in IoErrors
  BY DEF IoErrors
<1> QED
  BY <1>1 DEF Handle_CMD_Success, Answers

\* LOG SENSE and ATA PASS-THROUGH answer without the disk.
LEMMA EmulatedSound ==
  ASSUME NEW c \in ScsiCommands, NEW s \in Answers, s.sense = 0, s.status = GOOD
  PROVE  /\ c.op = "LOG_SENSE" => Sound(c, Handle_SCSI_LogSense(c, s))
         /\ c.op = "ATA_PASS_THROUGH" => Sound(c, Handle_SCSI_ATAPassthrough(c, s))
<1>1. ASSUME NEW n \in Nat, n <= IF c.op = "LOG_SENSE" THEN c.alloc ELSE c.len
      PROVE  Sound(c, Handle_CMD_Success([s EXCEPT !.actual = n]))
  <2>1. /\ [s EXCEPT !.actual = n] \in Answers /\ [s EXCEPT !.actual = n].status = GOOD
        /\ [s EXCEPT !.actual = n].sense = 0 /\ [s EXCEPT !.actual = n].actual = n
    BY DEF Answers
  <2> QED
    <3>1. PICK t \in Answers : /\ t = [s EXCEPT !.actual = n]
                               /\ t.status = GOOD /\ t.sense = 0 /\ t.actual = n
      BY <2>1, Zenon
    <3>2. /\ Handle_CMD_Success(t) \in Answers
          /\ Handle_CMD_Success(t).status = GOOD /\ Handle_CMD_Success(t).sense = 0
          /\ Handle_CMD_Success(t).io_Error = "none" /\ Handle_CMD_Success(t).actual = n
      BY <3>1, SuccessIs, Zenon
    <3>3. Sound(c, Handle_CMD_Success(t))
      BY <1>1, <3>2, GoodIsSound
    <3> QED
      BY <3>1, <3>3
<1>2. ASSUME c.op = "LOG_SENSE" PROVE Sound(c, Handle_SCSI_LogSense(c, s))
  <2>1. CASE ~c.data \/ c.alloc = 0
    <3>1. Handle_SCSI_LogSense(c, s) = Handle_CMD_Success([s EXCEPT !.actual = 0])
      BY <2>1 DEF Handle_SCSI_LogSense, ScsiCommands
    <3> QED
      BY <1>1, <1>2, <3>1 DEF ScsiCommands
  <2>2. CASE c.data /\ c.alloc > 0 /\ c.page \in LogPages
    <3>1. PICK n \in Nat : n = (IF LogLength(c.page) > c.alloc THEN c.alloc ELSE LogLength(c.page))
                           /\ n <= c.alloc
      BY DEF LogLength, ScsiCommands
    <3>2. Handle_SCSI_LogSense(c, s) = Handle_CMD_Success([s EXCEPT !.actual = n])
      BY <2>2, <3>1 DEF Handle_SCSI_LogSense, ScsiCommands
    <3> QED
      BY <1>1, <1>2, <3>1, <3>2
  <2>3. CASE c.data /\ c.alloc > 0 /\ c.page \notin LogPages
    <3>1. Handle_SCSI_LogSense(c, s) = BadStatus(s)
      BY <2>3 DEF Handle_SCSI_LogSense, ScsiCommands
    <3> QED
      BY <3>1, RefusalSound
  <2> QED
    BY <2>1, <2>2, <2>3 DEF ScsiCommands
<1>3. ASSUME c.op = "ATA_PASS_THROUGH" PROVE Sound(c, Handle_SCSI_ATAPassthrough(c, s))
  <2>1. CASE ~c.ata \/ ~c.data \/ c.len < 512
    BY <2>1, RefusalSound DEF Handle_SCSI_ATAPassthrough
  <2>2. CASE ~(~c.ata \/ ~c.data \/ c.len < 512)
    <3>1. c.len >= 512 /\ c.op # "LOG_SENSE"
      BY <1>3, <2>2 DEF ScsiCommands
    <3>2. /\ Handle_SCSI_ATAPassthrough(c, s) \in Answers
          /\ Handle_SCSI_ATAPassthrough(c, s).status = GOOD
          /\ Handle_SCSI_ATAPassthrough(c, s).sense = 0
          /\ Handle_SCSI_ATAPassthrough(c, s).io_Error = "none"
          /\ Handle_SCSI_ATAPassthrough(c, s).actual = 512
      <4>1. PICK n \in Nat : n = 512
        OBVIOUS
      <4>2. Handle_SCSI_ATAPassthrough(c, s) =
              Handle_CMD_Success([s EXCEPT !.actual = n, !.status = GOOD])
        BY <2>2, <4>1 DEF Handle_SCSI_ATAPassthrough
      <4>3. /\ [s EXCEPT !.actual = n, !.status = GOOD] \in Answers
            /\ [s EXCEPT !.actual = n, !.status = GOOD].status = GOOD
            /\ [s EXCEPT !.actual = n, !.status = GOOD].sense = 0
            /\ [s EXCEPT !.actual = n, !.status = GOOD].actual = n
        BY DEF Answers
      <4>4. PICK t \in Answers : /\ t = [s EXCEPT !.actual = n, !.status = GOOD]
                                 /\ t.status = GOOD /\ t.sense = 0 /\ t.actual = n
        BY <4>3, Zenon
      <4>5. /\ Handle_CMD_Success(t) \in Answers
            /\ Handle_CMD_Success(t).status = GOOD /\ Handle_CMD_Success(t).sense = 0
            /\ Handle_CMD_Success(t).io_Error = "none" /\ Handle_CMD_Success(t).actual = n
        BY <4>4, SuccessIs, Zenon
      <4>6. Handle_SCSI_ATAPassthrough(c, s) = Handle_CMD_Success(t)
        BY <4>2, <4>4, Zenon
      <4> QED
        BY <4>1, <4>5, <4>6
    <3> QED
      BY <3>1, <3>2, GoodIsSound
  <2> QED
    BY <2>1, <2>2
<1> QED
  BY <1>2, <1>3

\* Parse_SCSI_Command, whatever the caller's structure held before.
LEMMA ParseSound ==
  ASSUME NEW c \in ScsiCommands, NEW s \in Answers, NEW d \in DoIOAnswers(c)
  PROVE  Sound(c, Parse_SCSI_Command(c, s, d))
<1> DEFINE r == ResetAnswer(s)
           a == Parse_SCSI_Command(c, s, d)
<1>1. r \in Answers /\ r.sense = 0 /\ r.status = GOOD
  BY DEF ResetAnswer, Answers
<1> HIDE DEF r, a
<1>2. {"IOERR_BADLENGTH", "HFERR_BadStatus"} \subseteq IoErrors
  BY DEF IoErrors
<1>3. CASE c.short
  <2>1. a = [s EXCEPT !.io_Error = "IOERR_BADLENGTH"]
    BY <1>3 DEF a, Parse_SCSI_Command
  <2> QED
    BY <1>2, <1>3, <2>1 DEF Sound, Truthful, Fits, Answers, a
<1>4. CASE ~c.short /\ c.cmdlen = 0
  <2>1. a = [s EXCEPT !.io_Error = "HFERR_BadStatus"]
    BY <1>4 DEF a, Parse_SCSI_Command
  <2> QED
    BY <1>2, <1>4, <2>1 DEF Sound, Truthful, Fits, Answers, a
<1>5. CASE ~c.short /\ c.cmdlen > 0
  <2>1. a = CASE c.op = "TEST_UNIT_READY"      -> Handle_SCSI_TestUnitReady(r, d)
              [] c.op = "INQUIRY"              -> Handle_SCSI_Inquiry(c, r, d)
              [] c.op = "READ_CAPACITY_10"     -> Handle_SCSI_ReadCapacity10(c, r, d)
              [] c.op \in {"READ_10", "WRITE_10"} -> PassThrough(c, r, d)
              [] c.op = "LOG_SENSE"            -> Handle_SCSI_LogSense(c, r)
              [] c.op = "ATA_PASS_THROUGH"     -> Handle_SCSI_ATAPassthrough(c, r)
              [] OTHER                         -> FillAutoSense(c, BadStatus(r))
    BY <1>5 DEF a, r, Parse_SCSI_Command, ScsiCommands
  <2>2. CASE c.op = "TEST_UNIT_READY"
    <3>1. a = Handle_SCSI_TestUnitReady(r, d)
      BY <2>1, <2>2
    <3> QED
      BY <1>1, <2>2, <3>1, PassSound DEF PassOps, a
  <2>3. CASE c.op = "INQUIRY"
    <3>1. a = Handle_SCSI_Inquiry(c, r, d)
      BY <2>1, <2>3
    <3> QED
      BY <1>1, <2>3, <3>1, InquirySound DEF a
  <2>4. CASE c.op = "READ_CAPACITY_10"
    <3>1. a = Handle_SCSI_ReadCapacity10(c, r, d)
      BY <2>1, <2>4
    <3>2. a = BadStatus(r) \/ a = PassThrough(c, r, d)
      BY <3>1 DEF Handle_SCSI_ReadCapacity10
    <3> QED
      BY <1>1, <2>4, <3>2, PassSound, RefusalSound DEF PassOps, a
  <2>5. CASE c.op \in {"READ_10", "WRITE_10"}
    <3>1. a = PassThrough(c, r, d)
      BY <2>1, <2>5
    <3> QED
      BY <1>1, <2>5, <3>1, PassSound DEF PassOps, a
  <2>6. CASE c.op = "LOG_SENSE"
    <3>1. a = Handle_SCSI_LogSense(c, r)
      BY <2>1, <2>6
    <3> QED
      BY <1>1, <2>6, <3>1, EmulatedSound DEF a
  <2>7. CASE c.op = "ATA_PASS_THROUGH"
    <3>1. a = Handle_SCSI_ATAPassthrough(c, r)
      BY <2>1, <2>7
    <3> QED
      BY <1>1, <2>7, <3>1, EmulatedSound DEF a
  <2>8. CASE c.op \notin {"TEST_UNIT_READY", "INQUIRY", "READ_CAPACITY_10", "READ_10", "WRITE_10",
                          "LOG_SENSE", "ATA_PASS_THROUGH"}
    <3>1. a = FillAutoSense(c, BadStatus(r))
      BY <2>1, <2>8
    <3> QED
      BY <1>1, <3>1, RefusalSound DEF a
  <2> QED
    BY <2>2, <2>3, <2>4, <2>5, <2>6, <2>7, <2>8
<1> QED
  BY <1>3, <1>4, <1>5 DEF ScsiCommands, a

-----------------------------------------------------------------------------
(* Initially, and in every step *)

USE DEF Is, diskVars, unitVars, replyVars

\* A fresh unit has nothing cached and nothing answered.
LEMMA InitOK == Init => CommandsInv
<1> SUFFICES ASSUME Init PROVE CommandsInv
  OBVIOUS
<1>1. "none" \in IoErrors
  BY DEF IoErrors
<1>2. 0 \in 0 .. W64 - 1 /\ 0 \in 0 .. W32 - 1
  BY Widths
<1>3. /\ scsi.of = "none" /\ report.of = "none" /\ issued.of = "none"
      /\ scsi = None /\ report = None /\ issued = None
  BY DEF Init, None
<1>4. Types
  BY <1>1, <1>2 DEF Init, Types, NoRdb, GOOD
<1>5. CapacityExact /\ Quiet /\ Stations /\ RdbInv
  BY <1>3 DEF Init, CapacityExact, Quiet, Stations, RdbInv, NoRdb
<1>6. Reported(report) /\ CdbExact /\ ScsiAnswerSound
  BY <1>3 DEF Reported, CdbExact, ScsiAnswerSound, ScsiAnswerTruthful, AnswerFits, AnswerInBuffer
<1> QED
  BY <1>4, <1>5, <1>6 DEF CommandsInv

\* The disk.
LEMMA DiskIs ==
  ASSUME disk \in Disks
  PROVE  /\ disk.blocks \in 1 .. W64 - 1 /\ disk.blksz \in Nat \ {0}
         /\ disk.blocks \in Nat /\ disk.blocks < W64 /\ disk.blocks > 0
  BY CommandsAssumption, Widths

\* The 32-bit clamp.
LEMMA ClampIs ==
  ASSUME NEW n \in Nat
  PROVE  /\ Clamp32(n) \in 0 .. W32 - 1 /\ Clamp32(n) <= n /\ (n < W32 => Clamp32(n) = n)
         /\ n > 0 => Clamp32(n) > 0 /\ AtLeastOne(Clamp32(n)) = Clamp32(n)
  BY Widths DEF Clamp32, AtLeastOne

\* What ReportGeometry puts into the 32-bit structure.
LEMMA GeometryIs ==
  ASSUME NEW n \in Nat, n > 0, NEW bs \in Nat
  PROVE  LET g == DriveGeometry(n, bs)
         IN /\ g.of = "TD_GETGEOMETRY" /\ g.SectorSize = bs
            /\ g.TotalSectors \in 0 .. W32 - 1 /\ g.Cylinders \in 0 .. W32 - 1
            /\ g.TotalSectors > 0 /\ g.TotalSectors <= n
            /\ g.Cylinders * g.CylSectors > 0 /\ g.Cylinders * g.CylSectors <= n
            /\ g.Heads * g.TrackSectors = g.CylSectors
            /\ n < W32 => g.Cylinders * g.CylSectors = n /\ g.TotalSectors = n
            /\ n % CylCap = 0 /\ n < W32 * CylCap => g.Cylinders * g.CylSectors = n
<1> DEFINE g == DriveGeometry(n, bs)
<1>1. CylCap \in Nat \ {0}
  BY CommandsAssumption
<1>2. PICK p \in Nat \ {0} : p = CylSectors(n) /\ n % p = 0 /\ (n % CylCap = 0 => p = CylCap)
  BY <1>1, CylSectorsIs
<1>3. PICK m \in Nat : m = n \div p /\ n = m * p
  <2>1. n \div p \in Nat /\ n = (n \div p) * p + (n % p)
    BY DivMod
  <2> QED
    BY <1>2, <2>1
<1>4. m > 0 /\ m <= n
  <2>1. m = 0 => m * p = 0
    OBVIOUS
  <2>2. m * p >= m
    BY <1>2
  <2> QED
    BY <1>3, <2>1, <2>2
<1>5. PICK c \in Nat : /\ c = Clamp32(m) /\ c \in 0 .. W32 - 1 /\ c > 0 /\ c <= m
                       /\ (m < W32 => c = m) /\ AtLeastOne(c) = c
  BY <1>4, ClampIs
<1>6. PICK t \in Nat : /\ t = Clamp32(n) /\ t \in 0 .. W32 - 1 /\ t > 0 /\ t <= n
                       /\ (n < W32 => t = n)
  BY ClampIs
<1>7. /\ g.of = "TD_GETGEOMETRY" /\ g.SectorSize = bs /\ g.TotalSectors = t /\ g.Cylinders = c
      /\ g.CylSectors = p /\ g.Heads = p /\ g.TrackSectors = 1
  BY <1>2, <1>3, <1>5, <1>6 DEF DriveGeometry
<1> HIDE DEF g
<1>8. c * p > 0 /\ c * p <= n
  <2>1. c * p >= p
    BY <1>5, <1>2
  <2>2. c * p <= m * p
    BY <1>5, <1>2
  <2> QED
    BY <1>2, <1>3, <2>1, <2>2
<1>9. n < W32 => c * p = n
  BY <1>3, <1>4, <1>5, Widths
<1>10. ASSUME n % CylCap = 0, n < W32 * CylCap PROVE c * p = n
  <2>1. p = CylCap
    BY <1>2, <1>10
  <2>2. m < W32
    <3>1. SUFFICES ASSUME m >= W32 PROVE FALSE
      BY Widths
    <3>2. m * CylCap >= W32 * CylCap
      BY <1>1, <3>1, Widths
    <3>3. W32 * CylCap \in Nat
      BY <1>1, Widths
    <3> QED
      BY <1>3, <1>10, <2>1, <3>2, <3>3
  <2> QED
    BY <1>3, <1>5, <2>2
<1> QED
  BY <1>5, <1>6, <1>7, <1>8, <1>9, <1>10 DEF g

\* So every report is right.
LEMMA ReportedIsRight ==
  ASSUME disk \in Disks, Reported(report)
  PROVE  /\ TracksFresh /\ SizeReported
         /\ Is(report, "TD_GETGEOMETRY") => {report.TotalSectors, report.Cylinders} \subseteq 0 .. W32 - 1
<1>1. CASE report = None
  BY <1>1 DEF None, TracksFresh, SizeReported
<1>2. CASE report = DriveGeometry64(disk.blocks, disk.blksz)
  <2>1. /\ report.of = "NSCMD_TD_GETGEOMETRY64" /\ report.TotalSectors = disk.blocks
        /\ report.SectorSize = disk.blksz
    BY <1>2 DEF DriveGeometry64
  <2> QED
    BY <2>1 DEF TracksFresh, SizeReported
<1>3. CASE report = DriveGeometry(disk.blocks, disk.blksz)
  <2>1. LET g == report
            n == disk.blocks
        IN /\ g.of = "TD_GETGEOMETRY" /\ g.SectorSize = disk.blksz
           /\ g.TotalSectors \in 0 .. W32 - 1 /\ g.Cylinders \in 0 .. W32 - 1
           /\ g.TotalSectors > 0 /\ g.TotalSectors <= n
           /\ g.Cylinders * g.CylSectors > 0 /\ g.Cylinders * g.CylSectors <= n
           /\ g.Heads * g.TrackSectors = g.CylSectors
           /\ n < W32 => g.Cylinders * g.CylSectors = n /\ g.TotalSectors = n
           /\ n % CylCap = 0 /\ n < W32 * CylCap => g.Cylinders * g.CylSectors = n
    BY <1>3, DiskIs, GeometryIs
  <2> QED
    BY <2>1 DEF TracksFresh, SizeReported
<1>4. ASSUME NEW S, report = [of |-> "TD_GETNUMTRACKS", tracks |-> DefaultTracks, known |-> FALSE, seen |-> S]
      PROVE  /\ TracksFresh /\ SizeReported
             /\ Is(report, "TD_GETGEOMETRY") => {report.TotalSectors, report.Cylinders} \subseteq 0 .. W32 - 1
  <2>1. report.of = "TD_GETNUMTRACKS" /\ report.tracks = DefaultTracks /\ ~report.known
    BY <1>4
  <2> QED
    BY <2>1 DEF TracksFresh, SizeReported
<1>5. ASSUME NEW n, NEW S,
             report = [of |-> "TD_GETNUMTRACKS", tracks |-> n, known |-> TRUE, seen |-> S],
             n = Clamp32(disk.blocks) \/ \E b \in S : HeaderValid(b, disk.blocks) /\ b.cyls = n
      PROVE  /\ TracksFresh /\ SizeReported
             /\ Is(report, "TD_GETGEOMETRY") => {report.TotalSectors, report.Cylinders} \subseteq 0 .. W32 - 1
  <2>1. report.of = "TD_GETNUMTRACKS" /\ report.tracks = n /\ report.known /\ report.seen = S
    BY <1>5
  <2>2. n \in {b.cyls : b \in {b \in S : HeaderValid(b, disk.blocks)}} \cup {Clamp32(disk.blocks)}
    BY <1>5
  <2> QED
    BY <2>1, <2>2 DEF TracksFresh, SizeReported
<1> QED
  BY <1>1, <1>2, <1>3, <1>4, <1>5 DEF Reported, Sized, Tracked

\* The disk is the same throughout.
LEMMA DiskFixed == [Next]_vars => disk' = disk /\ client' = client
  BY DEF Next, vars, Repartition, NextRequest, BlockIO, GeometryBadLength, GetGeometry,
         CapacityFails, ReadCapacity10, ReadCapacity16, GetNumTracks, Probe, ReadBlock0,
         ReadPartition, ReportTracks, ScsiCmd, Inline, Answered, Begin, End, Cache, ReportGeometry

\* What End leaves: an answer that keeps its type.
LEMMA EndTyped ==
  ASSUME NEW e \in IoErrors, NEW n \in Nat, End(e, n), Types
  PROVE  /\ pc' = "done" /\ command' = "none" /\ seen' = {}
         /\ answer' \in [status : {GOOD, CHECK, BUSY}, actual : Nat, sense : {0, 18},
                         io_Error : IoErrors, io_Actual : Nat]
         /\ UNCHANGED <<scsi, issued>>
  BY DEF End, Types

\* While nothing is answered, the properties of answers hold vacuously.
LEMMA QuietSound ==
  ASSUME scsi' = None, issued' = None
  PROVE  CdbExact' /\ ScsiAnswerSound'
<1>1. scsi'.of = "none" /\ issued'.of = "none"
  BY DEF None
<1> QED
  BY <1>1 DEF CdbExact, ScsiAnswerSound, ScsiAnswerTruthful, AnswerFits, AnswerInBuffer

\* Rewriting the table leaves the caches as they are: they say what was read.
LEMMA RepartitionOK == ASSUME CommandsInv, Repartition PROVE CommandsInv'
<1>1. /\ pc # "done" /\ pc' = pc /\ disk' = disk /\ client' = client
      /\ UNCHANGED <<unitVars, command, replyVars>>
      /\ block0' \in Headers /\ partition' \in Partitions
      /\ seen' = IF pc = "idle" THEN {} ELSE seen \cup {block0'}
  BY DEF Repartition, CommandsInv, Types
<1>2. Types'
  BY <1>1 DEF CommandsInv, Types
<1>3. CapacityExact' /\ Quiet' /\ Stations' /\ Reported(report)'
  BY <1>1 DEF CommandsInv, CapacityExact, Quiet, Stations, Reported, Sized, Tracked
<1>4. RdbInv'
  BY <1>1 DEF CommandsInv, RdbInv
<1>5. CdbExact' /\ ScsiAnswerSound'
  BY <1>1, QuietSound DEF CommandsInv, Quiet
<1> QED
  BY <1>2, <1>3, <1>4, <1>5 DEF CommandsInv

\* The caller goes on: the answers are gone.
LEMMA NextRequestOK == ASSUME CommandsInv, NextRequest PROVE CommandsInv'
<1>1. /\ pc = "done" /\ pc' = "idle" /\ UNCHANGED <<diskVars, unitVars, command, seen>>
      /\ scsi' = None /\ report' = None /\ issued' = None
  BY DEF NextRequest
<1>2. answer' \in [status : {GOOD, CHECK, BUSY}, actual : Nat, sense : {0, 18},
                   io_Error : IoErrors, io_Actual : Nat]
  BY DEF NextRequest, CommandsInv, Types, IoErrors
<1>3. Types'
  BY <1>1, <1>2 DEF CommandsInv, Types
<1>4. CapacityExact' /\ Quiet' /\ Stations' /\ RdbInv' /\ Reported(report)'
  BY <1>1 DEF CommandsInv, CapacityExact, Quiet, Stations, RdbInv, Reported
<1>5. CdbExact' /\ ScsiAnswerSound'
  BY <1>1, QuietSound
<1> QED
  BY <1>3, <1>4, <1>5 DEF CommandsInv

\* A step that leaves disk, caches and table alone and ends in "done".
LEMMA DoneOK ==
  ASSUME CommandsInv, UNCHANGED <<diskVars, unitVars>>, pc' = "done",
         command' \in {"none", command}, seen' \in {{}, seen},
         answer' \in [status : {GOOD, CHECK, BUSY}, actual : Nat, sense : {0, 18},
                      io_Error : IoErrors, io_Actual : Nat]
  PROVE  Types' /\ CapacityExact' /\ Quiet' /\ Stations' /\ RdbInv'
<1>1. Types'
  BY DEF CommandsInv, Types
<1> QED
  BY <1>1 DEF CommandsInv, CapacityExact, Quiet, Stations, RdbInv

\* What is answered on the spot touches io_Error and io_Actual only.
LEMMA InlineOK == ASSUME CommandsInv, NEW cmd \in DOMAIN InlineActual, Inline(cmd) PROVE CommandsInv'
<1>1. /\ UNCHANGED <<diskVars, unitVars, command, scsi, report, issued, seen>>
      /\ pc = "idle" /\ pc' = "done"
  BY DEF Inline, Answered
<1>2. InlineActual[cmd] \in Nat
  BY DEF InlineActual, CommandsInv, Types
<1>3. answer' \in [status : {GOOD, CHECK, BUSY}, actual : Nat, sense : {0, 18},
                   io_Error : IoErrors, io_Actual : Nat]
  <2>1. PICK e \in IoErrors : answer' = [answer EXCEPT !.io_Actual = InlineActual[cmd], !.io_Error = e]
    BY DEF Inline, IoErrors
  <2> HIDE DEF InlineActual
  <2> QED
    BY <1>2, <2>1 DEF CommandsInv, Types
<1>4. Types' /\ CapacityExact' /\ Quiet' /\ Stations' /\ RdbInv'
  BY <1>1, <1>3, DoneOK
<1>5. Reported(report)'
  BY <1>1 DEF CommandsInv, Reported, Sized, Tracked
<1>6. CdbExact' /\ ScsiAnswerSound'
  BY <1>1, QuietSound DEF CommandsInv, Quiet
<1> QED
  BY <1>4, <1>5, <1>6 DEF CommandsInv

\* So does a refused geometry command.
LEMMA BadLengthOK ==
  ASSUME CommandsInv, NEW cmd, GeometryBadLength(cmd) PROVE CommandsInv'
<1>1. /\ UNCHANGED <<diskVars, unitVars, command, scsi, report, issued, seen>>
      /\ pc = "idle" /\ pc' = "done"
  BY DEF GeometryBadLength, Answered
<1>2. answer' \in [status : {GOOD, CHECK, BUSY}, actual : Nat, sense : {0, 18},
                   io_Error : IoErrors, io_Actual : Nat]
  BY DEF GeometryBadLength, CommandsInv, Types, IoErrors
<1>3. Types' /\ CapacityExact' /\ Quiet' /\ Stations' /\ RdbInv'
  BY <1>1, <1>2, DoneOK
<1>4. Reported(report)'
  BY <1>1 DEF CommandsInv, Reported, Sized, Tracked
<1>5. CdbExact' /\ ScsiAnswerSound'
  BY <1>1, QuietSound DEF CommandsInv, Quiet
<1> QED
  BY <1>3, <1>4, <1>5 DEF CommandsInv

\* HD_SCSICMD: ParseSound.
LEMMA ScsiCmdOK ==
  ASSUME CommandsInv, NEW c \in ScsiInputs, NEW d \in DoIOAnswers(c), ScsiCmd(c, d)
  PROVE  CommandsInv'
<1>1. /\ UNCHANGED <<diskVars, unitVars, command, report, issued, seen>>
      /\ pc = "idle" /\ pc' = "done"
      /\ scsi' = [of |-> "HD_SCSICMD", cmd |-> c]
  BY DEF ScsiCmd, Answered
<1>2. c \in ScsiCommands
  BY CommandsAssumption
<1>3. [answer EXCEPT !.io_Error = "none"] \in Answers
  BY DEF CommandsInv, Types, Answers, IoErrors
<1>4. answer' = Parse_SCSI_Command(c, [answer EXCEPT !.io_Error = "none"], d)
  BY DEF ScsiCmd
<1>5. Sound(c, answer')
  BY <1>2, <1>3, <1>4, ParseSound
<1>6. Types' /\ CapacityExact' /\ Quiet' /\ Stations' /\ RdbInv'
  BY <1>1, <1>5, DoneOK DEF Sound, Answers
<1>7. Reported(report)'
  BY <1>1 DEF CommandsInv, Reported, Sized, Tracked
<1>8. CdbExact'
  <2>1. issued'.of = "none"
    BY <1>1 DEF CommandsInv, Quiet, None
  <2> QED
    BY <2>1 DEF CdbExact
<1>9. ScsiAnswerSound'
  <2>1. scsi'.cmd = c
    BY <1>1
  <2>2. c.alloc \in Nat /\ c.len \in Nat /\ answer'.actual \in Nat
    BY <1>2, <1>5 DEF Sound, Answers, ScsiCommands
  <2> QED
    BY <1>5, <2>1, <2>2 DEF Sound, Truthful, Fits, ScsiAnswerSound, ScsiAnswerTruthful, AnswerFits,
       AnswerInBuffer
<1> QED
  BY <1>6, <1>7, <1>8, <1>9 DEF CommandsInv

\* The two halves of an offset give it back.
LEMMA OffsetIs ==
  ASSUME NEW wide \in BOOLEAN, NEW o \in 0 .. W64 - 1, wide \/ o < W32
  PROVE  Offset64(wide, o \div W32, o % W32) = o
<1>1. W32 \in Nat \ {0} /\ o \in Nat
  BY Widths
<1>2. o = (o \div W32) * W32 + (o % W32)
  BY <1>1, DivMod
<1>3. CASE wide
  BY <1>2, <1>3 DEF Offset64
<1>4. CASE ~wide
  <2>1. o % W32 = o
    BY <1>1, <1>4, Small
  <2> QED
    BY <1>4, <2>1 DEF Offset64
<1> QED
  BY <1>3, <1>4

\* A length that is a multiple of the block size, and not zero, is of at least one block.
LEMMA WholeBlocks ==
  ASSUME NEW l \in Nat, NEW b \in Nat \ {0}, l % b = 0, l > 0
  PROVE  l \div b # 0
<1>1. l = (l \div b) * b + (l % b)
  BY DivMod
<1>2. 0 * b = 0
  OBVIOUS
<1> QED
  BY <1>1, <1>2

\* The CDB of a whole number of blocks addresses them.
LEMMA BlockCdbExact ==
  ASSUME NEW w \in BOOLEAN, NEW o \in 0 .. W64 - 1, NEW l \in 0 .. W32 - 1,
         NEW b \in Nat \ {0}, BlockSize = b, l % b = 0, l > 0
  PROVE  Addressed(BlockCdb(w, o, l)) = [write |-> w, lba |-> o \div b, blocks |-> l \div b]
<1>1. o \in Nat /\ l \in Nat /\ o < W64 /\ l < W32
  BY Widths
<1>2. PICK lba \in Nat : lba = o \div b /\ lba < W64
  <2>1. o \div b \in Nat /\ o \div b <= o
    BY <1>1, DivLe
  <2> QED
    BY <1>1, <2>1, Widths
<1>3. PICK n \in Nat : n = l \div b /\ n < W32 /\ n # 0
  <2>1. l \div b \in Nat /\ l \div b <= l
    BY <1>1, DivLe
  <2>2. l \div b # 0
    BY <1>1, WholeBlocks
  <2> QED
    BY <1>1, <2>1, <2>2, Widths
<1>4. BlockCdb(w, o, l) = IF Needs16(lba, n) THEN make_rw16_cdb(w, lba, n) ELSE make_rw10_cdb(w, lba, n)
  BY <1>2, <1>3 DEF BlockCdb
<1>5. CASE Needs16(lba, n)
  BY <1>2, <1>3, <1>4, <1>5, Rw16Exact
<1>6. CASE ~Needs16(lba, n)
  <2>1. lba < W32 /\ n < W16
    BY <1>6, Widths DEF Needs16
  <2> QED
    BY <1>2, <1>3, <1>4, <1>6, <2>1, Rw10Exact
<1> QED
  BY <1>5, <1>6

\* A block request: BlockCdbExact.
LEMMA BlockIOOK ==
  ASSUME CommandsInv, NEW wide \in BOOLEAN, NEW w \in BOOLEAN, NEW o \in Offsets, NEW l \in Lengths,
         BlockIO(wide, w, o, l)
  PROVE  CommandsInv'
<1>1. /\ UNCHANGED <<diskVars, unitVars, command, answer, scsi, report, seen>>
      /\ pc = "idle" /\ pc' = "done" /\ (wide \/ o < W32)
  BY DEF BlockIO, Answered
<1>2. /\ answer' \in [status : {GOOD, CHECK, BUSY}, actual : Nat, sense : {0, 18},
                      io_Error : IoErrors, io_Actual : Nat]
      /\ scsi' = None /\ disk' = disk /\ disk \in Disks
  BY <1>1 DEF CommandsInv, Types, Quiet
<1>3. Types' /\ CapacityExact' /\ Quiet' /\ Stations' /\ RdbInv'
  BY <1>1, <1>2, DoneOK
<1>4. Reported(report)'
  BY <1>1 DEF CommandsInv, Reported, Sized, Tracked
<1>5. ScsiAnswerSound'
  <2>1. scsi'.of = "none"
    BY <1>2 DEF None
  <2> QED
    BY <2>1 DEF ScsiAnswerSound, ScsiAnswerTruthful, AnswerFits, AnswerInBuffer
<1>6. o \in 0 .. W64 - 1 /\ l \in 0 .. W32 - 1
  BY CommandsAssumption
<1>7. issued' = [of |-> "block", write |-> w, offset |-> o, length |-> l,
                 known |-> geometry_valid, cdb |-> BlockCdb(w, o, l)]
  BY <1>1, <1>6, OffsetIs DEF BlockIO
<1>8. /\ issued'.write = w /\ issued'.offset = o /\ issued'.length = l
      /\ issued'.known = geometry_valid /\ issued'.cdb = BlockCdb(w, o, l)
  BY <1>7
<1>9. PICK b \in Nat \ {0} : b = disk.blksz
  BY <1>2, DiskIs
<1>10. CdbExact'
  <2>1. SUFFICES ASSUME geometry_valid \/ b = DefaultBlock, l % b = 0, l > 0
                 PROVE  Addressed(BlockCdb(w, o, l)) = [write |-> w, lba |-> o \div b, blocks |-> l \div b]
    BY <1>2, <1>8, <1>9 DEF CdbExact
  <2>2. BlockSize = b
    BY <1>9, <2>1 DEF BlockSize, CommandsInv, CapacityExact
  <2> QED
    BY <1>6, <2>1, <2>2, BlockCdbExact
<1> QED
  BY <1>3, <1>4, <1>5, <1>10 DEF CommandsInv

\* A command that asks the disk begins.
LEMMA BeginOK ==
  ASSUME CommandsInv,
         NEW cmd \in {"TD_GETGEOMETRY", "NSCMD_TD_GETGEOMETRY64", "TD_GETNUMTRACKS"},
         NEW stage \in {"rc10", "probe"}, Begin(cmd, stage),
         stage = "probe" => geometry_valid /\ cmd = "TD_GETNUMTRACKS"
  PROVE  CommandsInv'
<1>1. /\ pc = "idle" /\ pc' = stage /\ command' = cmd /\ seen' = {block0}
      /\ UNCHANGED <<diskVars, unitVars, replyVars>>
  BY DEF Begin
<1>2. Types'
  BY <1>1 DEF CommandsInv, Types
<1>3. CapacityExact' /\ Quiet' /\ Stations' /\ RdbInv'
  BY <1>1 DEF CommandsInv, CapacityExact, Quiet, Stations, RdbInv
<1>4. Reported(report)'
  BY <1>1 DEF CommandsInv, Reported, Sized, Tracked
<1>5. CdbExact' /\ ScsiAnswerSound'
  BY <1>1, QuietSound DEF CommandsInv, Quiet
<1> QED
  BY <1>2, <1>3, <1>4, <1>5 DEF CommandsInv

\* TD_GETNUMTRACKS begins, with or without the capacity.
LEMMA GetNumTracksOK == ASSUME CommandsInv, GetNumTracks PROVE CommandsInv'
<1>1. CASE geometry_valid
  <2>1. Begin("TD_GETNUMTRACKS", "probe")
    BY <1>1 DEF GetNumTracks
  <2> QED
    BY <1>1, <2>1, BeginOK
<1>2. CASE ~geometry_valid
  <2>1. Begin("TD_GETNUMTRACKS", "rc10")
    BY <1>2 DEF GetNumTracks
  <2> QED
    BY <2>1, BeginOK
<1> QED
  BY <1>1, <1>2

\* The geometry commands report the cached capacity or begin to ask for it.
LEMMA GetGeometryOK == ASSUME CommandsInv, NEW cmd, GetGeometry(cmd) PROVE CommandsInv'
<1>1. cmd \in {"TD_GETGEOMETRY", "NSCMD_TD_GETGEOMETRY64"} /\ pc = "idle"
  BY DEF GetGeometry, GeometryCommands
<1>2. CASE Begin(cmd, "rc10")
  BY <1>1, <1>2, BeginOK
<1>3. CASE /\ geometry_valid /\ ReportGeometry(cmd, total_blocks, block_size)
           /\ UNCHANGED <<diskVars, unitVars>>
  <2>1. End("none", 1) /\ "none" \in IoErrors /\ Types
    BY <1>3 DEF ReportGeometry, IoErrors, CommandsInv
  <2>2. /\ pc' = "done" /\ command' = "none" /\ seen' = {}
        /\ answer' \in [status : {GOOD, CHECK, BUSY}, actual : Nat, sense : {0, 18},
                        io_Error : IoErrors, io_Actual : Nat]
        /\ scsi' = scsi /\ issued' = issued
    BY <2>1, EndTyped
  <2>3. Types' /\ CapacityExact' /\ Quiet' /\ Stations' /\ RdbInv'
    BY <1>3, <2>2, DoneOK
  <2>4. Reported(report)'
    BY <1>1, <1>3 DEF ReportGeometry, CommandsInv, CapacityExact, Reported, Sized
  <2>5. CdbExact' /\ ScsiAnswerSound'
    BY <1>1, <2>2, QuietSound DEF CommandsInv, Quiet
  <2> QED
    BY <2>3, <2>4, <2>5 DEF CommandsInv
<1> QED
  BY <1>2, <1>3 DEF GetGeometry

\* A failure leaves the cache invalid.
LEMMA CapacityFailsOK == ASSUME CommandsInv, CapacityFails PROVE CommandsInv'
<1>1. /\ pc \in {"rc10", "rc16"} /\ UNCHANGED <<diskVars, unitVars>>
      /\ scsi = None /\ report = None /\ issued = None /\ Types
  BY DEF CapacityFails, CommandsInv, Quiet
<1>2. PICK rc \in DoIOFailures \cup {"HFERR_BadStatus"} :
       IF command = "TD_GETNUMTRACKS"
       THEN /\ End("none", DefaultTracks)
            /\ report' = [of |-> "TD_GETNUMTRACKS", tracks |-> DefaultTracks, known |-> FALSE,
                          seen |-> seen]
       ELSE End(rc, 0) /\ UNCHANGED report
  BY DEF CapacityFails
<1>3. PICK e \in IoErrors, n \in Nat : End(e, n)
  <2>1. "none" \in IoErrors /\ rc \in IoErrors /\ DefaultTracks \in Nat
    BY CommandsAssumption DEF IoErrors
  <2> QED
    BY <1>2, <2>1
<1>4. /\ pc' = "done" /\ command' = "none" /\ seen' = {}
      /\ answer' \in [status : {GOOD, CHECK, BUSY}, actual : Nat, sense : {0, 18},
                      io_Error : IoErrors, io_Actual : Nat]
      /\ scsi' = scsi /\ issued' = issued
  BY <1>1, <1>3, EndTyped
<1>5. Types' /\ CapacityExact' /\ Quiet' /\ Stations' /\ RdbInv'
  BY <1>1, <1>4, DoneOK
<1>6. Reported(report)'
  <2>1. CASE command = "TD_GETNUMTRACKS"
    BY <1>2, <2>1 DEF Reported, Tracked
  <2>2. CASE command # "TD_GETNUMTRACKS"
    BY <1>1, <1>2, <2>2 DEF Reported
  <2> QED
    BY <2>1, <2>2
<1>7. CdbExact' /\ ScsiAnswerSound'
  BY <1>1, <1>4, QuietSound
<1> QED
  BY <1>5, <1>6, <1>7 DEF CommandsInv

\* Caching the address of the last block makes the caches right.
LEMMA CacheOK ==
  ASSUME CommandsInv, pc \in {"rc10", "rc16"}, Cache(disk.blocks - 1)
  PROVE  CommandsInv'
<1>1. disk.blocks \in Nat /\ disk.blocks < W64 /\ disk.blocks > 0 /\ disk.blksz \in Nat \ {0}
  BY DiskIs DEF CommandsInv, Types
<1>2. ((disk.blocks - 1) + 1) % W64 = disk.blocks
  <2>1. (disk.blocks - 1) + 1 = disk.blocks
    BY <1>1
  <2> QED
    BY <1>1, <2>1, Small, Widths
<1>3. /\ geometry_valid' = TRUE /\ block_size' = disk.blksz /\ total_blocks' = disk.blocks
      /\ UNCHANGED <<rdb, wrapped>> /\ UNCHANGED diskVars
      /\ IF command = "TD_GETNUMTRACKS"
         THEN pc' = "probe" /\ UNCHANGED <<command, replyVars, seen>>
         ELSE ReportGeometry(command, disk.blocks, disk.blksz)
  BY <1>2 DEF Cache
<1>4. disk.blocks \in 0 .. W64 - 1
  BY <1>1, Widths
<1>5. /\ scsi = None /\ report = None /\ issued = None /\ Types
  BY DEF CommandsInv, Quiet
<1>6. CapacityExact'
  BY <1>3 DEF CapacityExact
<1>7. CASE command = "TD_GETNUMTRACKS"
  <2>1. pc' = "probe" /\ UNCHANGED <<command, replyVars, seen>>
    BY <1>3, <1>7
  <2>2. Types'
    BY <1>1, <1>3, <1>4, <2>1 DEF CommandsInv, Types
  <2>3. Quiet' /\ Stations' /\ RdbInv'
    BY <1>3, <1>5, <1>7, <2>1 DEF CommandsInv, Quiet, Stations, RdbInv
  <2>4. Reported(report)' /\ CdbExact' /\ ScsiAnswerSound'
    BY <1>5, <2>1, QuietSound DEF Reported
  <2> QED
    BY <1>6, <2>2, <2>3, <2>4 DEF CommandsInv
<1>8. CASE command # "TD_GETNUMTRACKS"
  <2>1. ReportGeometry(command, disk.blocks, disk.blksz) /\ "none" \in IoErrors
    BY <1>3, <1>8 DEF IoErrors
  <2>2. /\ pc' = "done" /\ command' = "none" /\ seen' = {}
        /\ answer' \in [status : {GOOD, CHECK, BUSY}, actual : Nat, sense : {0, 18},
                        io_Error : IoErrors, io_Actual : Nat]
        /\ scsi' = scsi /\ issued' = issued
    BY <1>5, <2>1, EndTyped DEF ReportGeometry
  <2>3. Types'
    BY <1>1, <1>3, <1>4, <2>2 DEF CommandsInv, Types
  <2>4. Quiet' /\ Stations' /\ RdbInv'
    BY <1>3, <1>5, <2>2 DEF CommandsInv, Quiet, Stations, RdbInv
  <2>5. Reported(report)'
    BY <1>3, <2>1 DEF ReportGeometry, Reported, Sized
  <2>6. CdbExact' /\ ScsiAnswerSound'
    BY <1>5, <2>2, QuietSound
  <2> QED
    BY <1>6, <2>3, <2>4, <2>5, <2>6 DEF CommandsInv
<1> QED
  BY <1>7, <1>8

\* Either width of READ CAPACITY leads to the disk's own count.
LEMMA ReadCapacityOK ==
  ASSUME CommandsInv, ReadCapacity10 \/ ReadCapacity16
  PROVE  CommandsInv'
<1>1. disk.blocks \in Nat /\ disk.blocks < W64 /\ disk.blocks > 0
  BY DiskIs DEF CommandsInv, Types
<1>2. CASE ReadCapacity16
  BY <1>2, CacheOK DEF ReadCapacity16
<1>3. CASE ReadCapacity10 /\ ~AllOnes(LastLba10)
  <2>1. LastLba10 = disk.blocks - 1
    BY <1>3 DEF AllOnes, LastLba10
  <2> QED
    BY <1>3, <2>1, CacheOK DEF ReadCapacity10
<1>4. CASE ReadCapacity10 /\ AllOnes(LastLba10)
  <2>1. /\ pc = "rc10" /\ pc' = "rc16"
        /\ UNCHANGED <<diskVars, unitVars, command, replyVars, seen>>
    BY <1>4 DEF ReadCapacity10
  <2>2. Types'
    BY <2>1 DEF CommandsInv, Types
  <2>3. CapacityExact' /\ Quiet' /\ Stations' /\ RdbInv'
    BY <2>1 DEF CommandsInv, CapacityExact, Quiet, Stations, RdbInv
  <2>4. Reported(report)'
    BY <2>1 DEF CommandsInv, Reported, Sized, Tracked
  <2>5. CdbExact' /\ ScsiAnswerSound'
    BY <2>1, QuietSound DEF CommandsInv, Quiet
  <2> QED
    BY <2>2, <2>3, <2>4, <2>5 DEF CommandsInv
<1> QED
  BY <1>2, <1>3, <1>4

\* A step of TD_GETNUMTRACKS that changes the cached table, and no more.
LEMMA TableOK ==
  ASSUME CommandsInv, pc \in {"probe", "block0", "partition"},
         pc' \in {"block0", "partition", "tracks"},
         UNCHANGED <<diskVars, geometry_valid, block_size, total_blocks, command, replyVars, seen>>,
         rdb' \in [valid : BOOLEAN, cyls : 0 .. W32 - 1, sectors : 0 .. W32 - 1, heads : 0 .. W32 - 1],
         wrapped' \in BOOLEAN, RdbInv'
  PROVE  CommandsInv'
<1>1. Types'
  BY DEF CommandsInv, Types
<1>2. CapacityExact' /\ Quiet' /\ Stations'
  BY DEF CommandsInv, CapacityExact, Quiet, Stations
<1>3. Reported(report)'
  BY DEF CommandsInv, Reported, Sized, Tracked
<1>4. CdbExact' /\ ScsiAnswerSound'
  BY QuietSound DEF CommandsInv, Quiet
<1> QED
  BY <1>1, <1>2, <1>3, <1>4 DEF CommandsInv

\* The old table is forgotten first.
LEMMA ProbeOK == ASSUME CommandsInv, Probe PROVE CommandsInv'
<1>1. /\ pc = "probe" /\ pc' = "block0" /\ rdb' = NoRdb /\ wrapped' = FALSE
      /\ UNCHANGED <<diskVars, geometry_valid, block_size, total_blocks, command, replyVars, seen>>
  BY DEF Probe, ForgetRdb
<1>2. rdb' \in [valid : BOOLEAN, cyls : 0 .. W32 - 1, sectors : 0 .. W32 - 1, heads : 0 .. W32 - 1]
  BY <1>1, Widths DEF NoRdb
<1>3. RdbInv'
  BY <1>1 DEF RdbInv, NoRdb
<1> QED
  BY <1>1, <1>2, <1>3, TableOK

\* Three factors.
LEMMA Grouping ==
  ASSUME NEW a \in Nat, NEW b \in Nat, NEW c \in Nat
  PROVE  (a * b) * c = a * (b * c)
  OBVIOUS

\* A 32-bit count of cylinders that fit 32 bits each is within 64 bits.
LEMMA CylindersFit ==
  ASSUME NEW c \in Nat, NEW n \in Nat, c < W32, n < W32
  PROVE  c * n < W64
<1>1. W32 \in Nat \ {0}
  BY Widths
<1>2. c * n <= c * W32 /\ c * W32 < W32 * W32
  BY <1>1
<1> QED
  BY <1>1, <1>2 DEF W64

\* A valid header's cylinders fit the disk, if the product of the check did not
\* wrap.
LEMMA ReadBlock0OK == ASSUME CommandsInv, ReadBlock0 PROVE CommandsInv'
<1>1. /\ pc = "block0" /\ pc' \in {"tracks", "partition"}
      /\ UNCHANGED <<diskVars, geometry_valid, block_size, total_blocks, command, replyVars, seen>>
  BY DEF ReadBlock0
<1>2. /\ geometry_valid /\ ~rdb.valid /\ block0 \in seen /\ block0 \in Headers
      /\ total_blocks = disk.blocks /\ disk' = disk
  BY <1>1 DEF CommandsInv, Stations, RdbInv, CapacityExact, Types
<1>3. CASE pc' = "tracks" /\ UNCHANGED <<rdb, wrapped>>
  <2>1. /\ rdb' \in [valid : BOOLEAN, cyls : 0 .. W32 - 1, sectors : 0 .. W32 - 1, heads : 0 .. W32 - 1]
        /\ wrapped' \in BOOLEAN
    BY <1>3 DEF CommandsInv, Types
  <2>2. RdbInv'
    BY <1>1, <1>2, <1>3 DEF RdbInv
  <2> QED
    BY <1>1, <1>3, <2>1, <2>2, TableOK
<1>4. CASE /\ HeaderValid(block0, total_blocks)
           /\ rdb' = [valid |-> TRUE, cyls |-> block0.cyls, sectors |-> block0.sectors,
                      heads |-> block0.heads]
           /\ wrapped' = (block0.sectors * block0.heads >= W32)
  <2>1. PICK c \in 0 .. W32 - 1, s \in 0 .. W32 - 1, h \in 0 .. W32 - 1 :
          c = block0.cyls /\ s = block0.sectors /\ h = block0.heads
    BY <1>2, CommandsAssumption
  <2>2. c \in Nat /\ s \in Nat /\ h \in Nat /\ c < W32 /\ s * h \in Nat /\ W32 \in Nat
    BY Widths
  <2>3. rdb'.valid /\ rdb'.cyls = c /\ rdb'.sectors = s /\ rdb'.heads = h
    BY <1>4, <2>1
  <2>4. /\ rdb' \in [valid : BOOLEAN, cyls : 0 .. W32 - 1, sectors : 0 .. W32 - 1, heads : 0 .. W32 - 1]
        /\ wrapped' \in BOOLEAN /\ (~wrapped' => s * h < W32)
    <3>1. PICK n \in Nat : n = s * h
      BY <2>2
    <3>2. wrapped' = (n >= W32)
      BY <1>4, <2>1, <3>1, Zenon
    <3>3. wrapped' \in BOOLEAN
      BY <2>2, <3>2, SMT
    <3>4. ~wrapped' => ~(n >= W32)
      BY <3>2, Zenon
    <3> QED
      BY <1>4, <2>1, <2>2, <3>1, <3>3, <3>4
  <2>5. ASSUME s * h < W32 PROVE c * (s * h) <= disk.blocks
    <3>1. (c * s * h) % W64 <= disk.blocks
      BY <1>2, <1>4, <2>1 DEF HeaderValid
    <3>2. (c * s) * h = c * (s * h)
      BY <2>2, Grouping
    <3>3. (c * s) * h \in Nat
      BY <2>2
    <3>4. c * (s * h) < W64
      BY <2>2, <2>5, CylindersFit
    <3>5. ((c * s) * h) % W64 = (c * s) * h
      BY <3>2, <3>3, <3>4, Widths, Small
    <3> QED
      BY <3>1, <3>2, <3>5
  <2>6. HeaderValid(block0, disk.blocks) /\ block0.cyls = c
    BY <1>2, <1>4, <2>1
  <2>7. RdbInv'
    <3>1. \E b \in seen : HeaderValid(b, disk.blocks) /\ b.cyls = c
      BY <1>2, <2>6
    <3> QED
      BY <1>1, <1>2, <2>3, <2>4, <2>5, <3>1 DEF RdbInv
  <2> QED
    BY <1>1, <2>4, <2>7, TableOK
<1> QED
  BY <1>3, <1>4 DEF ReadBlock0

\* The partition's shape has as many blocks per cylinder, so the product stays,
\* if neither wrapped.
LEMMA ReadPartitionOK == ASSUME CommandsInv, ReadPartition PROVE CommandsInv'
<1>1. /\ pc = "partition" /\ pc' = "tracks"
      /\ UNCHANGED <<diskVars, geometry_valid, block_size, total_blocks, command, replyVars, seen>>
  BY DEF ReadPartition
<1>2. CASE UNCHANGED <<rdb, wrapped>>
  <2>1. /\ rdb' \in [valid : BOOLEAN, cyls : 0 .. W32 - 1, sectors : 0 .. W32 - 1, heads : 0 .. W32 - 1]
        /\ wrapped' \in BOOLEAN
    BY <1>2 DEF CommandsInv, Types
  <2>2. RdbInv'
    BY <1>1, <1>2 DEF CommandsInv, RdbInv
  <2> QED
    BY <1>1, <2>1, <2>2, TableOK
<1>3. CASE /\ SameCylinder(partition)
           /\ rdb' = [rdb EXCEPT !.heads = partition.surfaces, !.sectors = partition.blkpt]
           /\ wrapped' = (wrapped \/ partition.surfaces * partition.blkpt >= W32)
  <2>1. PICK h \in 0 .. W32 - 1, s \in 0 .. W32 - 1 : h = partition.surfaces /\ s = partition.blkpt
    BY CommandsAssumption DEF CommandsInv, Types
  <2>2. PICK oh \in 0 .. W32 - 1, os \in 0 .. W32 - 1 : oh = rdb.heads /\ os = rdb.sectors
    BY DEF CommandsInv, Types
  <2>3. /\ h \in Nat /\ s \in Nat /\ oh \in Nat /\ os \in Nat
        /\ W32 \in Nat \ {0} /\ h * s \in Nat /\ os * oh \in Nat
    BY Widths
  <2>4. /\ rdb' \in [valid : BOOLEAN, cyls : 0 .. W32 - 1, sectors : 0 .. W32 - 1, heads : 0 .. W32 - 1]
        /\ rdb'.valid = rdb.valid /\ rdb'.cyls = rdb.cyls /\ rdb'.sectors = s /\ rdb'.heads = h
    BY <1>3, <2>1 DEF CommandsInv, Types
  <2>5. /\ wrapped' \in BOOLEAN
        /\ ~wrapped' => ~wrapped /\ h * s < W32
    <3>1. PICK n \in Nat : n = h * s
      BY <2>3
    <3>2. wrapped \in BOOLEAN
      BY DEF CommandsInv, Types
    <3>3. wrapped' = (wrapped \/ n >= W32)
      BY <1>3, <2>1, <3>1, Zenon
    <3>4. wrapped' \in BOOLEAN /\ (~wrapped' => ~wrapped /\ ~(n >= W32))
      BY <3>2, <3>3, Zenon
    <3> QED
      BY <2>3, <3>1, <3>4
  <2>6. ASSUME rdb.valid, ~wrapped' PROVE s * h = os * oh /\ os * oh < W32
    <3>1. os * oh < W32 /\ h * s < W32
      BY <2>2, <2>5, <2>6 DEF CommandsInv, RdbInv
    <3>2. (h * s) % W32 = h * s
      BY <2>3, <3>1, Small
    <3>3. (os * oh) % W32 = os * oh
      BY <2>3, <3>1, Small
    <3>4. (h * s) % W32 = (os * oh) % W32
      BY <1>3, <2>1, <2>2 DEF SameCylinder
    <3>5. s * h = h * s
      BY <2>3
    <3> QED
      BY <3>1, <3>2, <3>3, <3>4, <3>5
  <2>7. RdbInv'
    <3>1. rdb'.valid /\ ~wrapped' => /\ rdb'.sectors * rdb'.heads < W32
                                    /\ rdb'.cyls * (rdb'.sectors * rdb'.heads) <= disk'.blocks
      BY <1>1, <2>2, <2>4, <2>5, <2>6 DEF CommandsInv, RdbInv
    <3> QED
      BY <1>1, <2>4, <3>1 DEF CommandsInv, RdbInv
  <2> QED
    BY <1>1, <2>4, <2>5, <2>7, TableOK
<1> QED
  BY <1>2, <1>3 DEF ReadPartition

\* The track count comes from the table, or from the capacity.
LEMMA ReportTracksOK == ASSUME CommandsInv, ReportTracks PROVE CommandsInv'
<1> DEFINE tracks == IF rdb.valid THEN rdb.cyls ELSE AtLeastOne(Clamp32(total_blocks))
<1>1. /\ pc = "tracks" /\ UNCHANGED <<diskVars, unitVars>> /\ End("none", tracks)
      /\ report' = [of |-> "TD_GETNUMTRACKS", tracks |-> tracks, known |-> TRUE, seen |-> seen]
  BY DEF ReportTracks
<1>2. /\ scsi = None /\ report = None /\ issued = None /\ Types
      /\ total_blocks = disk.blocks /\ disk \in Disks /\ disk' = disk
  BY <1>1 DEF CommandsInv, Quiet, Stations, CapacityExact, Types
<1>3. /\ tracks \in Nat
      /\ \/ tracks = Clamp32(disk.blocks)
         \/ \E b \in seen : HeaderValid(b, disk.blocks) /\ b.cyls = tracks
  <2>1. CASE rdb.valid
    <3>1. rdb.cyls \in Nat
      BY Widths DEF CommandsInv, Types
    <3> QED
      BY <1>1, <2>1, <3>1 DEF CommandsInv, RdbInv
  <2>2. CASE ~rdb.valid
    <3>1. disk.blocks \in Nat /\ disk.blocks > 0
      BY <1>2, DiskIs
    <3>2. Clamp32(disk.blocks) \in 0 .. W32 - 1 /\ AtLeastOne(Clamp32(disk.blocks)) = Clamp32(disk.blocks)
      BY <3>1, ClampIs
    <3> QED
      BY <1>2, <2>2, <3>2, Widths
  <2> QED
    BY <2>1, <2>2
<1> HIDE DEF tracks
<1>4. "none" \in IoErrors
  BY DEF IoErrors
<1>5. /\ pc' = "done" /\ command' = "none" /\ seen' = {}
      /\ answer' \in [status : {GOOD, CHECK, BUSY}, actual : Nat, sense : {0, 18},
                      io_Error : IoErrors, io_Actual : Nat]
      /\ scsi' = scsi /\ issued' = issued
  BY <1>1, <1>2, <1>3, <1>4, EndTyped
<1>6. Types' /\ CapacityExact' /\ Quiet' /\ Stations' /\ RdbInv'
  BY <1>1, <1>5, DoneOK
<1>7. Tracked(report)'
  BY <1>1, <1>2, <1>3 DEF Tracked, HeaderValid
<1>8. CdbExact' /\ ScsiAnswerSound'
  BY <1>2, <1>5, QuietSound
<1> QED
  BY <1>6, <1>7, <1>8 DEF CommandsInv, Reported

-----------------------------------------------------------------------------
(* The theorems *)

\* Every step keeps the invariant.
LEMMA StepOK == ASSUME CommandsInv, [Next]_vars PROVE CommandsInv'
<1>1. CASE UNCHANGED vars
  <2>1. Types'
    BY <1>1 DEF vars, CommandsInv, Types
  <2>2. CapacityExact' /\ Quiet' /\ Stations' /\ RdbInv'
    BY <1>1 DEF vars, CommandsInv, CapacityExact, Quiet, Stations, RdbInv
  <2>3. Reported(report)'
    BY <1>1 DEF vars, CommandsInv, Reported, Sized, Tracked
  <2>4. CdbExact' /\ ScsiAnswerSound'
    BY <1>1 DEF vars, CommandsInv, CdbExact, ScsiAnswerSound, ScsiAnswerTruthful, AnswerFits,
       AnswerInBuffer
  <2> QED
    BY <2>1, <2>2, <2>3, <2>4 DEF CommandsInv
<1>2. CASE Next
  BY <1>2, RepartitionOK, NextRequestOK, BlockIOOK, BadLengthOK, GetGeometryOK, CapacityFailsOK,
     ReadCapacityOK, GetNumTracksOK, ProbeOK, ReadBlock0OK, ReadPartitionOK, ReportTracksOK,
     ScsiCmdOK, InlineOK DEF Next
<1> QED
  BY <1>1, <1>2

\* The inductive invariant holds in every reachable state, for disks, tables
\* and requests of any size.
THEOREM CommandsInvariant == Spec => []CommandsInv
  BY InitOK, StepOK, PTL DEF Spec

\* The capacity in the unit's cache is the disk's, whatever order the probes,
\* failures and rewrites of the table come in, and a cached partition table fits
\* it if its blocks per cylinder fit 32 bits, in the header and in the partition
\* block: the driver's checks say nothing of a table whose products wrap
\* (ensure_geometry_cached, ensure_rdb_geometry_cached).
THEOREM CachesAlwaysSound == Spec => []CachesSound
<1>1. CommandsInv => CachesSound
  <2> SUFFICES ASSUME CommandsInv PROVE CachesSound
    OBVIOUS
  <2>1. CommandsTypeOK
    BY ReportedIsRight DEF CommandsInv, Types, CommandsTypeOK
  <2>2. RdbFits
    <3>1. PICK c \in Nat, s \in Nat, h \in Nat : rdb.cyls = c /\ rdb.sectors = s /\ rdb.heads = h
      BY Widths DEF CommandsInv, Types
    <3>2. (c * s) * h = c * (s * h)
      BY Grouping
    <3> QED
      BY <3>1, <3>2 DEF CommandsInv, RdbInv, RdbFits, Types
  <2> QED
    BY <2>1, <2>2 DEF CommandsInv, CachesSound
<1> QED
  BY <1>1, CommandsInvariant, PTL

\* A track count is the disk's, the default, or that of a valid table that was
\* on the disk while the command ran (Handle_TD_GetNumTracks).
THEOREM TracksAlwaysFresh == Spec => []TracksFresh
<1>1. CommandsInv => TracksFresh
  BY ReportedIsRight DEF CommandsInv, Types
<1> QED
  BY <1>1, CommandsInvariant, PTL

\* The reported geometry covers the disk and never more, at both widths
\* (Handle_TD_GetGeometry, Handle_NS_TD_GetGeometry64).
THEOREM SizeAlwaysReported == Spec => []SizeReported
<1>1. CommandsInv => SizeReported
  BY ReportedIsRight DEF CommandsInv, Types
<1> QED
  BY <1>1, CommandsInvariant, PTL

\* A block request's CDB addresses its blocks, for every byte width, offset and
\* length (submit_block_io, make_read10_cdb and the others).
THEOREM CdbAlwaysExact == Spec => []CdbExact
<1>1. CommandsInv => CdbExact
  BY DEF CommandsInv
<1> QED
  BY <1>1, CommandsInvariant, PTL

\* An answer to HD_SCSICMD is about this command, and fits the caller's buffer
\* unless a LOG SENSE asks for more than that, for every CDB and every answer of
\* the device (Parse_SCSI_Command).
THEOREM ScsiAnswersAlwaysSound == Spec => []ScsiAnswerSound
<1>1. CommandsInv => ScsiAnswerSound
  BY DEF CommandsInv
<1> QED
  BY <1>1, CommandsInvariant, PTL
=============================================================================
