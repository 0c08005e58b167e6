\* LOG SENSE with an allocation length beyond the caller's buffer.
SPECIFICATION Spec
CONSTANTS
  IdDigits = 1
  ByteBase = 2
  DefaultBlock = 2
  CylCap = 4
  DefaultTracks = 7
  Disks <- MCDisks
  Headers <- MCHeaders
  Partitions <- MCPartitions
  Offsets <- MCOffsets
  Lengths <- MCLengths
  ScsiInputs <- MCScsiInputs
  Residuals = {0, 1000}
  DoIOFailures = {"TDERR_NotSpecified"}
INVARIANT
  AnswerInBuffer
