SPECIFICATION Spec
CONSTANTS
  BYTE = 2
  NIBBLE = 1
  SECTOR_WORDS = 2
  DISK_WORDS = 4
  INT_PERIOD = 10
INVARIANTS
  TypeOK
  DriveCoherent
