SPECIFICATION DSpec
CONSTANTS
  BYTE = 3
  NIBBLE = 1
  SECTOR_WORDS = 2
  DISK_WORDS = 22
  INT_PERIOD = 64
INVARIANTS
  InterruptMeansBlock
  AddressFollowsData
PROPERTIES
  Transfers
