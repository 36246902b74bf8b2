SPECIFICATION SSpec
CONSTANTS
  PAGE_SIZE = 37
  PAGE_COUNT = 1
  INSN_LEN = 1
  ITLB_COUNT = 1
  DTLB_COUNT = 1
  MEMORY_SIZE = 30
  MMIO_PHY_BASE = 30
  TSR_PERIOD = 18
  CNT_PERIOD = 9
  IRQ_TSC = 0
  DeviceIrqs = {3}
  RESET_VECT = 0
  Image <- KernelImage
  IRQ_ATA = 3
  BYTE = 3
  NIBBLE = 1
  SECTOR_WORDS = 2
  DISK_WORDS = 10
  INT_PERIOD = 64
  Compare = {0, 3, 5, 8}
  Reads <- MCReads
INVARIANTS
  NoLostWakeup
  ReadInOrder
PROPERTIES
  Served
