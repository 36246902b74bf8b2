SPECIFICATION USpec
CONSTANTS
  PAGE_SIZE = 10
  PAGE_COUNT = 4
  INSN_LEN = 1
  ITLB_COUNT = 1
  DTLB_COUNT = 1
  MEMORY_SIZE = 30
  MMIO_PHY_BASE = 30
  TSR_PERIOD = 4
  CNT_PERIOD = 2
  IRQ_TSC = 0
  DeviceIrqs = {3}
  RESET_VECT = 0
  Image <- MCImage
  ITable <- MCITable
  DTable <- MCDTable
  ENTRY = 0
INVARIANTS
  Carried
PROPERTIES
  Transparent
