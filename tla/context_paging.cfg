SPECIFICATION CSpec
CONSTANTS
  PAGE_SIZE = 10
  PAGE_COUNT = 2
  INSN_LEN = 1
  ITLB_COUNT = 1
  DTLB_COUNT = 1
  MEMORY_SIZE = 18
  MMIO_PHY_BASE = 19
  TSR_PERIOD = 2
  CNT_PERIOD = 2
  IRQ_TSC = 0
  DeviceIrqs = {3}
  RESET_VECT = 0
  Image <- PagingImage
INVARIANTS
  SavedContext
PROPERTIES
  NoAsyncNesting
  Resumed
  UserConfined
