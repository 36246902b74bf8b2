SPECIFICATION Spec
CONSTANTS
  PAGE_SIZE = 6
  PAGE_COUNT = 2
  INSN_LEN = 1
  ITLB_COUNT = 1
  DTLB_COUNT = 1
  MEMORY_SIZE = 10
  MMIO_PHY_BASE = 11
  TSR_PERIOD = 4
  CNT_PERIOD = 2
  IRQ_TSC = 0
  DeviceIrqs = {3}
  RESET_VECT = 0
  Image <- TimerImage
INVARIANTS
  TypeOK
  TscIrqCoherent
  InterruptBeforeInsn
PROPERTIES
  UserPreempted
