SPECIFICATION AidsSpec
CONSTANTS
  ADDR_SPACE = 3
  INSN_LEN = 1
  RLNK = 1
  Registers = {0, 1, 5}
  MAX_STACK_TRACE_DEPTH = 2
  MAX_UNMATCHED = 2
  Vector = 0
  Entries = {1}
  MAX_ACTS = 4
  Tokens = {"0", "1c", "T"}
  Value <- MCValue
  MAX_TOKENS = 7
  MAX_RUN_TOKENS = 0
INVARIANTS
  DepthReflects
  NormalFormTraced
  LastDefinition
