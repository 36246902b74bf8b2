SPECIFICATION Spec
CONSTANTS
  WORD_BITS = 3
  IMM_BITS = 2
  REL_BITS = 2
  INSN_LEN_SHIFT = 0
  BYTE_BITS = 1
  Registers = {0, 1, 2}
  RLNK = 1
  Opcodes = {"AND", "OR", "XOR", "ADD", "SUB", "MUL", "LSL", "LSR", "ASR", "DIV", "DIVU", "MOD", "MODU", "MHI", "LOAD", "CMP", "BT", "BF", "JMP", "JMP_I", "JMP_I_LNK"}
INVARIANTS TypeOK ConstantBuilt SignRecovered Division ThereAndBack CallReturns
