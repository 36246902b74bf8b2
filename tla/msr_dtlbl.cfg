SPECIFICATION Spec
CONSTANTS
  WORD_BITS = 12
  BANK = 1024
  INDEX_PERIOD = 65536
  TLBL = 256
  TLBH = 258
  immu_tlb_count = 2
  dmmu_tlb_count = 1
  PAGE_SHIFT = 10
  CNT_BITS = 8
  Indices <- DtlblIndices
  Words <- MCWords
  Addresses <- MCAddresses
PROPERTIES
  DtlblKept
