SPECIFICATION StartupSpec
CONSTANTS
  BYTE = 2
  MEMORY_SIZE = 5
  MMIO_PHY_BASE = 8
  ADDR_SPACE = 12
  PAGE_SIZE = 4
  Frame <- MCFrame
  CHUNK_SIZE = 2
  Image <- MCImage
  Stored <- MCStored
  Boards <- MCBoards
  firmware_revision <- MCFirmware
  model_number <- MCModel
  Behind <- MCBehind
  ATA_CHUNK_MAXSIZE = 67108864
  ID_WORDS = 88
INVARIANTS
  TypeOK
  ImageLoaded
  OneSharedAddress
  Addressable
PROPERTIES
  ByteOrder
  AlignedInFrame
