----------------------------- MODULE AtaProofs -----------------------------
(***************************************************************************)
(* Theorems about Ata, for every size of its registers and buffers and     *)
(* every guest, and about AtaDriver, for every request of a driver.        *)
(***************************************************************************)
EXTENDS AtaDriver, TLAPS

(* The result of a conversion to int is an int.                            *)
LEMMA IntRange == ASSUME NEW x \in Int PROVE ToInt(x) \in Int32
<1>1. INT_PERIOD \in Nat \ {0} /\ INT_PERIOD % 2 = 0 BY BufferAssumption
<1>2. x % INT_PERIOD \in 0 .. (INT_PERIOD - 1) BY <1>1
<1>3. INT_PERIOD = 2 * (INT_PERIOD \div 2) BY <1>1
<1>4. INT_PERIOD \div 2 \in Nat BY <1>1
<1> QED BY <1>1, <1>2, <1>3, <1>4 DEF ToInt, Int32

(* Digits of a number are values of the registers that take them.          *)
LEMMA Digits ==
  ASSUME NEW s \in Int
  PROVE  /\ s % BYTE \in Byte
         /\ (s \div BYTE) % BYTE \in Byte
         /\ (s \div (BYTE * BYTE)) % BYTE \in Byte
         /\ (s \div (BYTE * BYTE * BYTE)) % NIBBLE \in 0 .. (NIBBLE - 1)
<1>1. BYTE \in Nat \ {0} /\ NIBBLE \in Nat \ {0} BY RegisterAssumption
<1>2. BYTE * BYTE \in Nat \ {0} BY <1>1
<1>3. BYTE * BYTE * BYTE \in Nat \ {0} BY <1>1, <1>2
<1>4. \A m \in Nat \ {0}, n \in Nat \ {0} : (s \div m) % n \in 0 .. (n - 1) OBVIOUS
<1>5. \A n \in Nat \ {0} : s % n \in 0 .. (n - 1) OBVIOUS
<1> QED BY <1>1, <1>2, <1>3, <1>4, <1>5 DEF Byte

LEMMA SectorIsNat == TypeOK => Sector \in Nat
<1> SUFFICES ASSUME TypeOK PROVE Sector \in Nat OBVIOUS
<1>1. BYTE \in Nat /\ NIBBLE \in Nat BY RegisterAssumption
<1>2. head.head \in Nat /\ cylHigh \in Nat /\ cylLow \in Nat /\ number \in Nat
  BY <1>1 DEF TypeOK, DriverHead, Byte
<1>3. \A a \in Nat, b \in Nat : a * BYTE + b \in Nat BY <1>1
<1>4. head.head * BYTE + cylHigh \in Nat BY <1>2, <1>3
<1>5. (head.head * BYTE + cylHigh) * BYTE + cylLow \in Nat BY <1>2, <1>3, <1>4
<1>6. ((head.head * BYTE + cylHigh) * BYTE + cylLow) * BYTE + number \in Nat
  BY <1>2, <1>3, <1>5
<1> QED BY <1>6 DEF Sector

-----------------------------------------------------------------------------
LEMMA InitType == Init => TypeOK
<1> SUFFICES ASSUME Init PROVE TypeOK OBVIOUS
<1>1. {0, 1} \subseteq Byte /\ 1 \in 0 .. BYTE BY RegisterAssumption DEF Byte
<1>2. 0 \in 0 .. (NIBBLE - 1) BY RegisterAssumption
<1>3. 0 \in Int32 /\ SECTOR_WORDS \in Int32 BY BufferAssumption DEF Int32
<1> QED BY <1>1, <1>2, <1>3 DEF Init, TypeOK, DriverHead, StatusBits

(* Writes to the registers other than the command.                         *)
LEMMA RegisterType ==
  ASSUME TypeOK,
         NEW value \in DriverHead, NEW bits \in SUBSET {"RST", "IEN"},
         NEW register \in PlainRegisters, NEW byte \in Byte,
         WriteDriverHead(value) \/ ControlWrite(bits) \/ WriteTaskFile(register, byte)
  PROVE  TypeOK'
<1>1. {0, 1} \subseteq Byte /\ Byte \subseteq 0 .. BYTE BY RegisterAssumption DEF Byte
<1>2. 0 \in 0 .. (NIBBLE - 1) BY RegisterAssumption
<1>3. CASE WriteDriverHead(value)
  BY <1>3 DEF WriteDriverHead, TypeOK, window
<1>4. CASE SoftReset(bits)
  BY <1>4 DEF SoftReset, TypeOK, window, taskFile, StatusBits
<1>5. CASE ResetDone(bits)
  <2>1. head' \in DriverHead BY <1>2, <1>5 DEF ResetDone, TypeOK, DriverHead
  <2> QED BY <1>1, <1>5, <2>1 DEF ResetDone, TypeOK, window, Ready, StatusBits
<1>6. CASE WriteControl(bits)
  BY <1>6 DEF WriteControl, TypeOK, window, taskFile
<1>7. CASE WriteTaskFile(register, byte)
  BY <1>1, <1>7 DEF WriteTaskFile, TypeOK, window
<1> QED BY <1>3, <1>4, <1>5, <1>6, <1>7 DEF ControlWrite

LEMMA CommandType == ASSUME TypeOK, WriteCommand PROVE TypeOK'
<1>1. 0 \in Int32 /\ SECTOR_WORDS \in Int32 BY BufferAssumption DEF Int32
<1>2. FullCount \in 0 .. BYTE /\ FullCount \in Nat
  BY RegisterAssumption DEF TypeOK, FullCount
<1>3. CASE IdentifyDrive
  BY <1>1, <1>3 DEF IdentifyDrive, Interrupt, TypeOK, taskFile, Ready, StatusBits, Commands
<1>4. CASE InitializeDriveParameters
  BY <1>4 DEF InitializeDriveParameters, Interrupt, TypeOK, taskFile, window,
              Ready, StatusBits, Commands
<1>5. CASE TransferChs
  BY <1>5 DEF TransferChs, Panic, TypeOK, taskFile, window
<1>6. ASSUME NEW cmd \in ReadCommands \cup WriteCommands, Transfer(cmd) PROVE TypeOK'
  <2>1. SECTOR_WORDS \in Nat BY BufferAssumption
  <2>2. \A a \in Nat : SECTOR_WORDS * a \in Nat /\ a * SECTOR_WORDS \in Nat BY <2>1
  <2>3. BlockWords(cmd) \in Nat BY <1>2, <2>1, <2>2 DEF BlockWords
  <2>4. pos' \in Int32 BY <1>6, <2>2, SectorIsNat, IntRange DEF Transfer
  <2>5. len' \in Int32
    <3>1. pos' + BlockWords(cmd) \in Int BY <2>3, <2>4 DEF Int32
    <3> QED BY <1>6, <3>1, IntRange DEF Transfer
  <2>6. irq' \in BOOLEAN BY <1>6 DEF Transfer, Interrupt, TypeOK
  <2> QED BY <1>2, <1>6, <2>4, <2>5, <2>6 DEF Transfer, TypeOK, Ready, StatusBits, Commands
<1> QED BY <1>3, <1>4, <1>5, <1>6 DEF WriteCommand

LEMMA ReadType == ASSUME TypeOK, ReadStatus \/ DataRead \/ InvalidAccess PROVE TypeOK'
<1>1. ToInt(pos + 1) \in Int32
  <2>1. pos + 1 \in Int BY DEF TypeOK, Int32
  <2> QED BY <2>1, IntRange
<1>2. CASE ReadStatus BY <1>2 DEF ReadStatus, TypeOK, taskFile, window
<1>3. CASE ReadWord BY <1>1, <1>3 DEF ReadWord, TypeOK, taskFile
<1>4. CASE ReadFinalWord BY <1>1, <1>4 DEF ReadFinalWord, TypeOK, taskFile, Ready, StatusBits
<1>5. CASE ReadIntoNextSector
  <2>1. count' \in 0 .. BYTE
    BY <1>5, RegisterAssumption DEF ReadIntoNextSector, MoreSectors, TypeOK
  <2>2. Sector + 1 \in Int BY SectorIsNat
  <2>3. number' \in Byte /\ cylLow' \in Byte /\ cylHigh' \in Byte
    BY <1>5, <2>2, Digits DEF ReadIntoNextSector, SetSector
  <2>4. head' \in DriverHead
    <3>1. ((Sector + 1) \div (BYTE * BYTE * BYTE)) % NIBBLE \in 0 .. (NIBBLE - 1)
      BY <2>2, Digits
    <3> QED BY <1>5, <3>1 DEF ReadIntoNextSector, SetSector, TypeOK, DriverHead
  <2>5. len' \in Int32
    <3>1. len + SECTOR_WORDS \in Int BY BufferAssumption DEF TypeOK, Int32
    <3> QED BY <1>5, <3>1, IntRange DEF ReadIntoNextSector
  <2> QED BY <1>1, <1>5, <2>1, <2>3, <2>4, <2>5
          DEF ReadIntoNextSector, Interrupt, TypeOK, Ready, StatusBits
<1>6. CASE ReadIntoNextSectorChs \/ ReadDataOutside \/ InvalidAccess
  BY <1>6 DEF ReadIntoNextSectorChs, ReadDataOutside, InvalidAccess, Panic,
              TypeOK, taskFile, window
<1> QED BY <1>2, <1>3, <1>4, <1>5, <1>6 DEF DataRead, ReadData

LEMMA NextType == ASSUME TypeOK, [Next]_vars PROVE TypeOK'
<1>1. CASE RegisterWrite
  <2>1. DriverHead # {} /\ {} \in SUBSET {"RST", "IEN"}
        /\ "SectorCount" \in PlainRegisters /\ 0 \in Byte
    <3>1. [fixed |-> TRUE, L |-> TRUE, DRV |-> TRUE, head |-> 0] \in DriverHead
      BY RegisterAssumption DEF DriverHead
    <3> QED BY <3>1, RegisterAssumption DEF PlainRegisters, Byte
  <2>2. CASE WriteCommand BY <2>2, CommandType
  <2>3. CASE \E value \in DriverHead : WriteDriverHead(value) BY <2>1, <2>3, RegisterType
  <2>4. CASE \E bits \in SUBSET {"RST", "IEN"} : ControlWrite(bits)
    BY <2>1, <2>4, RegisterType
  <2>5. CASE \E register \in PlainRegisters, byte \in Byte : WriteTaskFile(register, byte)
    BY <2>1, <2>5, RegisterType
  <2> QED BY <1>1, <2>2, <2>3, <2>4, <2>5 DEF RegisterWrite
<1>2. CASE ReadStatus \/ DataRead \/ InvalidAccess BY <1>2, ReadType
<1>3. CASE Exited \/ UNCHANGED vars
  BY <1>3 DEF Exited, vars, taskFile, window, TypeOK
<1> QED BY <1>1, <1>2, <1>3 DEF Next

(***************************************************************************)
(* Every register keeps its width and buf_pos and buf_len remain ints,     *)
(* through every access of any guest (device-ata.c).                       *)
(***************************************************************************)
THEOREM TypeCorrect == Spec => []TypeOK
<1>1. TypeOK /\ [Next]_vars => TypeOK' BY NextType
<1> QED BY <1>1, InitType, PTL DEF Spec

-----------------------------------------------------------------------------
(* What a step may do to the drive bit and its copy.                       *)
LEMMA DriveStep == ASSUME TypeOK, DriveCoherent, Next PROVE DriveCoherent'
<1>1. ASSUME NEW value \in DriverHead, WriteDriverHead(value) PROVE DriveCoherent'
  BY <1>1 DEF WriteDriverHead, DriveCoherent
<1>2. ASSUME NEW bits \in SUBSET {"RST", "IEN"}, ControlWrite(bits) PROVE DriveCoherent'
  <2>1. CASE SoftReset(bits) \/ WriteControl(bits)
    BY <2>1 DEF SoftReset, WriteControl, taskFile, DriveCoherent
  <2>2. CASE ResetDone(bits)
    <3>1. head'.DRV = head.DRV BY <2>2 DEF ResetDone, TypeOK, DriverHead
    <3> QED BY <2>2, <3>1 DEF ResetDone, DriveCoherent
  <2> QED BY <1>2, <2>1, <2>2 DEF ControlWrite
<1>3. CASE ReadIntoNextSector
  <2>1. head'.DRV = head.DRV
    BY <1>3 DEF ReadIntoNextSector, SetSector, TypeOK, DriverHead
  <2> QED BY <1>3, <2>1 DEF ReadIntoNextSector, DriveCoherent
<1>4. ASSUME UNCHANGED <<head, drive>> PROVE DriveCoherent'
  BY <1>4 DEF DriveCoherent
<1>5. ASSUME NEW register \in PlainRegisters, NEW byte \in Byte, WriteTaskFile(register, byte)
      PROVE  DriveCoherent'
  BY <1>4, <1>5 DEF WriteTaskFile
<1>6. CASE WriteCommand
  BY <1>4, <1>6 DEF WriteCommand, IdentifyDrive, InitializeDriveParameters, Transfer,
                    TransferChs, Panic, taskFile
<1>7. CASE ReadStatus \/ ReadWord \/ ReadFinalWord
  BY <1>4, <1>7 DEF ReadStatus, ReadWord, ReadFinalWord, taskFile
<1>8. CASE ReadIntoNextSectorChs \/ ReadDataOutside \/ InvalidAccess
  BY <1>4, <1>8 DEF ReadIntoNextSectorChs, ReadDataOutside, InvalidAccess, Panic, taskFile
<1>9. CASE Exited BY <1>4, <1>9 DEF Exited, vars, taskFile
<1> QED BY <1>1, <1>2, <1>3, <1>5, <1>6, <1>7, <1>8, <1>9
        DEF Next, RegisterWrite, DataRead, ReadData

(***************************************************************************)
(* The drive that answers is the one RegDriverHead names, through soft     *)
(* resets and the sectors of a transfer (device-ata.c:284, :261).          *)
(***************************************************************************)
THEOREM DriveSelected == Spec => []DriveCoherent
<1>1. Init => DriveCoherent BY DEF Init, DriveCoherent
<1>2. TypeOK /\ DriveCoherent /\ [Next]_vars => DriveCoherent'
  <2>1. ASSUME TypeOK, DriveCoherent, UNCHANGED vars PROVE DriveCoherent'
    BY <2>1 DEF vars, taskFile, DriveCoherent
  <2> QED BY <2>1, DriveStep
<1> QED BY <1>1, <1>2, TypeCorrect, PTL DEF Spec
-----------------------------------------------------------------------------
(* Arithmetic of sectors and registers.                                   *)

(* Quotient and remainder.                                                 *)
LEMMA Division ==
  ASSUME NEW a \in Int, NEW n \in Nat \ {0}
  PROVE  /\ a \div n \in Int /\ a % n \in 0 .. (n - 1)
         /\ n * (a \div n) <= a /\ a < n * (a \div n) + n
         /\ a % n = a - n * (a \div n)
<1>1. a \div n \in Int /\ a % n \in 0 .. (n - 1)
  OBVIOUS
<1>2. n * (a \div n) <= a /\ a < n * (a \div n) + n
  OBVIOUS
<1>3. a % n = a - n * (a \div n)
  OBVIOUS
<1> QED BY <1>1, <1>2, <1>3

LEMMA DivisionUnique ==
  ASSUME NEW a \in Int, NEW n \in Nat \ {0}, NEW q \in Int, NEW r \in 0 .. (n - 1),
         a = n * q + r
  PROVE  a \div n = q /\ a % n = r
OBVIOUS

LEMMA DivisionTwice ==
  ASSUME NEW a \in Nat, NEW m \in Nat \ {0}, NEW n \in Nat \ {0}
  PROVE  (a \div m) \div n = a \div (m * n)
OBVIOUS

(* A product is as large as its factor.                                    *)
LEMMA ProductOrder ==
  ASSUME NEW a \in Int, NEW b \in Int, NEW n \in Nat \ {0}
  PROVE  /\ a <= b <=> a * n <= b * n
         /\ a < b <=> a * n < b * n
         /\ a * n \in Int /\ (a + 1) * n = a * n + n /\ (a + b) * n = a * n + b * n
<1>1. a <= b <=> a * n <= b * n
  OBVIOUS
<1>2. a < b <=> a * n < b * n
  OBVIOUS
<1> QED BY <1>1, <1>2

(* An int that fits is converted to itself.                                *)
LEMMA FitsInt ==
  ASSUME NEW x \in Nat, x < INT_PERIOD \div 2
  PROVE  ToInt(x) = x
<1>1. INT_PERIOD \in Nat \ {0} /\ INT_PERIOD = 2 * (INT_PERIOD \div 2) /\ INT_PERIOD \div 2 \in Nat
  BY BufferAssumption
<1>2. x % INT_PERIOD = x
  BY <1>1
<1> QED BY <1>1, <1>2 DEF ToInt

(* The digits of a sector's number, put together again.                    *)
LEMMA SectorDigits ==
  ASSUME NEW s \in Nat
  PROVE  (((s \div (BYTE * BYTE * BYTE)) * BYTE + ((s \div (BYTE * BYTE)) % BYTE)) * BYTE
            + ((s \div BYTE) % BYTE)) * BYTE + (s % BYTE) = s
<1>1. BYTE \in Nat \ {0} /\ BYTE * BYTE \in Nat \ {0}
  BY RegisterAssumption
<1>. DEFINE a == s \div BYTE
            b == s \div (BYTE * BYTE)
            c == s \div (BYTE * BYTE * BYTE)
<1>2. a \in Nat /\ b \in Nat
  BY <1>1
<1>3. b = a \div BYTE
  BY <1>1, DivisionTwice
<1>4. c = b \div BYTE
  BY <1>1, DivisionTwice
<1>5. c \in Int /\ b % BYTE \in Int /\ a % BYTE \in Int /\ s % BYTE \in Int
  BY <1>1, <1>2, <1>4
<1>. HIDE DEF a, b, c
<1>6. c * BYTE + (b % BYTE) = b
  BY <1>1, <1>2, <1>4, Division
<1>7. b * BYTE + (a % BYTE) = a
  BY <1>1, <1>2, <1>3, Division
<1>8. a * BYTE + (s % BYTE) = s
  BY <1>1, Division DEF a
<1>9. ((c * BYTE + (b % BYTE)) * BYTE + (a % BYTE)) * BYTE + (s % BYTE) = s
  BY <1>6, <1>7, <1>8
<1> QED BY <1>9 DEF a, b, c

(* The highest digit of a sector of the disk fits its four bits.           *)
LEMMA HighDigit ==
  ASSUME NEW s \in Nat, s < BYTE * BYTE * BYTE * NIBBLE
  PROVE  /\ s \div (BYTE * BYTE * BYTE) \in 0 .. (NIBBLE - 1)
         /\ (s \div (BYTE * BYTE * BYTE)) % NIBBLE = s \div (BYTE * BYTE * BYTE)
<1>. DEFINE cube == BYTE * BYTE * BYTE
            q    == s \div cube
<1>1. BYTE \in Nat \ {0} /\ NIBBLE \in Nat \ {0} /\ BYTE * BYTE \in Nat \ {0}
  BY RegisterAssumption
<1>2. cube \in Nat \ {0}
  BY <1>1
<1>3. s < cube * NIBBLE
  OBVIOUS
<1>. HIDE DEF cube
<1>4. q \in Nat /\ cube * q <= s
  <2>1. s \div cube \in Int /\ cube * (s \div cube) <= s /\ s < cube * (s \div cube) + cube
    BY <1>2, Division
  <2>2. s \div cube >= 0
    BY <1>2
  <2> QED BY <2>1, <2>2
<1>5. cube * q < cube * NIBBLE
  BY <1>1, <1>2, <1>3, <1>4
<1>6. q < NIBBLE
  BY <1>1, <1>2, <1>4, <1>5, ProductOrder
<1>7. q \in 0 .. (NIBBLE - 1) /\ q % NIBBLE = q
  BY <1>1, <1>4, <1>6
<1> QED BY <1>7 DEF cube

-----------------------------------------------------------------------------
(***************************************************************************)
(* A driver's requests, for every size of registers, sectors and disk.     *)
(* What makes the two invariants of AtaDriver inductive: the registers that*)
(* a driver has written name its job, and while a transfer is under way    *)
(* the window is the one its command opened.                               *)
(***************************************************************************)
DriverType ==
  /\ phase \in {"idle", "setup", "wait", "data", "reset"}
  /\ phase \in {"setup", "wait", "data"} => job \in Jobs
  /\ todo \subseteq PlainRegisters \cup {"DriverHead"}
  /\ got \in Nat /\ (~Busy => got = 0)

RegistersNameJob ==
  phase = "setup" =>
    /\ "SectorCount" \notin todo => count = RegisterValue("SectorCount")
    /\ "SectorNumber" \notin todo => number = RegisterValue("SectorNumber")
    /\ "CylinderLow" \notin todo => cylLow = RegisterValue("CylinderLow")
    /\ "CylinderHigh" \notin todo => cylHigh = RegisterValue("CylinderHigh")
    /\ "DriverHead" \notin todo => head = HeadValue

(* A driver that polls never sees the line.                                *)
PolledSilent == phase = "wait" /\ irq => "IEN" \notin control

(* The end of the window.                                                  *)
WindowEnd ==
  CASE job.command = "ReadSector" -> First + (got \div SECTOR_WORDS + 1) * SECTOR_WORDS
    [] job.command = "ReadMultiple" -> First + Total
    [] job.command = "IdentifyDrive" -> SECTOR_WORDS

WindowFollowsJob ==
  Busy =>
    /\ got < Total /\ command = job.command
    /\ base = From /\ pos = First + got /\ len = WindowEnd
    /\ command = "ReadSector" =>
         /\ head.L
         /\ Sector = job.sector + got \div SECTOR_WORDS
         /\ count = job.sectors - got \div SECTOR_WORDS

DriverInv ==
  DriverType /\ RegistersNameJob /\ PolledSilent /\ InterruptMeansBlock /\ WindowFollowsJob

(* The words of a job, and that they lie in the buffer it reads.           *)
LEMMA JobBounds ==
  ASSUME job \in Jobs
  PROVE  /\ job.command \in ReadCommands \cup {"IdentifyDrive"}
         /\ job.sector \in Nat /\ job.sectors \in 1 .. BYTE
         /\ First \in Nat /\ Total \in Nat
         /\ First = job.sector * SECTOR_WORDS /\ Total = job.sectors * SECTOR_WORDS
         /\ SECTOR_WORDS <= Total /\ First + Total < INT_PERIOD \div 2
         /\ job.sector < BYTE * BYTE * BYTE * NIBBLE
         /\ job.command = "IdentifyDrive" => First = 0 /\ Total = SECTOR_WORDS
         /\ job.command # "IdentifyDrive" =>
              /\ First + Total <= DISK_WORDS
              /\ job.sector + job.sectors <= BYTE * BYTE * BYTE * NIBBLE
<1>. DEFINE sectors == BYTE * BYTE * BYTE * NIBBLE
<1>1. /\ BYTE \in Nat /\ 1 \in 1 .. BYTE /\ sectors \in Nat /\ 0 < sectors
      /\ SECTOR_WORDS \in Nat \ {0}
  <2>1. BYTE \in Nat \ {0} /\ NIBBLE \in Nat \ {0} /\ BYTE * BYTE \in Nat \ {0}
    BY RegisterAssumption
  <2>2. BYTE * BYTE * BYTE \in Nat \ {0}
    BY <2>1
  <2>3. sectors \in Nat \ {0}
    BY <2>1, <2>2
  <2> QED BY <2>1, <2>3, BufferAssumption
<1>2. DISK_WORDS <= sectors * SECTOR_WORDS
  BY LbaAssumption
<1>. HIDE DEF sectors
<1>3. CASE job = [command |-> "IdentifyDrive", sector |-> 0, sectors |-> 1]
  BY <1>1, <1>3, BufferAssumption DEF First, Total, sectors
<1>4. CASE /\ job \in [command : ReadCommands, sector : 0 .. (sectors - 1), sectors : 1 .. BYTE]
           /\ (job.sector + job.sectors) * SECTOR_WORDS <= DISK_WORDS
  <2>1. /\ job.command \in ReadCommands /\ job.command # "IdentifyDrive"
        /\ job.sector \in Nat /\ job.sector < sectors /\ job.sectors \in 1 .. BYTE
        /\ job.sectors \in Nat /\ 1 <= job.sectors
    BY <1>1, <1>4 DEF ReadCommands
  <2>2. /\ First \in Nat /\ Total \in Nat
        /\ First = job.sector * SECTOR_WORDS /\ Total = job.sectors * SECTOR_WORDS
    BY <1>1, <2>1 DEF First, Total
  <2>3. First + Total <= DISK_WORDS
    BY <1>1, <1>4, <2>1, <2>2, ProductOrder
  <2>4. SECTOR_WORDS <= Total
    BY <1>1, <2>1, <2>2, ProductOrder
  <2>5. job.sector + job.sectors <= sectors
    <3>1. (job.sector + job.sectors) * SECTOR_WORDS <= sectors * SECTOR_WORDS
      BY <1>1, <1>2, <1>4, <2>1, BufferAssumption
    <3>2. job.sector + job.sectors \in Int
      BY <2>1
    <3> QED BY <1>1, <3>1, <3>2, ProductOrder
  <2>6. DISK_WORDS < INT_PERIOD \div 2 /\ DISK_WORDS \in Nat /\ INT_PERIOD \div 2 \in Nat
    BY BufferAssumption
  <2> QED BY <2>1, <2>2, <2>3, <2>4, <2>5, <2>6 DEF sectors
<1> QED BY <1>3, <1>4 DEF Jobs, sectors

(* Where word g of a read of k sectors lies, and where the next one does.  *)
LEMMA Blocks ==
  ASSUME NEW g \in Nat, NEW k \in Nat, g < k * SECTOR_WORDS
  PROVE  /\ g \div SECTOR_WORDS \in Nat /\ g \div SECTOR_WORDS < k
         /\ (g \div SECTOR_WORDS) * SECTOR_WORDS <= g
         /\ g < (g \div SECTOR_WORDS + 1) * SECTOR_WORDS
         /\ g + 1 < (g \div SECTOR_WORDS + 1) * SECTOR_WORDS =>
              /\ (g + 1) \div SECTOR_WORDS = g \div SECTOR_WORDS
              /\ (g + 1) % SECTOR_WORDS # 0 /\ g + 1 < k * SECTOR_WORDS
         /\ g + 1 >= (g \div SECTOR_WORDS + 1) * SECTOR_WORDS =>
              /\ (g + 1) \div SECTOR_WORDS = g \div SECTOR_WORDS + 1
              /\ (g + 1) % SECTOR_WORDS = 0
              /\ g + 1 < k * SECTOR_WORDS <=> g \div SECTOR_WORDS + 1 < k
<1>. DEFINE n == SECTOR_WORDS
            q == g \div n
<1>1. n \in Nat \ {0}
  BY BufferAssumption
<1>. HIDE DEF n
<1>2. q \in Nat /\ q * n <= g /\ g < (q + 1) * n
  <2>1. g \div n \in Int /\ n * (g \div n) <= g /\ g < n * (g \div n) + n
    BY <1>1, Division
  <2>2. g \div n >= 0
    BY <1>1
  <2> QED BY <1>1, <2>1, <2>2
<1>. HIDE DEF q
<1>3. q < k
  <2>1. q * n < k * n
    BY <1>1, <1>2 DEF n
  <2> QED BY <1>1, <1>2, <2>1, ProductOrder
<1>4. (q + 1) * n <= k * n /\ (q + 1 < k <=> (q + 1) * n < k * n)
  BY <1>1, <1>2, <1>3, ProductOrder
<1>5. ASSUME g + 1 < (q + 1) * n
      PROVE  (g + 1) \div n = q /\ (g + 1) % n # 0 /\ g + 1 < k * n
  <2>. DEFINE r == g + 1 - q * n
  <2>1. r \in 0 .. (n - 1) /\ g + 1 = n * q + r
    BY <1>1, <1>2, <1>5
  <2>. HIDE DEF r
  <2>2. (g + 1) \div n = q /\ (g + 1) % n = r
    BY <1>1, <1>2, <2>1, DivisionUnique
  <2>3. r # 0
    BY <1>1, <1>2, <1>5 DEF r
  <2>4. k * n \in Int /\ (q + 1) * n \in Int
    BY <1>1, <1>2
  <2> QED BY <1>4, <1>5, <2>2, <2>3, <2>4
<1>6. ASSUME g + 1 >= (q + 1) * n
      PROVE  (g + 1) \div n = q + 1 /\ (g + 1) % n = 0 /\ (g + 1 < k * n <=> q + 1 < k)
  <2>1. (q + 1) * n \in Int
    BY <1>1, <1>2
  <2>2. g + 1 = (q + 1) * n
    BY <1>2, <1>6, <2>1
  <2>3. g + 1 = n * (q + 1) + 0 /\ 0 \in 0 .. (n - 1) /\ q + 1 \in Int
    BY <1>1, <1>2, <2>2
  <2>4. (g + 1) \div n = q + 1 /\ (g + 1) % n = 0
    BY <1>1, <2>3, DivisionUnique
  <2> QED BY <1>4, <2>2, <2>4
<1>. QED BY <1>2, <1>3, <1>5, <1>6 DEF n, q

-----------------------------------------------------------------------------
(* The steps of a driver that follows the protocol.                        *)

(* A driver's steps are accesses of a guest, or none.                      *)
LEMMA DriverIsGuest ==
  ASSUME TypeOK, DriverInv, [DNext]_allVars
  PROVE  [Next]_vars
<1>1. CASE ChooseMode
  <2>1. PICK value \in {{}, {"IEN"}} : WriteControl(value)
    BY <1>1 DEF ChooseMode
  <2>2. value \in SUBSET {"RST", "IEN"} /\ ControlWrite(value)
    BY <2>1 DEF ControlWrite
  <2> QED BY <2>2 DEF Next, RegisterWrite
<1>2. CASE Plan \/ Poll
  BY <1>2 DEF Plan, Poll
<1>3. ASSUME NEW register \in PlainRegisters \cup {"DriverHead"}, SetUp(register)
      PROVE  [Next]_vars
  <2>1. job \in Jobs /\ job.sector \in Nat /\ job.sectors \in Nat
        /\ job.sector < BYTE * BYTE * BYTE * NIBBLE
    BY <1>3, JobBounds DEF SetUp, DriverInv, DriverType
  <2>2. CASE register = "DriverHead"
    <3>1. HeadValue \in DriverHead
      BY <2>1, HighDigit DEF HeadValue, DriverHead
    <3>2. WriteDriverHead(HeadValue)
      BY <1>3, <2>2 DEF SetUp
    <3> QED BY <3>1, <3>2 DEF Next, RegisterWrite
  <2>3. CASE register # "DriverHead"
    <3>1. register \in PlainRegisters /\ WriteTaskFile(register, RegisterValue(register))
      BY <1>3, <2>3 DEF SetUp
    <3>2. RegisterValue(register) \in Byte
      <4>1. job.sectors % BYTE \in Byte
        BY <2>1, Digits
      <4> QED BY <2>1, <3>1, <4>1, Digits DEF RegisterValue, PlainRegisters
    <3> QED BY <3>1, <3>2 DEF Next, RegisterWrite
  <2> QED BY <2>2, <2>3
<1>4. CASE Issue
  <2>1. job \in Jobs /\ job.command \in ReadCommands \cup {"IdentifyDrive"}
    BY <1>4, JobBounds DEF Issue, DriverInv, DriverType
  <2> QED BY <1>4, <2>1 DEF Issue, Next, RegisterWrite, WriteCommand
<1>5. CASE ServeInterrupt \/ Recover
  BY <1>5 DEF ServeInterrupt, Recover, Next
<1>6. CASE Take
  BY <1>6 DEF Take, Next, DataRead
<1>7. CASE Abandon
  <2>1. control \cup {"RST"} \in SUBSET {"RST", "IEN"}
    BY DEF TypeOK
  <2> QED BY <1>7, <2>1 DEF Abandon, Next, RegisterWrite, ControlWrite
<1>8. CASE Release
  <2>1. control \ {"RST"} \in SUBSET {"RST", "IEN"}
    BY DEF TypeOK
  <2> QED BY <1>8, <2>1 DEF Release, Next, RegisterWrite, ControlWrite
<1>9. CASE UNCHANGED allVars
  BY <1>9 DEF allVars
<1> QED BY <1>1, <1>2, <1>3, <1>4, <1>5, <1>6, <1>7, <1>8, <1>9 DEF DNext

(* Between requests there is nothing to keep but that the line is quiet.   *)
LEMMA AtRest ==
  ASSUME phase' \in {"idle", "reset"}, got' = 0,
         todo' \subseteq PlainRegisters \cup {"DriverHead"}, irq' => phase' = "reset"
  PROVE  DriverInv'
<1>1. ~Busy' /\ phase' # "setup" /\ phase' # "wait"
  BY DEF Busy
<1>2. DriverType' /\ RegistersNameJob' /\ PolledSilent' /\ WindowFollowsJob'
  BY <1>1 DEF DriverType, RegistersNameJob, PolledSilent, WindowFollowsJob
<1>3. InterruptMeansBlock'
  BY <1>1 DEF InterruptMeansBlock
<1> QED BY <1>2, <1>3 DEF DriverInv

LEMMA RestSteps ==
  ASSUME DriverInv, ChooseMode \/ Abandon \/ Release \/ Recover
  PROVE  DriverInv'
<1>1. /\ todo \subseteq PlainRegisters \cup {"DriverHead"} /\ (~Busy => got = 0)
      /\ irq => phase \in {"wait", "reset"}
  BY DEF DriverInv, DriverType, InterruptMeansBlock
<1>2. CASE ChooseMode
  BY <1>1, <1>2, AtRest DEF ChooseMode, WriteControl, driverVars, Busy
<1>3. CASE Abandon
  BY <1>3, AtRest DEF Abandon
<1>4. CASE Release
  BY <1>1, <1>4, AtRest DEF Release, ResetDone, driverVars, Busy
<1>5. CASE Recover
  BY <1>1, <1>5, AtRest DEF Recover, ReadStatus, Busy
<1> QED BY <1>2, <1>3, <1>4, <1>5

LEMMA PlanSteps ==
  ASSUME DriverInv, Plan
  PROVE  DriverInv'
<1>1. phase = "idle" /\ phase' = "setup" /\ got = 0 /\ got' = 0 /\ ~irq
  BY DEF Plan, DriverInv, DriverType, InterruptMeansBlock, Busy
<1>2. ~irq'
  BY <1>1 DEF Plan, vars
<1>3. DriverType' /\ RegistersNameJob'
  BY <1>1 DEF Plan, DriverType, RegistersNameJob, PlainRegisters, Busy
<1>4. PolledSilent' /\ InterruptMeansBlock' /\ WindowFollowsJob'
  BY <1>1, <1>2 DEF PolledSilent, InterruptMeansBlock, WindowFollowsJob, Busy
<1> QED BY <1>3, <1>4 DEF DriverInv

(* Each register that is written names its part of the job.                *)
LEMMA SetUpSteps ==
  ASSUME DriverInv, NEW register \in PlainRegisters \cup {"DriverHead"}, SetUp(register)
  PROVE  DriverInv'
<1>1. /\ phase = "setup" /\ phase' = "setup" /\ got' = got /\ got = 0 /\ job' = job
      /\ todo' = todo \ {register} /\ ~irq
  BY DEF SetUp, DriverInv, DriverType, InterruptMeansBlock, Busy
<1>2. ~irq'
  BY <1>1 DEF SetUp, WriteDriverHead, WriteTaskFile
<1>3. DriverType'
  BY <1>1 DEF DriverInv, DriverType, Busy
<1>4. RegistersNameJob'
  <2>. USE <1>1 DEF DriverInv, RegistersNameJob, SetUp, RegisterValue, HeadValue
  <2>1. CASE register = "DriverHead"
    BY <2>1 DEF WriteDriverHead
  <2>2. CASE register = "SectorCount"
    BY <2>2 DEF WriteTaskFile
  <2>3. CASE register = "SectorNumber"
    BY <2>3 DEF WriteTaskFile
  <2>4. CASE register = "CylinderLow"
    BY <2>4 DEF WriteTaskFile
  <2>5. CASE register = "CylinderHigh"
    BY <2>5 DEF WriteTaskFile
  <2> QED BY <2>1, <2>2, <2>3, <2>4, <2>5 DEF PlainRegisters
<1>5. PolledSilent' /\ InterruptMeansBlock' /\ WindowFollowsJob'
  BY <1>1, <1>2 DEF PolledSilent, InterruptMeansBlock, WindowFollowsJob, Busy
<1> QED BY <1>3, <1>4, <1>5 DEF DriverInv

(* The command opens the window the job names.                             *)
LEMMA IssueSteps ==
  ASSUME DriverInv, Issue
  PROVE  DriverInv'
<1>1. /\ phase = "setup" /\ phase' = "wait" /\ todo' = todo /\ job' = job
      /\ got = 0 /\ got' = 0 /\ job \in Jobs /\ Busy'
      /\ todo \subseteq PlainRegisters \cup {"DriverHead"} /\ ~irq
  BY DEF Issue, DriverInv, DriverType, InterruptMeansBlock, Busy
<1>2. /\ count = job.sectors % BYTE /\ number = job.sector % BYTE
      /\ cylLow = (job.sector \div BYTE) % BYTE
      /\ cylHigh = (job.sector \div (BYTE * BYTE)) % BYTE
      /\ head = HeadValue
  BY DEF Issue, DriverInv, RegistersNameJob, RegisterValue
<1>3. DriverType'
  BY <1>1 DEF DriverType
<1>4. RegistersNameJob'
  BY <1>1 DEF RegistersNameJob
<1>5. /\ "DRQ" \in status' /\ (irq' \/ "IEN" \in control') /\ (irq' => "IEN" \notin control')
  <2>1. CASE job.command = "IdentifyDrive"
    BY <1>1, <2>1 DEF Issue, IdentifyDrive, Interrupt
  <2>2. CASE job.command # "IdentifyDrive"
    <3>1. job.command \in ReadCommands
      BY <1>1, <2>2, JobBounds
    <3> QED BY <1>1, <2>2, <3>1 DEF Issue, Transfer, Interrupt
  <2> QED BY <2>1, <2>2
<1>6. PolledSilent' /\ InterruptMeansBlock'
  BY <1>1, <1>5 DEF PolledSilent, InterruptMeansBlock
<1>7. /\ job.sector \in Nat /\ job.sectors \in 1 .. BYTE /\ First \in Nat /\ Total \in Nat
      /\ SECTOR_WORDS <= Total /\ First + Total < INT_PERIOD \div 2
      /\ SECTOR_WORDS \in Nat \ {0} /\ BYTE \in Nat \ {0} /\ INT_PERIOD \div 2 \in Nat
  BY <1>1, JobBounds, RegisterAssumption, BufferAssumption
<1>8. 0 \div SECTOR_WORDS = 0
  BY <1>7
<1>9. WindowFollowsJob'
  <2>1. CASE job.command = "IdentifyDrive"
    <3>1. First = 0 /\ Total = SECTOR_WORDS
      BY <1>1, <2>1, JobBounds
    <3>2. command' = "IdentifyDrive" /\ base' = "id16" /\ pos' = 0 /\ len' = SECTOR_WORDS
      BY <2>1 DEF Issue, IdentifyDrive
    <3>3. First' = 0 /\ Total' = SECTOR_WORDS
      BY <1>1, <3>1 DEF First, Total
    <3>4. From' = "id16" /\ WindowEnd' = SECTOR_WORDS
      BY <1>1, <2>1 DEF From, WindowEnd
    <3>5. 0 + 0 = 0 /\ 0 < SECTOR_WORDS
      BY <1>7
    <3> QED BY <1>1, <2>1, <3>2, <3>3, <3>4, <3>5 DEF WindowFollowsJob
  <2>2. CASE job.command # "IdentifyDrive"
    <3>1. job.command \in ReadCommands /\ job.sector < BYTE * BYTE * BYTE * NIBBLE
          /\ First = job.sector * SECTOR_WORDS /\ Total = job.sectors * SECTOR_WORDS
      BY <1>1, <2>2, JobBounds
    <3>2. Transfer(job.command)
      BY <2>2 DEF Issue
    <3>3. Sector = job.sector
      <4>1. head.head = job.sector \div (BYTE * BYTE * BYTE)
        BY <1>2 DEF HeadValue
      <4> QED BY <1>2, <1>7, <4>1, SectorDigits DEF Sector
    <3>4. FullCount = job.sectors
      <4>1. CASE job.sectors = BYTE
        <5>1. BYTE % BYTE = 0
          BY <1>7
        <5> QED BY <1>2, <4>1, <5>1 DEF FullCount
      <4>2. CASE job.sectors # BYTE
        <5>1. job.sectors % BYTE = job.sectors /\ job.sectors # 0
          BY <1>7, <4>2
        <5> QED BY <1>2, <5>1 DEF FullCount
      <4> QED BY <4>1, <4>2
    <3>5. /\ command' = job.command /\ base' = "disk_chunk" /\ count' = job.sectors
          /\ Sector' = job.sector /\ head'.L
      BY <1>2, <3>2, <3>3, <3>4 DEF Transfer, Sector, HeadValue
    <3>6. pos' = First
      <4>1. First < INT_PERIOD \div 2
        BY <1>7
      <4>2. pos' = ToInt(First)
        BY <3>1, <3>2, <3>3 DEF Transfer
      <4> QED BY <1>7, <4>1, <4>2, FitsInt
    <3>7. len' = WindowEnd'
      <4>1. CASE job.command = "ReadMultiple"
        <5>1. BlockWords(job.command) = Total
          BY <1>7, <3>1, <3>4, <4>1 DEF BlockWords
        <5>2. len' = ToInt(First + Total)
          BY <3>2, <3>6, <5>1 DEF Transfer
        <5>3. len' = First + Total
          BY <1>7, <5>2, FitsInt
        <5> QED BY <1>1, <4>1, <5>3 DEF WindowEnd, First, Total
      <4>2. CASE job.command = "ReadSector"
        <5>1. BlockWords(job.command) = SECTOR_WORDS
          BY <4>2 DEF BlockWords
        <5>2. len' = ToInt(First + SECTOR_WORDS)
          BY <3>2, <3>6, <5>1 DEF Transfer
        <5>3. First + SECTOR_WORDS \in Nat /\ First + SECTOR_WORDS < INT_PERIOD \div 2
          BY <1>7
        <5>4. len' = First + SECTOR_WORDS
          BY <5>2, <5>3, FitsInt
        <5>5. (0 \div SECTOR_WORDS + 1) * SECTOR_WORDS = SECTOR_WORDS
          BY <1>7, <1>8
        <5> QED BY <1>1, <4>2, <5>4, <5>5 DEF WindowEnd, First
      <4> QED BY <3>1, <4>1, <4>2 DEF ReadCommands
    <3>8. First' = First /\ Total' = Total /\ From' = "disk_chunk"
      BY <1>1, <2>2 DEF First, Total, From
    <3>9. 0 < Total /\ First + 0 = First /\ job.sector + 0 = job.sector /\ job.sectors - 0 = job.sectors
      BY <1>7
    <3> QED BY <1>1, <1>8, <3>5, <3>6, <3>7, <3>8, <3>9 DEF WindowFollowsJob
  <2> QED BY <2>1, <2>2
<1> QED BY <1>3, <1>4, <1>6, <1>9 DEF DriverInv

(* The driver turns to the data: the line is withdrawn, or was never used. *)
LEMMA ServeSteps ==
  ASSUME DriverInv, ServeInterrupt \/ Poll
  PROVE  DriverInv'
<1>1. phase = "wait" /\ phase' = "data" /\ Busy /\ Busy' /\ UNCHANGED <<job, todo, got>>
  BY DEF ServeInterrupt, Poll, DriverInv, InterruptMeansBlock, Busy
<1>2. ~irq'
  BY DEF ServeInterrupt, ReadStatus, Poll, vars, DriverInv, PolledSilent
<1>3. UNCHANGED <<command, window, taskFile>>
  BY DEF ServeInterrupt, ReadStatus, Poll, vars
<1>4. DriverType'
  BY <1>1 DEF DriverInv, DriverType
<1>5. RegistersNameJob' /\ PolledSilent' /\ InterruptMeansBlock'
  BY <1>1, <1>2 DEF RegistersNameJob, PolledSilent, InterruptMeansBlock
<1>6. WindowFollowsJob'
  BY <1>1, <1>3
  DEF DriverInv, WindowFollowsJob, WindowEnd, From, First, Total, Sector, window, taskFile
<1> QED BY <1>4, <1>5, <1>6 DEF DriverInv

(***************************************************************************)
(* What reading word `got' of a job does: it is the last one of its block  *)
(* exactly when the window ends with it, and then the next sector of a     *)
(* read by sectors is opened unless it was the last one.                   *)
(***************************************************************************)
LEMMA TakeReads ==
  ASSUME TypeOK, DriverInv, Take
  PROVE  /\ job \in Jobs /\ (job' = job \/ job' = NoJob)
         /\ pos' = First + got + 1 /\ UNCHANGED <<base, command, control>>
         /\ \/ /\ got + 1 = Total /\ irq' = irq
            \/ /\ got + 1 < Total /\ (got + 1) % Block # 0
               /\ UNCHANGED <<irq, len, head, count, number, cylLow, cylHigh>>
               /\ job.command = "ReadSector" => (got + 1) \div SECTOR_WORDS = got \div SECTOR_WORDS
            \/ /\ got + 1 < Total /\ (got + 1) % Block = 0
               /\ job.command = "ReadSector"
               /\ (got + 1) \div SECTOR_WORDS = got \div SECTOR_WORDS + 1
               /\ len' = First + (got \div SECTOR_WORDS + 2) * SECTOR_WORDS
               /\ count' = count - 1 /\ Sector' = Sector + 1 /\ head'.L
               /\ "DRQ" \in status' /\ Interrupt
<1>. DEFINE q == got \div SECTOR_WORDS
<1>1. phase = "data" /\ Busy /\ got \in Nat /\ job \in Jobs
  BY DEF Take, DriverInv, DriverType, Busy
<1>2. /\ got < Total /\ command = job.command /\ base = From /\ pos = First + got /\ len = WindowEnd
      /\ command = "ReadSector" =>
           head.L /\ Sector = job.sector + q /\ count = job.sectors - q
  BY <1>1 DEF DriverInv, WindowFollowsJob
<1>3. /\ job.command \in {"ReadSector", "ReadMultiple", "IdentifyDrive"}
      /\ job.sector \in Nat /\ job.sectors \in Nat /\ First \in Nat /\ Total \in Nat
      /\ Total = job.sectors * SECTOR_WORDS
      /\ First + Total < INT_PERIOD \div 2 /\ INT_PERIOD \div 2 \in Nat
      /\ SECTOR_WORDS \in Nat \ {0} /\ SECTOR_WORDS <= Total
      /\ job.command = "IdentifyDrive" => First = 0 /\ Total = SECTOR_WORDS
      /\ job.command # "IdentifyDrive" =>
           job.sector + job.sectors <= BYTE * BYTE * BYTE * NIBBLE
  BY <1>1, JobBounds, RegisterAssumption, BufferAssumption DEF ReadCommands
<1>4. ReadData /\ (job' = job \/ job' = NoJob)
  BY DEF Take
<1>5. ToInt(pos + 1) = First + got + 1
  <2>1. pos + 1 = First + got + 1 /\ First + got + 1 \in Nat /\ First + got + 1 < INT_PERIOD \div 2
    BY <1>1, <1>2, <1>3
  <2> QED BY <2>1, FitsInt
<1>6. pos' = First + got + 1 /\ UNCHANGED <<base, command, control>>
  BY <1>4, <1>5 DEF ReadData, ReadWord, ReadFinalWord, ReadIntoNextSector
<1>7. CASE job.command # "ReadSector"
  <2>1. len = First + Total /\ Block = Total /\ ~MoreSectors
    BY <1>2, <1>3, <1>7 DEF WindowEnd, Block, MoreSectors
  <2>2. LastOfBlock <=> got + 1 = Total
    BY <1>1, <1>2, <1>3, <1>5, <2>1 DEF LastOfBlock
  <2>3. CASE got + 1 = Total
    BY <1>1, <1>4, <1>6, <2>1, <2>2, <2>3 DEF ReadData, ReadWord, ReadFinalWord, ReadIntoNextSector
  <2>4. CASE got + 1 # Total
    <3>1. got + 1 < Total /\ (got + 1) % Total # 0
      <4>. DEFINE total == Total
      <4>1. got \in Nat /\ total \in Nat /\ got < total /\ got + 1 # total
        BY <1>1, <1>2, <1>3, <2>4
      <4>. HIDE DEF total
      <4>2. got + 1 < total /\ (got + 1) % total = got + 1 /\ got + 1 # 0
        BY <4>1
      <4> QED BY <4>2 DEF total
    <3>2. ReadWord
      BY <1>4, <2>2, <2>4 DEF ReadData, ReadFinalWord, ReadIntoNextSector
    <3> QED BY <1>1, <1>4, <1>6, <1>7, <2>1, <3>1, <3>2 DEF ReadWord, taskFile
  <2> QED BY <2>3, <2>4
<1>8. CASE job.command = "ReadSector"
  <2>1. Block = SECTOR_WORDS /\ len = First + (q + 1) * SECTOR_WORDS
    BY <1>2, <1>8 DEF WindowEnd, Block
  <2>2. q \in Nat /\ q < job.sectors /\ (q + 1) * SECTOR_WORDS \in Nat
        /\ got < (q + 1) * SECTOR_WORDS
    <3>1. q \in Nat /\ q < job.sectors /\ got < (q + 1) * SECTOR_WORDS
      BY <1>1, <1>2, <1>3, Blocks
    <3> QED BY <1>3, <3>1
  <2>3. LastOfBlock <=> got + 1 >= (q + 1) * SECTOR_WORDS
    <3>. DEFINE end == (q + 1) * SECTOR_WORDS
    <3>1. end \in Nat
      BY <2>2
    <3>. HIDE DEF end
    <3>2. First + got + 1 >= First + end <=> got + 1 >= end
      BY <1>1, <1>3, <3>1
    <3> QED BY <1>5, <2>1, <3>2 DEF LastOfBlock, end
  <2>4. MoreSectors <=> q + 1 < job.sectors
    BY <1>2, <1>3, <1>8, <2>2 DEF MoreSectors
  <2>5. CASE ~LastOfBlock
    <3>1. got + 1 < (q + 1) * SECTOR_WORDS
      BY <1>1, <2>2, <2>3, <2>5
    <3>2. (got + 1) \div SECTOR_WORDS = q /\ (got + 1) % SECTOR_WORDS # 0 /\ got + 1 < Total
      BY <1>1, <1>2, <1>3, <3>1, Blocks
    <3>3. ReadWord
      BY <1>4, <2>5 DEF ReadData, ReadFinalWord, ReadIntoNextSector
    <3> QED BY <1>1, <1>4, <1>6, <2>1, <3>2, <3>3 DEF ReadWord, taskFile
  <2>6. CASE LastOfBlock
    <3>1. /\ (got + 1) \div SECTOR_WORDS = q + 1 /\ (got + 1) % SECTOR_WORDS = 0
          /\ got + 1 < Total <=> q + 1 < job.sectors
      BY <1>1, <1>2, <1>3, <2>3, <2>6, Blocks
    <3>2. CASE ~MoreSectors
      <4>1. got + 1 = Total
        BY <1>1, <1>2, <1>3, <2>4, <3>1, <3>2
      <4>2. ReadFinalWord
        BY <1>4, <2>6, <3>2 DEF ReadData, ReadWord, ReadIntoNextSector
      <4> QED BY <1>1, <1>4, <1>6, <4>1, <4>2 DEF ReadFinalWord
    <3>3. CASE MoreSectors
      <4>1. ReadIntoNextSector
        BY <1>4, <2>6, <3>3 DEF ReadData, ReadWord, ReadFinalWord
      <4>2. len' = First + (q + 2) * SECTOR_WORDS
        <5>1. len + SECTOR_WORDS = First + (q + 2) * SECTOR_WORDS
          BY <1>3, <2>1, <2>2
        <5>2. (q + 2) * SECTOR_WORDS <= Total
          <6>1. q + 2 \in Int /\ q + 2 <= job.sectors
            BY <1>3, <2>2, <2>4, <3>3
          <6> QED BY <1>3, <6>1, ProductOrder
        <5>3. First + (q + 2) * SECTOR_WORDS \in Nat
          BY <1>3, <2>2
        <5>4. First + (q + 2) * SECTOR_WORDS < INT_PERIOD \div 2
          <6>1. (q + 2) * SECTOR_WORDS \in Nat
            BY <1>3, <2>2
          <6> QED BY <1>3, <5>2, <6>1
        <5>5. ToInt(First + (q + 2) * SECTOR_WORDS) = First + (q + 2) * SECTOR_WORDS
          BY <5>3, <5>4, FitsInt
        <5> QED BY <4>1, <5>1, <5>5 DEF ReadIntoNextSector
      <4>3. Sector' = Sector + 1
        <5>. DEFINE s == Sector + 1
        <5>1. s \in Nat /\ s < BYTE * BYTE * BYTE * NIBBLE
          <6>1. BYTE * BYTE * BYTE * NIBBLE \in Int
            BY RegisterAssumption
          <6>2. job.sector + q + 1 < job.sector + job.sectors
            BY <1>3, <2>2, <2>4, <3>3
          <6>3. s = job.sector + q + 1
            BY <1>2, <1>8
          <6> QED BY <1>3, <1>8, <2>2, <6>1, <6>2, <6>3
        <5>2. /\ number' = s % BYTE /\ cylLow' = (s \div BYTE) % BYTE
              /\ cylHigh' = (s \div (BYTE * BYTE)) % BYTE
              /\ head'.head = (s \div (BYTE * BYTE * BYTE)) % NIBBLE
          BY <4>1 DEF ReadIntoNextSector, SetSector, TypeOK, DriverHead
        <5>. HIDE DEF s
        <5>3. head'.head = s \div (BYTE * BYTE * BYTE)
          BY <5>1, <5>2, HighDigit
        <5>4. Sector' = s
          BY <5>1, <5>2, <5>3, SectorDigits DEF Sector
        <5> QED BY <5>4 DEF s
      <4>4. head'.L
        BY <4>1 DEF ReadIntoNextSector, SetSector, TypeOK, DriverHead
      <4>5. got + 1 < Total
        BY <2>4, <3>1, <3>3
      <4>6. count' = count - 1 /\ "DRQ" \in status' /\ Interrupt
        BY <4>1 DEF ReadIntoNextSector
      <4> QED BY <1>1, <1>4, <1>6, <1>8, <2>1, <3>1, <4>2, <4>3, <4>4, <4>5, <4>6
    <3> QED BY <3>2, <3>3
  <2> QED BY <2>5, <2>6
<1> QED BY <1>7, <1>8

LEMMA TakeSteps ==
  ASSUME TypeOK, DriverInv, Take
  PROVE  DriverInv'
<1>. DEFINE q == got \div SECTOR_WORDS
<1>1. /\ phase = "data" /\ Busy /\ got \in Nat /\ job \in Jobs /\ todo' = todo
      /\ todo \subseteq PlainRegisters \cup {"DriverHead"} /\ ~irq
  BY DEF Take, DriverInv, DriverType, InterruptMeansBlock, Busy
<1>2. /\ got < Total /\ command = job.command /\ base = From
      /\ command = "ReadSector" =>
           head.L /\ Sector = job.sector + q /\ count = job.sectors - q
      /\ len = WindowEnd
  BY <1>1 DEF DriverInv, WindowFollowsJob
<1>3. /\ job.sector \in Nat /\ job.sectors \in Nat /\ First \in Nat /\ Total \in Nat /\ q \in Int
      /\ job.command \in {"ReadSector", "ReadMultiple", "IdentifyDrive"}
  BY <1>1, JobBounds, RegisterAssumption, BufferAssumption DEF ReadCommands
<1>4. CASE got + 1 = Total
  <2>1. phase' = "idle" /\ got' = 0
    BY <1>4 DEF Take
  <2>2. ~irq'
    BY <1>1, <1>3, <1>4, TakeReads
  <2> QED BY <1>1, <2>1, <2>2, AtRest
<1>5. CASE got + 1 # Total
  <2>1. /\ phase' = IF (got + 1) % Block = 0 THEN "wait" ELSE "data"
        /\ got' = got + 1 /\ job' = job
    BY <1>5 DEF Take
  <2>2. /\ Busy' /\ DriverType' /\ RegistersNameJob'
    BY <1>1, <2>1 DEF DriverType, RegistersNameJob, Busy
  <2>3. /\ pos' = First + got' /\ UNCHANGED <<base, command, control>>
    BY <1>1, <1>3, <2>1, TakeReads
  <2>4. First' = First /\ Total' = Total /\ From' = From
    BY <2>1 DEF First, Total, From
  <2>5. CASE (got + 1) % Block # 0
    <3>1. /\ got + 1 < Total /\ UNCHANGED <<irq, len, head, count, number, cylLow, cylHigh>>
          /\ job.command = "ReadSector" => (got + 1) \div SECTOR_WORDS = q
      BY <1>5, <2>5, TakeReads
    <3>2. PolledSilent' /\ InterruptMeansBlock'
      BY <1>1, <2>1, <2>5, <3>1 DEF PolledSilent, InterruptMeansBlock
    <3>3. WindowEnd' = WindowEnd /\ Sector' = Sector
      BY <1>3, <2>1, <2>4, <3>1 DEF WindowEnd, Sector
    <3>4. WindowFollowsJob'
      BY <1>2, <2>1, <2>3, <2>4, <3>1, <3>3 DEF WindowFollowsJob
    <3> QED BY <2>2, <3>2, <3>4 DEF DriverInv
  <2>6. CASE (got + 1) % Block = 0
    <3>1. /\ got + 1 < Total /\ job.command = "ReadSector"
          /\ (got + 1) \div SECTOR_WORDS = q + 1
          /\ len' = First + (q + 2) * SECTOR_WORDS
          /\ count' = count - 1 /\ Sector' = Sector + 1 /\ head'.L
          /\ "DRQ" \in status' /\ Interrupt
      BY <1>5, <2>6, TakeReads
    <3>2. irq' = ("IEN" \notin control)
      BY <1>1, <3>1 DEF Interrupt
    <3>3. PolledSilent' /\ InterruptMeansBlock'
      BY <2>1, <2>3, <2>6, <3>1, <3>2 DEF PolledSilent, InterruptMeansBlock
    <3>4. WindowEnd' = First + (q + 2) * SECTOR_WORDS
      <4>1. (q + 1) + 1 = q + 2
        BY <1>3
      <4> QED BY <2>1, <2>4, <3>1, <4>1 DEF WindowEnd
    <3>5. Sector' = job.sector + (q + 1) /\ count' = job.sectors - (q + 1)
      BY <1>2, <1>3, <3>1
    <3>6. WindowFollowsJob'
      BY <1>2, <2>1, <2>3, <2>4, <3>1, <3>4, <3>5 DEF WindowFollowsJob
    <3> QED BY <2>2, <3>3, <3>6 DEF DriverInv
  <2> QED BY <2>5, <2>6
<1> QED BY <1>4, <1>5

(* What no step changes stays as it is.                                    *)
LEMMA DriverStutters ==
  ASSUME DriverInv, UNCHANGED allVars
  PROVE  DriverInv'
<1>1. UNCHANGED <<phase, job, todo, got, control, count, number, cylLow, cylHigh, head,
                  status, command, base, pos, len, irq>>
  BY DEF allVars, vars, taskFile, window, driverVars
<1>2. Busy' = Busy /\ First' = First /\ Total' = Total /\ From' = From /\ Sector' = Sector
      /\ HeadValue' = HeadValue
      /\ \A r : RegisterValue(r)' = RegisterValue(r)
  BY <1>1 DEF Busy, First, Total, From, Sector, HeadValue, RegisterValue
<1>3. WindowEnd' = WindowEnd
  BY <1>1, <1>2 DEF WindowEnd
<1>4. DriverType' /\ WindowFollowsJob'
  BY <1>1, <1>2, <1>3 DEF DriverInv, DriverType, WindowFollowsJob
<1>5. RegistersNameJob'
  BY <1>1, <1>2 DEF DriverInv, RegistersNameJob
<1>6. PolledSilent' /\ InterruptMeansBlock'
  BY <1>1, Zenon DEF DriverInv, PolledSilent, InterruptMeansBlock
<1> QED BY <1>4, <1>5, <1>6 DEF DriverInv

LEMMA DriverStep ==
  ASSUME TypeOK, DriverInv, [DNext]_allVars
  PROVE  TypeOK' /\ DriverInv'
<1>1. TypeOK'
  BY DriverIsGuest, NextType
<1>2. DriverInv'
  BY RestSteps, PlanSteps, SetUpSteps, IssueSteps, ServeSteps, TakeSteps, DriverStutters DEF DNext
<1> QED BY <1>1, <1>2

LEMMA DriverInit == DInit => TypeOK /\ DriverInv
<1> SUFFICES ASSUME DInit
             PROVE  TypeOK /\ DriverInv
  OBVIOUS
<1>1. TypeOK
  BY InitType DEF DInit
<1>2. DriverInv
  BY DEF DInit, Init, DriverInv, DriverType, RegistersNameJob, PolledSilent,
         InterruptMeansBlock, WindowFollowsJob, Busy
<1> QED BY <1>1, <1>2

LEMMA DriverInvariant == DSpec => [](TypeOK /\ DriverInv)
<1>1. TypeOK /\ DriverInv /\ [DNext]_allVars => (TypeOK /\ DriverInv)'
  BY DriverStep
<1> QED BY <1>1, DriverInit, PTL DEF DSpec

(***************************************************************************)
(* No interrupt of the disk is lost and none comes unasked, for a driver   *)
(* that follows the protocol, whatever it gives up and however often it    *)
(* changes between interrupts and polling (device-ata.c).                  *)
(***************************************************************************)
THEOREM NoInterruptLost == DSpec => []InterruptMeansBlock
<1>1. DriverInv => InterruptMeansBlock
  BY DEF DriverInv
<1> QED BY <1>1, DriverInvariant, PTL

(***************************************************************************)
(* Such a driver never reads outside the buffer, and between two sectors   *)
(* the task file names the one being read: set_sector() carries from       *)
(* register to register and no conversion to int overflows.                *)
(***************************************************************************)
THEOREM AddressesFollow == DSpec => []AddressFollowsData
<1>1. ASSUME DriverInv
      PROVE  AddressFollowsData
  <2> SUFFICES ASSUME Busy
               PROVE  AddressFollowsData
    BY DEF AddressFollowsData
  <2>1. job \in Jobs /\ got \in Nat
    BY <1>1 DEF DriverInv, DriverType, Busy
  <2>2. /\ got < Total /\ command = job.command
        /\ base = From /\ pos = First + got /\ len = WindowEnd
        /\ command = "ReadSector" =>
             /\ head.L
             /\ Sector = job.sector + got \div SECTOR_WORDS
             /\ count = job.sectors - got \div SECTOR_WORDS
    BY <1>1 DEF DriverInv, WindowFollowsJob
  <2>3. /\ First \in Nat /\ Total \in Nat /\ job.sector \in Nat
        /\ First = job.sector * SECTOR_WORDS
        /\ job.command = "IdentifyDrive" => First = 0 /\ Total = SECTOR_WORDS
        /\ job.command # "IdentifyDrive" => First + Total <= DISK_WORDS
        /\ DISK_WORDS \in Nat /\ SECTOR_WORDS \in Nat \ {0}
    BY <2>1, JobBounds, BufferAssumption
  <2>4. InBuffer
    <3>1. pos >= 0 /\ pos < First + Total
      BY <2>1, <2>2, <2>3
    <3> QED BY <2>1, <2>2, <2>3, <3>1 DEF InBuffer, From
  <2>5. command = "ReadSector" => len = (Sector + 1) * SECTOR_WORDS
    <3> SUFFICES ASSUME command = "ReadSector"
                 PROVE  len = (Sector + 1) * SECTOR_WORDS
      OBVIOUS
    <3>. DEFINE q == got \div SECTOR_WORDS
    <3>1. q \in Int /\ len = First + (q + 1) * SECTOR_WORDS /\ Sector = job.sector + q
      BY <2>1, <2>2, <2>3 DEF WindowEnd
    <3>2. (job.sector + (q + 1)) * SECTOR_WORDS = First + (q + 1) * SECTOR_WORDS
      BY <2>3, <3>1, ProductOrder
    <3>3. job.sector + (q + 1) = Sector + 1
      BY <2>3, <3>1
    <3> QED BY <3>1, <3>2, <3>3
  <2> QED BY <2>2, <2>4, <2>5 DEF AddressFollowsData
<1> QED BY <1>1, DriverInvariant, PTL
-----------------------------------------------------------------------------
(***************************************************************************)
(* The disk implements PioTransfer, whatever the sizes: the initial states *)
(* map to initial states and each step of the disk and its driver to a     *)
(* step or a stutter.  That no request is left half-way needs fairness and *)
(* stays with the run.                                                     *)
(***************************************************************************)
JobRange == [from |-> From, first |-> First, last |-> First + Total - 1]

LEMMA RangeOfJob ==
  ASSUME job \in Jobs
  PROVE  /\ JobRange \in Pio!Ranges /\ JobRange # Pio!NoRequest
         /\ First \in Nat /\ Total \in Nat \ {0}
<1>1. /\ From = IF job.command = "IdentifyDrive" THEN "id16" ELSE "disk_chunk"
      /\ First \in Nat /\ Total \in Nat /\ 1 <= Total
      /\ SECTOR_WORDS \in Nat /\ DISK_WORDS \in Nat
      /\ job.command = "IdentifyDrive" => First = 0 /\ Total = SECTOR_WORDS
      /\ job.command # "IdentifyDrive" => First + Total <= DISK_WORDS
  BY JobBounds, BufferAssumption DEF From
<1>2. Total <= BYTE * SECTOR_WORDS /\ BYTE * SECTOR_WORDS \in Nat
  <2>1. job.sectors \in 1 .. BYTE /\ BYTE \in Nat /\ SECTOR_WORDS \in Nat \ {0}
    BY JobBounds, RegisterAssumption, BufferAssumption
  <2>2. job.sectors * SECTOR_WORDS <= BYTE * SECTOR_WORDS
    BY <2>1, ProductOrder
  <2>3. BYTE * SECTOR_WORDS \in Nat
    BY <2>1
  <2> QED BY <2>2, <2>3, JobBounds
<1>3. CASE job.command = "IdentifyDrive"
  BY <1>1, <1>3 DEF JobRange, Pio!Ranges, Pio!NoRequest
<1>4. CASE job.command # "IdentifyDrive"
  <2>. DEFINE most == BYTE * SECTOR_WORDS
              first == First
              last == First + Total - 1
  <2>1. /\ first \in 0 .. (DISK_WORDS - 1) /\ last \in 0 .. (DISK_WORDS - 1)
        /\ first <= last /\ last - first < most
    BY <1>1, <1>2, <1>4
  <2>2. JobRange = [from |-> "disk_chunk", first |-> first, last |-> last]
    BY <1>1, <1>4 DEF JobRange
  <2>. HIDE DEF first, last, most
  <2>3. JobRange \in {r \in [from : {"disk_chunk"}, first : 0 .. (DISK_WORDS - 1),
                             last : 0 .. (DISK_WORDS - 1)] :
                        r.first <= r.last /\ r.last - r.first < most}
    BY <2>1, <2>2
  <2>4. JobRange \in Pio!Ranges
    BY <2>3 DEF most, Pio!Ranges
  <2>5. JobRange # Pio!NoRequest
    BY <2>2 DEF Pio!NoRequest
  <2> QED BY <1>1, <2>4, <2>5
<1> QED BY <1>1, <1>3, <1>4

LEMMA TransferInit == DInit => Pio!Init
BY DEF DInit, Pio!Init, Request, Busy, Pio!NoRequest, Pio!Place

LEMMA IdleStutters ==
  ASSUME ~Busy, ~Busy', UNCHANGED <<got, word>>
  PROVE  UNCHANGED Pio!vars
BY DEF Request, Pio!vars

LEMMA BusyStutters ==
  ASSUME Busy' = Busy, UNCHANGED <<job, got, word>>
  PROVE  UNCHANGED Pio!vars
BY DEF Request, From, First, Total, Pio!vars

LEMMA IssueStarts ==
  ASSUME DriverInv, Issue
  PROVE  Pio!Start
<1>1. ~Busy /\ Busy' /\ job \in Jobs /\ job' = job /\ UNCHANGED <<got, word>>
  BY DEF Issue, Busy, DriverInv, DriverType
<1>2. Request = Pio!NoRequest
  BY <1>1 DEF Request, Pio!NoRequest
<1>3. Request' = JobRange
  BY <1>1 DEF Request, JobRange, From, First, Total
<1> QED BY <1>1, <1>2, <1>3, RangeOfJob DEF Pio!Start

LEMMA TakeDelivers ==
  ASSUME DriverInv, Take
  PROVE  Pio!Deliver
<1>1. Busy /\ job \in Jobs /\ got \in Nat
  BY DEF Take, Busy, DriverInv, DriverType
<1>2. base = From /\ pos = First + got
  BY <1>1 DEF DriverInv, WindowFollowsJob
<1>3. Request = JobRange
  BY <1>1 DEF Request, JobRange
<1>4. Request # Pio!NoRequest
  BY <1>1, <1>3, RangeOfJob
<1>5. word' = Pio!Place(Request.from, Request.first + got)
  BY <1>2, <1>3 DEF Take, JobRange, Pio!Place
<1>6. Request.first + got = Request.last <=> got + 1 = Total
  <2>. DEFINE first == First
              total == Total
  <2>1. Request.first = first /\ Request.last = first + total - 1
    BY <1>3 DEF JobRange
  <2>2. first \in Nat /\ total \in Nat
    BY <1>1, RangeOfJob
  <2>. HIDE DEF first, total
  <2>3. Request.first + got = Request.last <=> got + 1 = total
    BY <1>1, <2>1, <2>2
  <2> QED BY <2>3 DEF total
<1>7. CASE got + 1 = Total
  <2>1. got' = 0 /\ ~Busy'
    BY <1>7 DEF Take, Busy
  <2>2. Request' = Pio!NoRequest
    BY <2>1 DEF Request, Pio!NoRequest
  <2> QED BY <1>4, <1>5, <1>6, <1>7, <2>1, <2>2 DEF Pio!Deliver
<1>8. CASE got + 1 # Total
  <2>1. got' = got + 1 /\ job' = job /\ Busy'
    BY <1>8 DEF Take, Busy
  <2>2. Request' = Request
    BY <1>1, <2>1 DEF Request, From, First, Total
  <2> QED BY <1>4, <1>5, <1>6, <1>8, <2>1, <2>2 DEF Pio!Deliver
<1> QED BY <1>7, <1>8

LEMMA AbandonGivesUp ==
  ASSUME DriverInv, Abandon
  PROVE  Pio!GiveUp \/ UNCHANGED Pio!vars
<1>1. ~Busy' /\ got' = 0 /\ word' = word
  BY DEF Abandon, Busy
<1>2. CASE Busy
  <2>1. job \in Jobs /\ Request = JobRange
    BY <1>2 DEF Busy, DriverInv, DriverType, Request, JobRange
  <2>2. Request' = Pio!NoRequest
    BY <1>1 DEF Request, Pio!NoRequest
  <2> QED BY <1>1, <2>1, <2>2, RangeOfJob DEF Pio!GiveUp
<1>3. CASE ~Busy
  <2>1. got = 0
    BY <1>3 DEF DriverInv, DriverType
  <2> QED BY <1>1, <1>3, <2>1, IdleStutters
<1> QED BY <1>2, <1>3

LEMMA TransferStep ==
  ASSUME DriverInv, [DNext]_allVars
  PROVE  [Pio!Next]_(Pio!vars)
<1>1. CASE Issue
  BY <1>1, IssueStarts DEF Pio!Next
<1>2. CASE Take
  BY <1>2, TakeDelivers DEF Pio!Next
<1>3. CASE Abandon
  BY <1>3, AbandonGivesUp DEF Pio!Next
<1>4. CASE Plan \/ Recover
  <2>1. ~Busy /\ ~Busy' /\ UNCHANGED <<got, word>>
    BY <1>4 DEF Plan, Recover, Busy
  <2> QED BY <2>1, IdleStutters
<1>5. CASE \/ ChooseMode \/ ServeInterrupt \/ Poll \/ Release
           \/ \E register \in PlainRegisters \cup {"DriverHead"} : SetUp(register)
  <2>1. Busy' = Busy /\ UNCHANGED <<job, got, word>>
    BY <1>5 DEF ChooseMode, ServeInterrupt, Poll, Release, SetUp, Busy, driverVars
  <2> QED BY <2>1, BusyStutters
<1>6. CASE UNCHANGED allVars
  <2>1. Busy' = Busy /\ UNCHANGED <<job, got, word>>
    BY <1>6 DEF allVars, driverVars, Busy
  <2> QED BY <2>1, BusyStutters
<1> QED BY <1>1, <1>2, <1>3, <1>4, <1>5, <1>6 DEF DNext

(***************************************************************************)
(* Each word of the sectors that a read command names is delivered once    *)
(* and in order, 256 sectors for a count of 0, for every size of registers,*)
(* sectors and disk (dev_ata_readreg16(), set_sector()): the part of       *)
(* Transfers that no fairness decides.                                     *)
(***************************************************************************)
THEOREM WordsInOrder == DSpec => Pio!Init /\ [][Pio!Next]_(Pio!vars)
<1>1. DriverInv /\ [DNext]_allVars => [Pio!Next]_(Pio!vars)
  BY TransferStep
<1> QED BY <1>1, TransferInit, DriverInvariant, PTL DEF DSpec
=============================================================================
